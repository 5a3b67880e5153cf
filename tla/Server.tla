------------------------------- MODULE Server -------------------------------
(***************************************************************************)
(* The server process: crates/server/src/main.rs, with the accept loop and *)
(* the connections it starts.  One connection, Tracked, is followed frame  *)
(* by frame with the actions of Connection; of the others only what Serve  *)
(* knows is kept.  So the permit of the tracked task comes back when `run` *)
(* returns and not before, and its packets stop when the task is aborted.  *)
(***************************************************************************)
EXTENDS Naturals, Sequences, FiniteSets

CONSTANTS
    CommandLines,      \* the options the process may be started with
    MAX_PERMITS,       \* Semaphore::MAX_PERMITS
    Tracked,           \* the connection that is followed
    Conns, MaxConnections, Workers,                       \* of Serve
    Frames, Args, ValidNames, MaxFrames, SendCapacity     \* of Connection

VARIABLES
    phase,      \* where `main` is
    code,       \* the exit status of the process
    args,       \* its options
    remote,     \* the tracked peer is on another host
    pc, conn, permits, accepted, refused, drained, abandoned, shutdown,
    config, current, status_request_seen, compression, todo, flow, outcome,
    inbox, partial, peer, unread, sent, consumed

S == INSTANCE Serve
C == INSTANCE Connection

serveVars == <<pc, conn, permits, accepted, refused, drained, abandoned, shutdown>>
connectionVars == <<config, current, status_request_seen, compression, todo, flow, outcome,
                    inbox, partial, peer, unread, sent, consumed>>
vars == <<phase, code, args, remote, serveVars, connectionVars>>

\* The valid value of max_connections that is tried is the one of Serve.
ASSUME CommandLinesAssumption ==
    /\ Tracked \in Conns
    /\ CommandLines \subseteq
          [bind: {"loopback", "public"}, motd: {"fits", "oversized"}, read_timeout: Nat,
           max_connections: {0, MaxConnections, MAX_PERMITS + 1},
           compression: BOOLEAN,    \* compression_threshold >= 0
           insecure_offline_mode: BOOLEAN]

-----------------------------------------------------------------------------
(***************************************************************************)
(* main.                                                                   *)
(***************************************************************************)
\* The value parsers of clap.
Parses(a) == a.read_timeout >= 1 /\ a.max_connections \in 1..MAX_PERMITS

\* Fault: the interlock is left out.
check_bind_safety_Absent(a) == TRUE

check_bind_safety(a) == a.insecure_offline_mode \/ a.bind = "loopback"

\* What the options make of ServerConfig, as far as a connection can tell.
ServerConfig(a) == [compression |-> a.compression, statusFits |-> a.motd = "fits"]

MainGoes(from, to, status) ==
    /\ phase = from
    /\ phase' = to
    /\ code' = status
    /\ UNCHANGED <<args, remote, serveVars, connectionVars>>

Parse == IF Parses(args) THEN MainGoes("parse", "check", 0)
         ELSE MainGoes("parse", "exited", 2)

CheckBind == IF check_bind_safety(args) THEN MainGoes("check", "bind", 0)
             ELSE MainGoes("check", "exited", 1)

\* The address may be taken.
Bind == MainGoes("bind", "serving", 0) \/ MainGoes("bind", "exited", 1)

Exit == pc = "returned" /\ MainGoes("serving", "exited", 0)

Main == Parse \/ CheckBind \/ Bind \/ Exit

-----------------------------------------------------------------------------
(***************************************************************************)
(* The accept loop and the tasks, while `main` awaits `serve`.             *)
(***************************************************************************)
Serving == phase = "serving" /\ UNCHANGED <<phase, code, args, remote>>

\* A peer on another host reaches only a public address.
Connect(c) ==
    /\ Serving
    /\ c = Tracked /\ remote => args.bind = "public"
    /\ S!Connect(c)
    /\ UNCHANGED connectionVars

\* Ctrl-C, or the failure to listen for it.
RequestShutdown == Serving /\ S!RequestShutdown /\ UNCHANGED connectionVars

Accepting == Serving /\ S!Accepting /\ UNCHANGED connectionVars
Handling == Serving /\ S!Handling /\ UNCHANGED connectionVars
Break == Serving /\ S!Break /\ UNCHANGED connectionVars
Draining == Serving /\ S!Draining /\ UNCHANGED connectionVars

\* run_connection of the tracked connection, polled while its task is alive.
Run == Serving /\ conn[Tracked] = "running" /\ C!ServerNext /\ UNCHANGED serveVars

DropPermit(c) ==
    /\ Serving
    /\ c = Tracked => outcome # "running"
    /\ S!DropPermit(c)
    /\ UNCHANGED connectionVars

Complete(c) == Serving /\ S!Complete(c) /\ UNCHANGED connectionVars

\* The peer may send as soon as the kernel has the connection, and until the
\* server drops the socket.
Connected == conn[Tracked] \in {"queued", "inHand", "running"}

Peer ==
    /\ Serving /\ Connected
    /\ \/ \E f \in Frames : C!PeerSend(f)
       \/ C!PeerSendPart
       \/ \E how \in {"eof", "reset"} : C!PeerStops(how)
    /\ UNCHANGED serveVars

PeerRead == Serving /\ Connected /\ C!PeerRead /\ UNCHANGED serveVars

-----------------------------------------------------------------------------
Init ==
    /\ phase = "parse" /\ code = 0
    /\ args \in CommandLines
    /\ remote \in BOOLEAN
    /\ S!Init
    /\ C!Init /\ config = ServerConfig(args)

Next ==
    \/ Main
    \/ RequestShutdown \/ Accepting \/ Handling \/ Break \/ Draining
    \/ \E c \in Conns : Connect(c) \/ DropPermit(c) \/ Complete(c)
    \/ Run \/ Peer \/ PeerRead

Spec == Init /\ [][Next]_vars

\* The threads of main, of the loop and of the tasks run and timers fire, as in
\* Serve and Connection; the tracked peer reads what it is sent.  The other
\* connections need not end.
FairSpec ==
    /\ Spec
    /\ WF_vars(Main)
    /\ WF_vars(Accepting) /\ WF_vars(Handling) /\ WF_vars(Draining) /\ SF_vars(Break)
    /\ WF_vars(Run) /\ WF_vars(DropPermit(Tracked)) /\ WF_vars(\E c \in Conns : Complete(c))
    /\ WF_vars(PeerRead)

-----------------------------------------------------------------------------
(***************************************************************************)
(* Properties.                                                             *)
(***************************************************************************)

\* Nobody on another host is logged in without authentication unless the
\* operator asked for it with --insecure-offline-mode, wherever the start-up,
\* the accept loop and the login are: the interlock is passed before anything
\* is bound (main, check_bind_safety, handle_login_start).
OfflineLoginsDeliberate ==
    remote /\ (\E i \in DOMAIN sent : sent[i].packet = "LoginSuccess") =>
        args.insecure_offline_mode

\* A process that reports `drained` has cut nobody off: if it serviced the
\* tracked connection, Connection::run returned, so that no peer is left with
\* half of the answer to its LoginStart (drain, serve, main).
DrainedMeansFinished ==
    phase = "exited" /\ drained =>
        \/ conn[Tracked] \in {"unmade", "queued", "lost", "refused"}
        \/ conn[Tracked] = "reaped" /\ outcome # "running"

\* No complete frame arrives from the tracked peer in this step.
NoFurtherFrame == Len(consumed') + Len(inbox') = Len(consumed) + Len(inbox)

\* The permit of a connection comes back once its peer sends no further complete
\* frame, whatever it has sent or left unfinished, as long as it reads: here the
\* read timeout of Connection::run is what the capacity of `serve` rests on.  A
\* peer that keeps on sending LoginStarts in time keeps its permit.
PermitReturns ==
    <>[][NoFurtherFrame]_vars => (conn[Tracked] = "running" ~> conn[Tracked] # "running")

\* After Ctrl-C the process ends, and with success, though connections may
\* never end by themselves; and it either serves or says why not.
ProcessStops ==
    /\ shutdown ~> phase = "exited" /\ code = 0
    /\ <>(phase = "serving" \/ (phase = "exited" /\ code # 0))
=============================================================================
