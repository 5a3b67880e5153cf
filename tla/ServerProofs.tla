---------------------------- MODULE ServerProofs ----------------------------
(***************************************************************************)
(* Proofs about the server process, for any set of command lines, any      *)
(* number of connections and any frames the peer of the tracked one sends. *)
(***************************************************************************)
EXTENDS Server, TLAPS

-----------------------------------------------------------------------------
(***************************************************************************)
(* The process is made of its components: what it does is, for the accept  *)
(* loop, something Serve allows and, for the connection, something         *)
(* Connection allows, so what is proved of either holds in the process.    *)
(***************************************************************************)

\* Every step of the process is a step of the accept loop and its tasks, or
\* leaves them alone.
LEMMA ServeStep == [Next]_vars => [S!Next]_(S!vars)
<1> SUFFICES ASSUME [Next]_vars PROVE [S!Next]_(S!vars)
  OBVIOUS
<1>1. UNCHANGED serveVars => UNCHANGED S!vars
  BY DEF serveVars, S!vars, S!counters
<1>2. CASE Main
  BY <1>1, <1>2 DEF Main, Parse, CheckBind, Bind, Exit, MainGoes
<1>3. CASE RequestShutdown \/ Accepting \/ Handling \/ Break \/ Draining
  BY <1>3 DEF RequestShutdown, Accepting, Handling, Break, Draining, S!Next
<1>4. ASSUME NEW c \in Conns, Connect(c) \/ DropPermit(c) \/ Complete(c)
      PROVE  [S!Next]_(S!vars)
  BY <1>4 DEF Connect, DropPermit, Complete, S!Next, S!Tasks
<1>5. CASE Run \/ Peer \/ PeerRead
  BY <1>1, <1>5 DEF Run, Peer, PeerRead
<1>6. CASE UNCHANGED vars
  BY <1>1, <1>6 DEF vars
<1> QED
  BY <1>2, <1>3, <1>4, <1>5, <1>6 DEF Next

\* The accept loop within the process is the one of Serve: whatever main, the
\* connections and the peers do, permits are conserved, refusals justified and
\* the outcome accurate, as proved of Serve (main awaits serve).
THEOREM ImplementsServe == Spec => S!Spec
<1>1. Init => S!Init
  BY DEF Init
<1> QED
  BY <1>1, ServeStep, PTL DEF Spec, S!Spec

\* Every step of the process is a step of the tracked connection or its peer,
\* or leaves them alone.
LEMMA ConnectionStep == [Next]_vars => [C!Next]_(C!vars)
<1> SUFFICES ASSUME [Next]_vars PROVE [C!Next]_(C!vars)
  OBVIOUS
<1>1. UNCHANGED connectionVars => UNCHANGED C!vars
  BY DEF connectionVars, C!vars, C!serverVars, C!peerVars
<1>2. CASE Main
  BY <1>1, <1>2 DEF Main, Parse, CheckBind, Bind, Exit, MainGoes
<1>3. CASE RequestShutdown \/ Accepting \/ Handling \/ Break \/ Draining
  BY <1>1, <1>3 DEF RequestShutdown, Accepting, Handling, Break, Draining
<1>4. ASSUME NEW c \in Conns, Connect(c) \/ DropPermit(c) \/ Complete(c)
      PROVE  [C!Next]_(C!vars)
  BY <1>1, <1>4 DEF Connect, DropPermit, Complete
<1>5. CASE Run
  BY <1>5 DEF Run, C!Next
<1>6. CASE Peer \/ PeerRead
  BY <1>6 DEF Peer, PeerRead, C!Next, C!PeerNext
<1>7. CASE UNCHANGED vars
  BY <1>1, <1>7 DEF vars
<1> QED
  BY <1>2, <1>3, <1>4, <1>5, <1>6, <1>7 DEF Next

\* The tracked connection within the process is the one of Connection: being
\* admitted late, or aborted by a shutdown in the middle of a handler, it does
\* nothing a connection of its own would not do (run_connection).
THEOREM ImplementsConnection == Spec => C!Spec
<1>1. Init => C!Init
  BY DEF Init
<1> QED
  BY <1>1, ConnectionStep, PTL DEF Spec, C!Spec

-----------------------------------------------------------------------------
(***************************************************************************)
(* The inductive invariant.  It says what the start-up has established     *)
(* when the first peer connects, that nothing is sent to a peer that has   *)
(* not connected, that a task past `run` has an outcome, and where the     *)
(* loop is while it has a connection in its hands.                         *)
(***************************************************************************)
Finished == {"released", "joinable", "reaped"}

LeftBehind == {"inHand", "running", "released", "joinable", "aborted", "forgotten"}

IndInv ==
    /\ conn \in [Conns -> S!Fate]
    /\ phase \in {"bind", "serving"} \/ conn[Tracked] # "unmade" => check_bind_safety(args)
    /\ remote /\ conn[Tracked] # "unmade" => args.bind = "public"
    /\ conn[Tracked] = "unmade" => sent = <<>>
    /\ conn[Tracked] \in Finished => outcome # "running"
    /\ \A c \in Conns : conn[c] = "inHand" => pc \in {"reap", "admit"}
    /\ \A c, d \in Conns : conn[c] = "inHand" /\ conn[d] = "inHand" => c = d
    /\ conn[Tracked] \in {"aborted", "forgotten"} => pc = "returned"
    /\ pc = "returned" => \A c \in Conns : conn[c] \notin {"running", "released", "joinable"}
    /\ drained => pc = "returned" /\ conn[Tracked] \notin LeftBehind

\* The process has connected to nobody when it starts.
LEMMA IndInit == Init => IndInv
  BY CommandLinesAssumption DEF Init, S!Init, C!Init, IndInv, S!Fate, Finished

\* Steps of main: the interlock is passed on the way to the listener.
LEMMA IndMain == IndInv /\ Main => IndInv'
<1> SUFFICES ASSUME IndInv, Main PROVE IndInv'
  OBVIOUS
<1>1. UNCHANGED <<args, remote, pc, conn, drained, sent, outcome>>
  BY DEF Main, Parse, CheckBind, Bind, Exit, MainGoes, serveVars, connectionVars
<1>2. phase' \in {"bind", "serving"} => check_bind_safety(args)
  BY DEF Main, Parse, CheckBind, Bind, Exit, MainGoes, IndInv
<1> QED
  BY <1>1, <1>2 DEF IndInv, check_bind_safety

\* Steps that move one connection on.
LEMMA IndMoves ==
    ASSUME IndInv, NEW c \in Conns, phase = "serving", UNCHANGED <<phase, args, remote, drained>>,
           UNCHANGED <<sent, outcome>>,
           NEW from \in S!Fate, NEW to \in S!Fate, S!Becomes(c, from, to),
           pc # "returned", pc' # "returned",
           from # "unmade", to \notin {"unmade", "aborted", "forgotten"},
           to \in Finished => from \in Finished \/ (c = Tracked => outcome # "running"),
           IF to = "inHand" THEN pc = "select" /\ pc' = "reap"
           ELSE \/ pc' = pc
                \/ pc = "select"
                \/ from = "inHand" /\ pc = "admit"
    PROVE  IndInv'
<1>1. conn' = [conn EXCEPT ![c] = to] /\ conn[c] = from /\ conn \in [Conns -> S!Fate]
  BY DEF S!Becomes, IndInv
<1>2. conn' \in [Conns -> S!Fate] /\ Tracked \in Conns
  BY <1>1, CommandLinesAssumption
<1>3. \A d \in Conns : conn'[d] = IF d = c THEN to ELSE conn[d]
  BY <1>1
<1>4. ~drained
  BY DEF IndInv
<1>5. /\ \A d \in Conns : conn'[d] = "inHand" => pc' \in {"reap", "admit"}
      /\ \A d, e \in Conns : conn'[d] = "inHand" /\ conn'[e] = "inHand" => d = e
  BY <1>1, <1>3 DEF IndInv
<1>6. conn'[Tracked] \in Finished => outcome' # "running"
  BY <1>1, <1>2, <1>3 DEF IndInv
<1>7. conn'[Tracked] # "unmade" <=> conn[Tracked] # "unmade"
  BY <1>1, <1>2, <1>3
<1>8. conn'[Tracked] \in {"aborted", "forgotten"} => pc' = "returned"
  BY <1>1, <1>2, <1>3 DEF IndInv
<1> QED
  BY <1>2, <1>4, <1>5, <1>6, <1>7, <1>8 DEF IndInv, check_bind_safety

\* The steps of the accept loop, its tasks and the drain.
ServeActs ==
    \/ RequestShutdown \/ Accepting \/ Handling \/ Break \/ Draining
    \/ \E c \in Conns : Connect(c) \/ DropPermit(c) \/ Complete(c)

\* They preserve the invariant.
LEMMA IndServe == IndInv /\ ServeActs => IndInv'
<1> SUFFICES ASSUME IndInv, ServeActs PROVE IndInv'
  OBVIOUS
<1>0. Serving /\ UNCHANGED connectionVars
  BY DEF ServeActs, RequestShutdown, Accepting, Handling, Break, Draining, Connect, DropPermit, Complete
<1>1. /\ UNCHANGED <<sent, outcome>> /\ Tracked \in Conns
      /\ phase = "serving" /\ UNCHANGED <<phase, args, remote>>
  BY <1>0, CommandLinesAssumption DEF connectionVars, Serving
<1> USE DEF S!Fate, Finished
<1>2. ASSUME NEW c \in Conns, c = Tracked /\ remote => args.bind = "public", S!Connect(c)
      PROVE  IndInv'
  <2>1. /\ conn' = [conn EXCEPT ![c] = "queued"] /\ conn[c] = "unmade"
        /\ pc # "returned" /\ pc' = pc /\ drained' = drained
    BY <1>2 DEF S!Connect, S!Becomes, S!counters
  <2>2. conn' \in [Conns -> S!Fate] /\ \A d \in Conns : conn'[d] = IF d = c THEN "queued" ELSE conn[d]
    BY <2>1 DEF IndInv
  <2>3. check_bind_safety(args)
    BY <1>1 DEF IndInv
  <2>4. remote /\ conn'[Tracked] # "unmade" => args.bind = "public"
    BY <1>1, <1>2, <2>2 DEF IndInv
  <2>5. ~drained
    BY <2>1 DEF IndInv
  <2> QED
    BY <1>1, <2>1, <2>2, <2>3, <2>4, <2>5 DEF IndInv, check_bind_safety
<1>3. CASE S!RequestShutdown
  BY <1>1, <1>3 DEF S!RequestShutdown, S!counters, IndInv, check_bind_safety
<1>4. ASSUME NEW c \in Conns, S!AcceptOk(c) \/ S!AcceptErr(c) \/ S!Reap(c) \/ S!JoinNext(c)
      PROVE  IndInv'
  BY <1>1, <1>4, IndMoves
  DEF S!AcceptOk, S!AcceptErr, S!Reap, S!JoinNext, S!Goto, S!Becomes, S!counters
<1>5. ASSUME NEW c \in Conns, S!Refuse(c) \/ S!Admit(c) PROVE IndInv'
  BY <1>1, <1>5, IndMoves DEF S!Refuse, S!Admit, S!Goto, S!Becomes
<1>6. ASSUME NEW c \in Conns,
             S!Complete(c) \/ (S!DropPermit(c) /\ (c = Tracked => outcome # "running"))
      PROVE  IndInv'
  <2>1. conn[c] \in {"running", "released"} /\ pc' = pc
    BY <1>6 DEF S!DropPermit, S!Complete, S!Becomes
  <2>2. pc # "returned"
    BY <2>1 DEF IndInv
  <2> QED
    BY <1>1, <1>6, <2>2, IndMoves DEF S!DropPermit, S!Complete, S!Becomes, S!counters
<1>7. CASE \/ S!ReapDone \/ S!Break \/ S!DrainCheck \/ S!GraceExpires \/ S!AcceptFails
           \/ S!ErrorLogged \/ S!CountRemaining
  BY <1>1, <1>7
  DEF S!ReapDone, S!Break, S!DrainCheck, S!GraceExpires, S!AcceptFails, S!ErrorLogged,
      S!CountRemaining, S!Goto, S!counters, IndInv, check_bind_safety
<1>8. CASE S!AllFinished
  <2>1. \A c \in Conns : conn[c] \notin {"running", "released", "joinable"}
    BY <1>1, <1>8 DEF S!AllFinished, S!JoinSet, S!In
  <2>2. pc' = "returned" /\ pc \in {"drainCheck", "join"} /\ conn' = conn
    BY <1>8 DEF S!AllFinished, S!Goto
  <2> QED
    BY <1>1, <2>1, <2>2 DEF IndInv, LeftBehind, check_bind_safety
<1>9. CASE S!DropJoinSet
  <2>1. /\ pc = "drop" /\ pc' = "returned" /\ drained' = FALSE
        /\ conn' = [c \in Conns |-> IF conn[c] = "running" THEN "aborted"
                                    ELSE IF c \in S!JoinSet THEN "forgotten" ELSE conn[c]]
    BY <1>9 DEF S!DropJoinSet, S!Goto, S!counters, IndInv
  <2>2. /\ conn' \in [Conns -> S!Fate]
        /\ \A c \in Conns : conn'[c] \notin {"inHand", "running", "released", "joinable"}
    BY <2>1 DEF IndInv, S!JoinSet, S!In
  <2>3. /\ conn'[Tracked] # "unmade" <=> conn[Tracked] # "unmade"
        /\ conn'[Tracked] \in Finished => conn[Tracked] \in Finished
    BY <1>1, <2>1 DEF S!JoinSet, S!In
  <2> QED
    BY <1>1, <2>1, <2>2, <2>3 DEF IndInv, check_bind_safety
<1> QED
  BY <1>2, <1>3, <1>4, <1>5, <1>6, <1>7, <1>8, <1>9
  DEF ServeActs, RequestShutdown, Accepting, Handling, Break, Draining, Connect, DropPermit, Complete,
      S!Accepting, S!Handling, S!Draining

\* The tracked task and its peer: packets are sent only while the task runs, and
\* its outcome is not touched afterwards.
LEMMA IndRun == IndInv /\ (Run \/ Peer \/ PeerRead) => IndInv'
<1> SUFFICES ASSUME IndInv, Run \/ Peer \/ PeerRead PROVE IndInv'
  OBVIOUS
<1>1. UNCHANGED <<phase, args, remote, pc, conn, drained>>
  BY DEF Run, Peer, PeerRead, Serving, serveVars
<1>2. conn[Tracked] = "running" \/ UNCHANGED <<sent, outcome>>
  BY DEF Run, Peer, PeerRead, C!PeerSend, C!PeerSendPart, C!PeerStops, C!PeerRead, C!serverVars
<1> QED
  BY <1>1, <1>2 DEF IndInv, check_bind_safety, Finished

\* Every step preserves the invariant.
LEMMA IndNext == IndInv /\ [Next]_vars => IndInv'
<1> SUFFICES ASSUME IndInv, [Next]_vars PROVE IndInv'
  OBVIOUS
<1>1. CASE Main
  BY <1>1, IndMain
<1>2. CASE ServeActs
  BY <1>2, IndServe
<1>3. CASE Run \/ Peer \/ PeerRead
  BY <1>3, IndRun
<1>4. CASE UNCHANGED vars
  BY <1>4 DEF vars, serveVars, connectionVars, IndInv, check_bind_safety
<1> QED
  BY <1>1, <1>2, <1>3, <1>4 DEF Next, ServeActs

\* The invariant holds throughout.
THEOREM Inductive == Spec => []IndInv
  BY IndInit, IndNext, PTL DEF Spec

\* No peer on another host is ever sent a LoginSuccess unless the process was
\* started with --insecure-offline-mode, whatever the options and the peers
\* (check_bind_safety before TcpListener::bind).
THEOREM OfflineLoginsAreDeliberate == Spec => []OfflineLoginsDeliberate
<1>1. IndInv => OfflineLoginsDeliberate
  BY DEF IndInv, OfflineLoginsDeliberate, check_bind_safety
<1> QED
  BY <1>1, Inductive, PTL

\* A process that exits with `drained` has let the tracked connection, which
\* stands for any, finish (drain).
THEOREM DrainedIsFinished == Spec => []DrainedMeansFinished
<1>1. IndInv => DrainedMeansFinished
  BY CommandLinesAssumption DEF IndInv, DrainedMeansFinished, LeftBehind, Finished, S!Fate
<1> QED
  BY <1>1, Inductive, PTL
=============================================================================
