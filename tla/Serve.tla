------------------------------- MODULE Serve -------------------------------
(***************************************************************************)
(* The accept loop of crates/net/src/server.rs: admission by semaphore     *)
(* permit, one task per connection in a JoinSet, and the drain that        *)
(* follows the shutdown signal.                                            *)
(*                                                                         *)
(* The loop runs on one thread and the tasks on others, so a task may end  *)
(* between any two steps of the loop: between the reaping of finished      *)
(* tasks and the attempt to take a permit, or between the poll that finds  *)
(* the grace period over and the count of what is left.  A task first      *)
(* drops its permit and then, without suspending, completes and becomes    *)
(* joinable; at most Workers tasks are between the two.                    *)
(***************************************************************************)
EXTENDS Naturals, FiniteSets

CONSTANTS
    Conns,            \* the connection attempts the peers may make
    MaxConnections,   \* ServeOptions::max_connections
    Workers           \* worker threads of the runtime

ASSUME ConnsAssumption == IsFiniteSet(Conns)
ASSUME MaxAssumption == MaxConnections \in Nat \ {0}
ASSUME WorkersAssumption == Workers \in Nat \ {0}

VARIABLES
    pc,         \* where `serve` and `drain` are
    conn,       \* what has become of each connection
    permits,    \* permits left in the semaphore
    accepted,   \* counters of ServeOutcome
    refused,
    drained,
    abandoned,
    shutdown    \* the injected shutdown future is ready

counters == <<accepted, refused, drained, abandoned>>
vars == <<pc, conn, permits, counters, shutdown>>

\* A connection is unmade, waits in the listener's backlog, is lost to an
\* accept error or is in the loop's hands; it is refused, or its task runs,
\* has released its permit, is joinable, and is reaped.  If `serve` returns
\* before that, a running task is aborted and a joinable one only forgotten.
Fate == {"unmade", "queued", "lost", "inHand", "refused", "running",
         "released", "joinable", "reaped", "aborted", "forgotten"}

In(fates) == {c \in Conns : conn[c] \in fates}

\* The tasks the JoinSet holds.
JoinSet == In({"running", "released", "joinable"})

Becomes(c, from, to) ==
    /\ conn[c] = from
    /\ conn' = [conn EXCEPT ![c] = to]

-----------------------------------------------------------------------------
(***************************************************************************)
(* The environment: peers connect, and the shutdown future completes.      *)
(***************************************************************************)
Connect(c) ==
    /\ pc # "returned"
    /\ Becomes(c, "unmade", "queued")
    /\ UNCHANGED <<pc, permits, counters, shutdown>>

RequestShutdown ==
    /\ ~shutdown
    /\ shutdown' = TRUE
    /\ UNCHANGED <<pc, conn, permits, counters>>

-----------------------------------------------------------------------------
(***************************************************************************)
(* run_connection: Connection::run returns, the permit is dropped, and the *)
(* task completes.                                                         *)
(***************************************************************************)
\* Fault: the permit is forgotten instead of dropped.
DropPermit_Leaks(c) ==
    /\ Cardinality(In({"released"})) < Workers
    /\ Becomes(c, "running", "released")
    /\ UNCHANGED <<pc, permits, counters, shutdown>>

DropPermit(c) ==
    /\ Cardinality(In({"released"})) < Workers
    /\ Becomes(c, "running", "released")
    /\ permits' = permits + 1
    /\ UNCHANGED <<pc, counters, shutdown>>

Complete(c) ==
    /\ Becomes(c, "released", "joinable")
    /\ UNCHANGED <<pc, permits, counters, shutdown>>

-----------------------------------------------------------------------------
(***************************************************************************)
(* serve.                                                                  *)
(***************************************************************************)
Goto(from, to) == pc = from /\ pc' = to

AcceptOk(c) ==
    /\ Goto("select", "reap")
    /\ Becomes(c, "queued", "inHand")
    /\ UNCHANGED <<permits, counters, shutdown>>

\* A failed accept loses the connection (aborted by its peer, say) ...
AcceptErr(c) ==
    /\ Goto("select", "error")
    /\ Becomes(c, "queued", "lost")
    /\ UNCHANGED <<permits, counters, shutdown>>

\* ... or leaves it in the backlog (a descriptor limit): the listener stays
\* ready, and the same error may come again and again.
AcceptFails ==
    /\ In({"queued"}) # {}
    /\ Goto("select", "error")
    /\ UNCHANGED <<conn, permits, counters, shutdown>>

\* Fault: the loop is left on an error.
ErrorLogged_Stops == FALSE /\ Goto("error", "select")

\* Logged, and the loop goes on.
ErrorLogged ==
    /\ Goto("error", "select")
    /\ UNCHANGED <<conn, permits, counters, shutdown>>

\* while connections.try_join_next().is_some() {}, in `serve` and in `drain`.
Reap(c) ==
    /\ pc \in {"reap", "drainReap"}
    /\ Becomes(c, "joinable", "reaped")
    /\ UNCHANGED <<pc, permits, counters, shutdown>>

\* Fault: finished tasks are not reaped.
ReapDone_Early ==
    /\ Goto("reap", "admit") \/ Goto("drainReap", "drainCheck")
    /\ UNCHANGED <<conn, permits, counters, shutdown>>

ReapDone ==
    /\ In({"joinable"}) = {}
    /\ Goto("reap", "admit") \/ Goto("drainReap", "drainCheck")
    /\ UNCHANGED <<conn, permits, counters, shutdown>>

\* Fault: a permit is used up by a refusal.
Refuse_TakesPermit(c) ==
    /\ Goto("admit", "select")
    /\ permits = 0
    /\ Becomes(c, "inHand", "refused")
    /\ refused' = refused + 1
    /\ permits' = permits - 1
    /\ UNCHANGED <<accepted, drained, abandoned, shutdown>>

\* Fault: the last permit is never given out.
Refuse_KeepsOne(c) ==
    /\ Goto("admit", "select")
    /\ permits <= 1
    /\ Becomes(c, "inHand", "refused")
    /\ refused' = refused + 1
    /\ UNCHANGED <<permits, accepted, drained, abandoned, shutdown>>

Refuse(c) ==
    /\ Goto("admit", "select")
    /\ permits = 0
    /\ Becomes(c, "inHand", "refused")
    /\ refused' = refused + 1
    /\ UNCHANGED <<permits, accepted, drained, abandoned, shutdown>>

\* Fault: the permit is not moved into the task.
Admit_KeepsNoPermit(c) ==
    /\ Goto("admit", "select")
    /\ permits > 0
    /\ Becomes(c, "inHand", "running")
    /\ accepted' = accepted + 1
    /\ UNCHANGED <<permits, refused, drained, abandoned, shutdown>>

Admit(c) ==
    /\ Goto("admit", "select")
    /\ permits > 0
    /\ permits' = permits - 1
    /\ Becomes(c, "inHand", "running")
    /\ accepted' = accepted + 1
    /\ UNCHANGED <<refused, drained, abandoned, shutdown>>

\* select! polls its branches in random order.
Break ==
    /\ shutdown
    /\ Goto("select", "drainReap")
    /\ UNCHANGED <<conn, permits, counters, shutdown>>

-----------------------------------------------------------------------------
(***************************************************************************)
(* drain.  The grace timer is polled only after join_next found no         *)
(* joinable task.                                                          *)
(***************************************************************************)
DrainCheck ==
    /\ JoinSet # {}
    /\ Goto("drainCheck", "join")
    /\ UNCHANGED <<conn, permits, counters, shutdown>>

JoinNext(c) ==
    /\ pc = "join"
    /\ Becomes(c, "joinable", "reaped")
    /\ UNCHANGED <<pc, permits, counters, shutdown>>

\* Nothing was outstanding, or everything has been joined.
AllFinished ==
    /\ JoinSet = {}
    /\ Goto("drainCheck", "returned") \/ Goto("join", "returned")
    /\ drained' = TRUE
    /\ abandoned' = 0
    /\ UNCHANGED <<conn, permits, accepted, refused, shutdown>>

\* Fault: no timeout around the joining loop.
GraceExpires_Never == FALSE /\ Goto("join", "count")

GraceExpires ==
    /\ JoinSet # {} /\ In({"joinable"}) = {}
    /\ Goto("join", "count")
    /\ UNCHANGED <<conn, permits, counters, shutdown>>

\* Fault: what is left is not reported.
CountRemaining_Drained ==
    /\ Goto("count", "drop")
    /\ drained' = TRUE
    /\ abandoned' = 0
    /\ UNCHANGED <<conn, permits, accepted, refused, shutdown>>

\* connections.len().
CountRemaining ==
    /\ Goto("count", "drop")
    /\ drained' = FALSE
    /\ abandoned' = Cardinality(JoinSet)
    /\ UNCHANGED <<conn, permits, accepted, refused, shutdown>>

\* `serve` returns and drops the JoinSet, which aborts the tasks in it; a poll
\* that is under way then counts as one that came before.
DropJoinSet ==
    /\ Goto("drop", "returned")
    /\ conn' = [c \in Conns |-> IF conn[c] = "running" THEN "aborted"
                                ELSE IF c \in JoinSet THEN "forgotten" ELSE conn[c]]
    /\ permits' = permits + Cardinality(In({"running"}))
    /\ UNCHANGED <<counters, shutdown>>

-----------------------------------------------------------------------------
Init ==
    /\ pc = "select"
    /\ conn = [c \in Conns |-> "unmade"]
    /\ permits = MaxConnections
    /\ accepted = 0 /\ refused = 0
    /\ drained = FALSE /\ abandoned = 0
    /\ shutdown = FALSE

Accepting == (\E c \in Conns : AcceptOk(c) \/ AcceptErr(c)) \/ AcceptFails

Handling == \/ \E c \in Conns : Reap(c) \/ Refuse(c) \/ Admit(c) \/ JoinNext(c)
            \/ ReapDone \/ ErrorLogged

Draining == DrainCheck \/ AllFinished \/ GraceExpires \/ CountRemaining \/ DropJoinSet

Tasks == \E c \in Conns : DropPermit(c) \/ Complete(c)

Next == \/ \E c \in Conns : Connect(c)
        \/ RequestShutdown
        \/ Accepting \/ Handling \/ Break \/ Draining \/ Tasks

Spec == Init /\ [][Next]_vars

\* The loop's thread runs and the grace timer fires; select!'s random order
\* does not pass over a ready shutdown for ever.  No task has to end, and no
\* accept has to succeed.
LoopSpec == /\ Spec
            /\ WF_vars(Accepting) /\ WF_vars(Handling) /\ WF_vars(Draining)
            /\ SF_vars(Break)

-----------------------------------------------------------------------------
(***************************************************************************)
(* Properties.                                                             *)
(***************************************************************************)

\* Type invariant.
TypeOK ==
    /\ pc \in {"select", "error", "reap", "admit", "drainReap", "drainCheck", "join",
               "count", "drop", "returned"}
    /\ conn \in [Conns -> Fate]
    /\ permits \in Nat
    /\ accepted \in Nat /\ refused \in Nat /\ abandoned \in Nat
    /\ drained \in BOOLEAN /\ shutdown \in BOOLEAN

\* No permit is leaked or returned twice, on any path a task or the loop can
\* take: those left and those running tasks hold always make up
\* max_connections.  So at most max_connections are serviced at once.
PermitsConserved == permits + Cardinality(In({"running"})) = MaxConnections

\* The JoinSet does not grow with the number of connections served, though
\* handles are reaped only when the next connection arrives and a task frees
\* its permit before its handle is joinable (serve, server.rs:92).
JoinSetBounded == Cardinality(JoinSet) <= MaxConnections + Workers + 1

\* A connection is refused only while max_connections are being serviced.
RefusedOnlyAtCapacity ==
    [][refused' # refused => Cardinality(In({"running"})) = MaxConnections]_vars

\* The ServeOutcome accounts for every connection exactly once: each accepted
\* one was joined or is counted as abandoned, `drained` is reported exactly
\* when none is, and no accepted connection is still being serviced.
OutcomeAccounts ==
    pc = "returned" =>
        /\ accepted = Cardinality(In({"reaped", "aborted", "forgotten"}))
        /\ abandoned = Cardinality(In({"aborted", "forgotten"}))
        /\ drained <=> In({"aborted", "forgotten"}) = {}
        /\ refused = Cardinality(In({"refused"}))
        /\ JoinSet = {}

\* The loop implements counting admission.
A == INSTANCE Admission WITH
        open <- pc \in {"select", "error", "reap", "admit"}, active <- In({"running"})

AdmissionSpec == A!Spec

\* The shutdown signal is never missed, whatever arrives at the listener and
\* though every accept may fail, and the grace period bounds the drain even if
\* no connection ends.
ShutdownReturns == shutdown ~> pc = "returned"

\* The loop never gets stuck on a connection or on an error: if accept succeeds
\* again and again as long as it is retried, each connection in the backlog is
\* taken unless the server shuts down.
BacklogTaken ==
    SF_vars(\E c \in Conns : AcceptOk(c)) =>
        \A c \in Conns : conn[c] = "queued" ~> conn[c] # "queued" \/ shutdown

\* A full server does not stay full: if connections end (PermitReturns of
\* Server says when they do), permits come back, though nothing reaps their
\* tasks until the next peer connects.
CapacityRecovers == WF_vars(Tasks) => (permits = 0 ~> permits > 0)
=============================================================================
