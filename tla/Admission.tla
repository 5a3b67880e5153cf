----------------------------- MODULE Admission -----------------------------
(***************************************************************************)
(* What the accept loop of crates/net/src/server.rs promises, with no      *)
(* permits, tasks or handles: while it is open it admits a connection only *)
(* if fewer than max_connections are being serviced, and once closed it    *)
(* admits none.                                                            *)
(***************************************************************************)
EXTENDS Naturals, FiniteSets

CONSTANTS Conns, MaxConnections

VARIABLES open, active

vars == <<open, active>>

Init == open = TRUE /\ active = {}

Admit(c) == /\ open
            /\ c \notin active
            /\ Cardinality(active) < MaxConnections
            /\ active' = active \cup {c}
            /\ UNCHANGED open

\* A connection ends, or those left are abandoned together.
Leave(cs) == /\ cs \subseteq active /\ cs # {}
             /\ Cardinality(cs) = 1 \/ ~open
             /\ active' = active \ cs
             /\ UNCHANGED open

Close == open /\ open' = FALSE /\ UNCHANGED active

Next == \/ \E c \in Conns : Admit(c)
        \/ \E cs \in SUBSET Conns : Leave(cs)
        \/ Close

Spec == Init /\ [][Next]_vars
=============================================================================
