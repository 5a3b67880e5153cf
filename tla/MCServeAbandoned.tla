-------------------------- MODULE MCServeAbandoned --------------------------
(***************************************************************************)
(* The accept loop with a history variable: the connections that were      *)
(* still being serviced when the grace period expired.                     *)
(***************************************************************************)
EXTENDS Serve

VARIABLE late

HistoryInit == Init /\ late = {}

HistoryNext ==
    /\ Next
    /\ late' = IF pc = "join" /\ pc' = "count" THEN In({"running"}) ELSE late

HistorySpec == HistoryInit /\ [][HistoryNext]_<<vars, late>>

\* server.rs: `abandoned` is "Connections still running when the grace period
\* expired."; tests/serve.rs: it "must reflect what was actually still running".
AbandonedWereRunning == pc = "returned" => abandoned = Cardinality(late)
=============================================================================
