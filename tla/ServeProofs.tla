---------------------------- MODULE ServeProofs ----------------------------
(***************************************************************************)
(* Proofs about the accept loop, for any finite set of connections, any    *)
(* positive max_connections and any number of worker threads.              *)
(***************************************************************************)
EXTENDS Serve, FiniteSetTheorems, TLAPS

\* How many connections have one of the given fates.
Count(f, fates) == Cardinality({c \in Conns : f[c] \in fates})

Held == {"running", "released", "joinable"}
LeftOver == {"aborted", "forgotten"}
Taken == {"running", "released", "joinable", "reaped", "aborted", "forgotten"}

(***************************************************************************)
(* The inductive invariant.  The bound on the JoinSet needs to know what   *)
(* it can hold when the loop has just reaped (pc = "admit"), and that few  *)
(* tasks are between dropping their permit and completing; the counters    *)
(* are tied to the fates of the connections in every state, not only when  *)
(* `serve` has returned.                                                   *)
(***************************************************************************)
IndInv ==
    /\ TypeOK
    /\ permits + Count(conn, {"running"}) = MaxConnections
    /\ Count(conn, {"released"}) <= Workers
    /\ Count(conn, Held) <= MaxConnections + Workers + 1
    /\ pc = "admit" => Count(conn, Held) <= MaxConnections + Workers
    /\ pc \in {"count", "drop"} => Count(conn, Held) # 0
    /\ pc = "drop" => abandoned = Count(conn, Held) /\ drained = FALSE
    /\ accepted = Count(conn, Taken)
    /\ refused = Count(conn, {"refused"})
    /\ IF pc = "returned"
       THEN /\ Count(conn, Held) = 0
            /\ abandoned = Count(conn, LeftOver)
            /\ drained <=> Count(conn, LeftOver) = 0
       ELSE Count(conn, LeftOver) = 0

-----------------------------------------------------------------------------
(***************************************************************************)
(* Counting.                                                               *)
(***************************************************************************)

\* Counts are natural numbers, since the connections are finitely many.
LEMMA CountType ==
    ASSUME NEW f, NEW fates
    PROVE  /\ IsFiniteSet({c \in Conns : f[c] \in fates})
           /\ Count(f, fates) \in Nat
<1>1. {c \in Conns : f[c] \in fates} \in SUBSET Conns
  OBVIOUS
<1>2. IsFiniteSet({c \in Conns : f[c] \in fates})
  BY <1>1, ConnsAssumption, FS_Subset
<1> QED
  BY <1>2, FS_CardinalityType DEF Count

\* A count is zero exactly when no connection has one of the fates.
LEMMA CountZero ==
    ASSUME NEW f, NEW fates
    PROVE  Count(f, fates) = 0 <=> \A c \in Conns : f[c] \notin fates
<1>1. Count(f, fates) = 0 <=> {c \in Conns : f[c] \in fates} = {}
  BY CountType, FS_EmptySet DEF Count
<1> QED
  BY <1>1

\* One connection changes its fate.
LEMMA CountUpdate ==
    ASSUME NEW f \in [Conns -> Fate], NEW c \in Conns, NEW to, NEW fates
    PROVE  Count([f EXCEPT ![c] = to], fates) =
               Count(f, fates) + (IF to \in fates THEN 1 ELSE 0)
                               - (IF f[c] \in fates THEN 1 ELSE 0)
<1> DEFINE g == [f EXCEPT ![c] = to]
           old == {d \in Conns : f[d] \in fates}
           new == {d \in Conns : g[d] \in fates}
<1>1. IsFiniteSet(old) /\ Cardinality(old) \in Nat
  BY CountType DEF Count
<1>2. CASE to \in fates
  <2>1. new = old \cup {c}
    BY <1>2
  <2>2. Cardinality(new) = IF c \in old THEN Cardinality(old) ELSE Cardinality(old) + 1
    BY <1>1, <2>1, FS_AddElement
  <2> QED
    BY <1>1, <1>2, <2>2 DEF Count
<1>3. CASE to \notin fates
  <2>1. new = old \ {c}
    BY <1>3
  <2>2. Cardinality(new) = IF c \in old THEN Cardinality(old) - 1 ELSE Cardinality(old)
    BY <1>1, <2>1, FS_RemoveElement
  <2> QED
    BY <1>1, <1>3, <2>2 DEF Count
<1> QED
  BY <1>2, <1>3

\* Disjoint sets of fates are counted separately.
LEMMA CountUnion ==
    ASSUME NEW f, NEW F, NEW G, F \cap G = {}
    PROVE  Count(f, F \cup G) = Count(f, F) + Count(f, G)
<1> DEFINE inF == {c \in Conns : f[c] \in F}
           inG == {c \in Conns : f[c] \in G}
<1>1. IsFiniteSet(inF) /\ IsFiniteSet(inG) /\ Cardinality(inF) \in Nat /\ Cardinality(inG) \in Nat
  BY CountType DEF Count
<1>2. inF \cap inG = {} /\ {c \in Conns : f[c] \in F \cup G} = inF \cup inG
  OBVIOUS
<1>3. Cardinality(inF \cup inG) = Cardinality(inF) + Cardinality(inG) - Cardinality(inF \cap inG)
  BY <1>1, FS_Union
<1>4. Cardinality(inF \cap inG) = 0
  BY <1>2, FS_EmptySet
<1>5. Count(f, F) = Cardinality(inF) /\ Count(f, G) = Cardinality(inG)
  BY DEF Count
<1>6. Count(f, F \cup G) = Cardinality(inF \cup inG)
  BY <1>2 DEF Count
<1> HIDE DEF inF, inG
<1> QED
  BY <1>1, <1>3, <1>4, <1>5, <1>6

\* What a step that moves one connection does to the counts.
LEMMA Moves ==
    ASSUME TypeOK, NEW c \in Conns, NEW from \in Fate, NEW to \in Fate, Becomes(c, from, to)
    PROVE  /\ conn' \in [Conns -> Fate]
           /\ \A fates : Count(conn', fates) =
                  Count(conn, fates) + (IF to \in fates THEN 1 ELSE 0)
                                     - (IF from \in fates THEN 1 ELSE 0)
<1>1. conn \in [Conns -> Fate] /\ conn[c] = from /\ conn' = [conn EXCEPT ![c] = to]
  BY DEF TypeOK, Becomes
<1> QED
  BY <1>1, CountUpdate

-----------------------------------------------------------------------------
(***************************************************************************)
(* The invariant is inductive.                                             *)
(***************************************************************************)

\* `serve` begins with no connection and all permits.
LEMMA InitInd == Init => IndInv
<1> SUFFICES ASSUME Init PROVE IndInv
  OBVIOUS
<1>1. TypeOK
  BY MaxAssumption DEF Init, TypeOK, Fate
<1>2. /\ Count(conn, {"running"}) = 0 /\ Count(conn, {"released"}) = 0 /\ Count(conn, Held) = 0
      /\ Count(conn, Taken) = 0 /\ Count(conn, {"refused"}) = 0 /\ Count(conn, LeftOver) = 0
  BY CountZero DEF Init, Held, Taken, LeftOver
<1> QED
  BY <1>1, <1>2, MaxAssumption, WorkersAssumption DEF Init, IndInv

\* Every step of the loop, of a task or of the environment preserves it.
LEMMA NextInd == IndInv /\ [Next]_vars => IndInv'
<1> SUFFICES ASSUME IndInv, [Next]_vars PROVE IndInv'
  OBVIOUS
<1> DEFINE Counts(f) ==
       /\ Count(f, {"running"}) \in Nat /\ Count(f, {"released"}) \in Nat
       /\ Count(f, {"joinable"}) \in Nat /\ Count(f, Held) \in Nat
       /\ Count(f, Taken) \in Nat /\ Count(f, {"refused"}) \in Nat
       /\ Count(f, LeftOver) \in Nat
<1>1. Counts(conn) /\ Counts(conn')
  BY CountType
<1>2. TypeOK
  BY DEF IndInv
<1>3. MaxConnections \in Nat /\ Workers \in Nat
  BY MaxAssumption, WorkersAssumption
<1> USE DEF Fate
<1>4. ASSUME NEW c \in Conns, Connect(c) PROVE IndInv'
  <2>1. Becomes(c, "unmade", "queued")
    BY <1>4 DEF Connect
  <2>2. /\ conn' \in [Conns -> Fate]
        /\ Count(conn', {"running"}) = Count(conn, {"running"})
        /\ Count(conn', {"released"}) = Count(conn, {"released"})
        /\ Count(conn', Held) = Count(conn, Held)
        /\ Count(conn', Taken) = Count(conn, Taken)
        /\ Count(conn', {"refused"}) = Count(conn, {"refused"})
        /\ Count(conn', LeftOver) = Count(conn, LeftOver)
    BY <1>1, <1>2, <2>1, Moves DEF Held, Taken, LeftOver
  <2> QED
    BY <1>1, <1>2, <1>3, <1>4, <2>1, <2>2
    DEF Connect, counters, IndInv, TypeOK
<1>5. CASE RequestShutdown
  BY <1>5 DEF RequestShutdown, counters, IndInv, TypeOK
<1>6. ASSUME NEW c \in Conns, AcceptOk(c) PROVE IndInv'
  <2>1. Becomes(c, "queued", "inHand")
    BY <1>6 DEF AcceptOk
  <2>2. /\ conn' \in [Conns -> Fate]
        /\ Count(conn', {"running"}) = Count(conn, {"running"})
        /\ Count(conn', {"released"}) = Count(conn, {"released"})
        /\ Count(conn', Held) = Count(conn, Held)
        /\ Count(conn', Taken) = Count(conn, Taken)
        /\ Count(conn', {"refused"}) = Count(conn, {"refused"})
        /\ Count(conn', LeftOver) = Count(conn, LeftOver)
    BY <1>1, <1>2, <2>1, Moves DEF Held, Taken, LeftOver
  <2> QED
    BY <1>1, <1>2, <1>3, <1>6, <2>1, <2>2
    DEF AcceptOk, Goto, counters, IndInv, TypeOK
<1>7. ASSUME NEW c \in Conns, AcceptErr(c) PROVE IndInv'
  <2>1. Becomes(c, "queued", "lost")
    BY <1>7 DEF AcceptErr
  <2>2. /\ conn' \in [Conns -> Fate]
        /\ Count(conn', {"running"}) = Count(conn, {"running"})
        /\ Count(conn', {"released"}) = Count(conn, {"released"})
        /\ Count(conn', Held) = Count(conn, Held)
        /\ Count(conn', Taken) = Count(conn, Taken)
        /\ Count(conn', {"refused"}) = Count(conn, {"refused"})
        /\ Count(conn', LeftOver) = Count(conn, LeftOver)
    BY <1>1, <1>2, <2>1, Moves DEF Held, Taken, LeftOver
  <2> QED
    BY <1>1, <1>2, <1>3, <1>7, <2>1, <2>2
    DEF AcceptErr, Goto, counters, IndInv, TypeOK
<1>8. ASSUME NEW c \in Conns, Reap(c) \/ JoinNext(c) PROVE IndInv'
  <2>1. Becomes(c, "joinable", "reaped") /\ pc \in {"reap", "drainReap", "join"}
    BY <1>8 DEF Reap, JoinNext
  <2>2. /\ conn' \in [Conns -> Fate]
        /\ Count(conn', {"running"}) = Count(conn, {"running"})
        /\ Count(conn', {"released"}) = Count(conn, {"released"})
        /\ Count(conn', Taken) = Count(conn, Taken)
        /\ Count(conn', {"refused"}) = Count(conn, {"refused"})
        /\ Count(conn', LeftOver) = Count(conn, LeftOver)
        /\ Count(conn', Held) = Count(conn, Held) - 1
    BY <1>1, <1>2, <2>1, Moves DEF Held, Taken, LeftOver
  <2> QED
    BY <1>1, <1>2, <1>3, <1>8, <2>1, <2>2
    DEF Reap, JoinNext, counters, IndInv, TypeOK
<1>9. CASE ReapDone
  <2>1. Count(conn, {"joinable"}) = 0
    BY <1>9, CountZero DEF ReapDone, In
  <2>2. Count(conn, {"running", "released"}) = Count(conn, {"running"}) + Count(conn, {"released"})
    <3>1. {"running", "released"} = {"running"} \cup {"released"}
      OBVIOUS
    <3> QED
      BY <3>1, CountUnion
  <2>3. Count(conn, Held) = Count(conn, {"running", "released"}) + Count(conn, {"joinable"})
    <3>1. Held = {"running", "released"} \cup {"joinable"}
      BY DEF Held
    <3> QED
      BY <3>1, CountUnion
  <2>4. Count(conn, Held) <= MaxConnections + Workers
    BY <1>1, <1>2, <1>3, <2>1, <2>2, <2>3 DEF IndInv, TypeOK
  <2> QED
    BY <1>9, <2>4 DEF ReapDone, Goto, counters, IndInv, TypeOK
<1>10. ASSUME NEW c \in Conns, Refuse(c) PROVE IndInv'
  <2>1. Becomes(c, "inHand", "refused")
    BY <1>10 DEF Refuse
  <2>2. /\ conn' \in [Conns -> Fate]
        /\ Count(conn', {"running"}) = Count(conn, {"running"})
        /\ Count(conn', {"released"}) = Count(conn, {"released"})
        /\ Count(conn', Held) = Count(conn, Held)
        /\ Count(conn', Taken) = Count(conn, Taken)
        /\ Count(conn', LeftOver) = Count(conn, LeftOver)
        /\ Count(conn', {"refused"}) = Count(conn, {"refused"}) + 1
    BY <1>1, <1>2, <2>1, Moves DEF Held, Taken, LeftOver
  <2> QED
    BY <1>1, <1>2, <1>3, <1>10, <2>1, <2>2
    DEF Refuse, Goto, counters, IndInv, TypeOK
<1>11. ASSUME NEW c \in Conns, Admit(c) PROVE IndInv'
  <2>1. Becomes(c, "inHand", "running")
    BY <1>11 DEF Admit
  <2>2. /\ conn' \in [Conns -> Fate]
        /\ Count(conn', {"released"}) = Count(conn, {"released"})
        /\ Count(conn', {"refused"}) = Count(conn, {"refused"})
        /\ Count(conn', LeftOver) = Count(conn, LeftOver)
        /\ Count(conn', {"running"}) = Count(conn, {"running"}) + 1
        /\ Count(conn', Held) = Count(conn, Held) + 1
        /\ Count(conn', Taken) = Count(conn, Taken) + 1
    BY <1>1, <1>2, <2>1, Moves DEF Held, Taken, LeftOver
  <2> QED
    BY <1>1, <1>2, <1>3, <1>11, <2>1, <2>2
    DEF Admit, Goto, counters, IndInv, TypeOK
<1>12. CASE Break \/ DrainCheck \/ GraceExpires \/ AcceptFails \/ ErrorLogged
  <2>1. GraceExpires => Count(conn, Held) # 0
    BY CountZero DEF GraceExpires, JoinSet, In, Held
  <2> QED
    BY <1>12, <2>1
    DEF Break, DrainCheck, GraceExpires, AcceptFails, ErrorLogged, Goto, counters, IndInv, TypeOK
<1>13. CASE AllFinished
  <2>1. Count(conn, Held) = 0
    BY <1>13, CountZero DEF AllFinished, JoinSet, In, Held
  <2> QED
    BY <1>13, <2>1 DEF AllFinished, Goto, counters, IndInv, TypeOK
<1>14. CASE CountRemaining
  <2>1. Cardinality(JoinSet) = Count(conn, Held)
    BY DEF Count, JoinSet, In, Held
  <2> QED
    BY <1>1, <1>14, <2>1 DEF CountRemaining, Goto, counters, IndInv, TypeOK
<1>15. ASSUME NEW c \in Conns, DropPermit(c) PROVE IndInv'
  <2>1. Becomes(c, "running", "released")
    BY <1>15 DEF DropPermit
  <2>2. Count(conn, {"released"}) < Workers
    BY <1>15 DEF DropPermit, In, Count
  <2>3. pc # "returned"
    BY <2>1, CountZero DEF IndInv, Becomes, Held
  <2>4. /\ conn' \in [Conns -> Fate]
        /\ Count(conn', Held) = Count(conn, Held)
        /\ Count(conn', Taken) = Count(conn, Taken)
        /\ Count(conn', {"refused"}) = Count(conn, {"refused"})
        /\ Count(conn', LeftOver) = Count(conn, LeftOver)
        /\ Count(conn', {"released"}) = Count(conn, {"released"}) + 1
        /\ Count(conn', {"running"}) = Count(conn, {"running"}) - 1
    BY <1>1, <1>2, <2>1, Moves DEF Held, Taken, LeftOver
  <2> QED
    BY <1>1, <1>2, <1>3, <1>15, <2>1, <2>2, <2>3, <2>4
    DEF DropPermit, counters, IndInv, TypeOK
<1>16. ASSUME NEW c \in Conns, Complete(c) PROVE IndInv'
  <2>1. Becomes(c, "released", "joinable")
    BY <1>16 DEF Complete
  <2>2. pc # "returned"
    BY <2>1, CountZero DEF IndInv, Becomes, Held
  <2>3. /\ conn' \in [Conns -> Fate]
        /\ Count(conn', {"running"}) = Count(conn, {"running"})
        /\ Count(conn', Held) = Count(conn, Held)
        /\ Count(conn', Taken) = Count(conn, Taken)
        /\ Count(conn', {"refused"}) = Count(conn, {"refused"})
        /\ Count(conn', LeftOver) = Count(conn, LeftOver)
        /\ Count(conn', {"released"}) = Count(conn, {"released"}) - 1
    <3>1. /\ conn' \in [Conns -> Fate]
          /\ \A fates : Count(conn', fates) = Count(conn, fates)
                                + (IF "joinable" \in fates THEN 1 ELSE 0)
                                - (IF "released" \in fates THEN 1 ELSE 0)
      BY <1>2, <2>1, Moves
    <3> QED
      BY <1>1, <3>1 DEF Held, Taken, LeftOver
  <2>4. UNCHANGED <<pc, permits, counters, shutdown>>
    BY <1>16 DEF Complete
  <2>5. TypeOK'
    BY <1>2, <2>3, <2>4 DEF counters, TypeOK
  <2>6. Count(conn', {"released"}) <= Workers
    BY <1>1, <1>3, <2>3 DEF IndInv
  <2> QED
    BY <2>2, <2>3, <2>4, <2>5, <2>6 DEF counters, IndInv
<1>17. CASE DropJoinSet
  <2>1. conn \in [Conns -> Fate] /\ conn' \in [Conns -> Fate]
    BY <1>2, <1>17 DEF DropJoinSet, TypeOK
  <2>2. \A c \in Conns : conn[c] \notin LeftOver
    BY <1>17, CountZero DEF DropJoinSet, Goto, IndInv
  <2>3. \A c \in Conns : conn'[c] = IF conn[c] = "running" THEN "aborted"
                                    ELSE IF conn[c] \in Held THEN "forgotten" ELSE conn[c]
    BY <1>17 DEF DropJoinSet, JoinSet, In, Held
  <2>4. /\ \A c \in Conns : conn'[c] \notin Held
        /\ Count(conn', {"running"}) = 0 /\ Count(conn', {"released"}) = 0
        /\ Count(conn', Held) = 0
    BY <2>1, <2>3, CountZero DEF Held
  <2>5. Count(conn', Taken) = Count(conn, Taken)
    <3>1. \A c \in Conns : conn'[c] \in Taken <=> conn[c] \in Taken
      BY <2>3 DEF Held, Taken
    <3>2. {c \in Conns : conn'[c] \in Taken} = {c \in Conns : conn[c] \in Taken}
      BY <3>1
    <3> QED
      BY <3>2 DEF Count
  <2>6. Count(conn', {"refused"}) = Count(conn, {"refused"})
    <3>1. \A c \in Conns : conn'[c] \in {"refused"} <=> conn[c] \in {"refused"}
      BY <2>3 DEF Held
    <3>2. {c \in Conns : conn'[c] \in {"refused"}} = {c \in Conns : conn[c] \in {"refused"}}
      BY <3>1
    <3> QED
      BY <3>2 DEF Count
  <2>7. Count(conn', LeftOver) = Count(conn, Held) /\ Cardinality(JoinSet) = Count(conn, Held)
    <3>1. \A c \in Conns : conn'[c] \in LeftOver <=> conn[c] \in Held
      BY <2>2, <2>3 DEF Held, LeftOver
    <3>2. {c \in Conns : conn'[c] \in LeftOver} = {c \in Conns : conn[c] \in Held}
      BY <3>1
    <3> QED
      BY <3>2 DEF Count, JoinSet, In, Held
  <2>8. Cardinality(In({"running"})) = Count(conn, {"running"})
    BY DEF In, Count
  <2>9. /\ pc = "drop" /\ pc' = "returned" /\ drained' = FALSE
        /\ abandoned' = Count(conn, Held) /\ permits' = permits + Count(conn, {"running"})
        /\ UNCHANGED <<accepted, refused, shutdown>>
    BY <1>17, <2>8 DEF DropJoinSet, Goto, counters, IndInv
  <2>10. TypeOK'
    <3>1. permits' \in Nat /\ abandoned' \in Nat
      BY <1>1, <1>2, <2>9 DEF TypeOK
    <3>2. drained' \in BOOLEAN /\ shutdown' \in BOOLEAN
      BY <1>2, <2>9 DEF TypeOK
    <3> QED
      BY <1>2, <2>1, <2>9, <3>1, <3>2 DEF TypeOK
  <2> QED
    BY <1>1, <1>2, <1>3, <2>4, <2>5, <2>6, <2>7, <2>9, <2>10 DEF IndInv, TypeOK
<1>18. CASE UNCHANGED vars
  BY <1>18 DEF vars, counters, IndInv, TypeOK
<1> QED
  BY <1>4, <1>5, <1>6, <1>7, <1>8, <1>9, <1>10, <1>11, <1>12, <1>13, <1>14, <1>15, <1>16, <1>17,
     <1>18
  DEF Next, Accepting, Handling, Draining, Tasks

-----------------------------------------------------------------------------
(***************************************************************************)
(* The theorems.                                                           *)
(***************************************************************************)

\* The invariant holds in every reachable state.
THEOREM Inductive == Spec => []IndInv
<1> QED
  BY InitInd, NextInd, PTL DEF Spec

\* Every state of the accept loop is well typed.
THEOREM TypeCorrect == Spec => []TypeOK
<1>1. IndInv => TypeOK
  BY DEF IndInv
<1> QED
  BY <1>1, Inductive, PTL

\* No path through admission, completion, refusal or drain leaks a permit or
\* returns one twice.
THEOREM PermitsAreConserved == Spec => []PermitsConserved
<1>1. IndInv => PermitsConserved
  BY DEF IndInv, PermitsConserved, In, Count
<1> QED
  BY <1>1, Inductive, PTL

\* However many connections come and go, the JoinSet holds at most
\* max_connections tasks, those of the worker threads that are between the two
\* ends of a task, and the one just spawned.
THEOREM JoinSetIsBounded == Spec => []JoinSetBounded
<1>1. IndInv => JoinSetBounded
  BY DEF IndInv, JoinSetBounded, JoinSet, In, Count, Held
<1> QED
  BY <1>1, Inductive, PTL

\* The outcome `serve` returns accounts for every connection it took.
THEOREM OutcomeIsAccurate == Spec => []OutcomeAccounts
<1>1. ASSUME IndInv, pc = "returned" PROVE OutcomeAccounts
  <2>1. /\ Count(conn, Held) = 0 /\ abandoned = Count(conn, LeftOver)
        /\ drained <=> Count(conn, LeftOver) = 0
        /\ accepted = Count(conn, Taken) /\ refused = Count(conn, {"refused"})
    BY <1>1 DEF IndInv
  <2>2. JoinSet = {}
    BY <2>1, CountZero DEF JoinSet, In, Held
  <2>3. Count(conn, LeftOver) = 0 <=> In({"aborted", "forgotten"}) = {}
    BY CountZero DEF In, LeftOver
  <2>4. In(Taken) = In({"reaped", "aborted", "forgotten"})
    BY <2>1, CountZero DEF In, Taken, Held
  <2>5. accepted = Cardinality(In({"reaped", "aborted", "forgotten"}))
    BY <2>1, <2>4 DEF In, Count
  <2>6. abandoned = Cardinality(In({"aborted", "forgotten"}))
    BY <2>1 DEF In, Count, LeftOver
  <2>7. refused = Cardinality(In({"refused"}))
    BY <2>1 DEF In, Count
  <2> QED
    BY <2>1, <2>2, <2>3, <2>5, <2>6, <2>7 DEF OutcomeAccounts
<1>2. IndInv => OutcomeAccounts
  BY <1>1 DEF OutcomeAccounts
<1> QED
  BY <1>2, Inductive, PTL

\* A connection is turned away only while max_connections are serviced.
THEOREM RefusalsAreJustified == Spec => RefusedOnlyAtCapacity
<1> DEFINE Justified == refused' # refused => Cardinality(In({"running"})) = MaxConnections
<1>1. ASSUME IndInv, [Next]_vars PROVE [Justified]_vars
  <2>1. CASE \E c \in Conns : Refuse(c)
    <3>1. permits = 0 /\ permits + Count(conn, {"running"}) = MaxConnections
      BY <1>1, <2>1 DEF Refuse, IndInv
    <3>2. Count(conn, {"running"}) = MaxConnections
      <4>1. Count(conn, {"running"}) \in Nat
        BY CountType
      <4> QED
        BY <3>1, <4>1
    <3>3. Cardinality(In({"running"})) = Count(conn, {"running"})
      BY DEF In, Count
    <3> QED
      BY <3>2, <3>3
  <2>2. CASE UNCHANGED refused
    BY <2>2
  <2> QED
    BY <1>1, <2>1, <2>2
    DEF Next, Accepting, Handling, Draining, Tasks, vars, counters, Connect, RequestShutdown,
        AcceptOk, AcceptErr, Reap, ReapDone, Admit, JoinNext, Break, DrainCheck, AllFinished,
        GraceExpires, CountRemaining, DropJoinSet, DropPermit, Complete, AcceptFails, ErrorLogged
<1> QED
  BY <1>1, Inductive, PTL DEF Spec, RefusedOnlyAtCapacity

-----------------------------------------------------------------------------
(***************************************************************************)
(* Refinement: the accept loop implements Admission.                       *)
(***************************************************************************)

\* Only admission, the end of a task, the drop of the JoinSet and the shutdown change
\* what Admission sees; each is a step of its own there, or none.
THEOREM ImplementsAdmission == Spec => AdmissionSpec
<1> DEFINE loop == {"select", "error", "reap", "admit"}
           active == In({"running"})
<1>0. \A S : A!Cardinality(S) = Cardinality(S)
  BY DEF Cardinality, A!Cardinality
<1>1. Init => A!Init
  BY DEF Init, A!Init, In
<1>2. ASSUME IndInv, [Next]_vars PROVE [A!Next]_(A!vars)
  <2>1. conn \in [Conns -> Fate] /\ Cardinality(active) = Count(conn, {"running"})
    BY <1>2 DEF IndInv, TypeOK, In, Count
  <2>2. ASSUME NEW c \in Conns, Admit(c) PROVE A!Next
    <3>1. c \notin active /\ active' = active \cup {c}
      BY <2>1, <2>2 DEF Admit, Becomes, In
    <3>2. Cardinality(active) < MaxConnections
      <4>1. permits \in Nat /\ permits > 0 /\ permits + Count(conn, {"running"}) = MaxConnections
        BY <1>2, <2>2 DEF IndInv, TypeOK, Admit
      <4>2. Count(conn, {"running"}) \in Nat
        BY CountType
      <4> QED
        BY <2>1, <4>1, <4>2
    <3>3. pc \in loop /\ ((pc' \in loop) = (pc \in loop))
      BY <2>2 DEF Admit, Goto
    <3>4. A!Admit(c)
      BY <1>0, <3>1, <3>2, <3>3 DEF A!Admit
    <3> QED
      BY <3>4 DEF A!Next
  <2>3. ASSUME NEW c \in Conns, DropPermit(c) PROVE A!Next
    <3>1. c \in active /\ active' = active \ {c}
      BY <2>1, <2>3 DEF DropPermit, Becomes, In
    <3>2. A!Leave({c})
      <4>1. {c} \subseteq active /\ {c} # {} /\ Cardinality({c}) = 1
        BY <3>1, FS_Singleton
      <4>2. pc' = pc
        BY <2>3 DEF DropPermit
      <4> QED
        BY <1>0, <3>1, <4>1, <4>2 DEF A!Leave
    <3>3. {c} \in SUBSET Conns
      OBVIOUS
    <3> QED
      BY <3>2, <3>3 DEF A!Next
  <2>4. CASE DropJoinSet
    <3>1. active' = {} /\ pc \notin loop /\ pc' \notin loop
      BY <2>1, <2>4 DEF DropJoinSet, Goto, In
    <3>2. CASE active = {}
      BY <3>1, <3>2 DEF A!vars
    <3>3. CASE active # {}
      <4>1. A!Leave(active)
        BY <3>1, <3>3 DEF A!Leave
      <4>2. active \in SUBSET Conns
        BY DEF In
      <4> QED
        BY <4>1, <4>2 DEF A!Next
    <3> QED
      BY <3>2, <3>3
  <2>5. CASE Break
    BY <2>5 DEF Break, Goto, A!Next, A!Close, In
  <2>6. ASSUME NEW c \in Conns, NEW from \in Fate \ {"running"}, NEW to \in Fate \ {"running"},
               Becomes(c, from, to)
        PROVE  active' = active
    BY <2>1, <2>6 DEF Becomes, In
  <2>7. ASSUME NEW c \in Conns,
               \/ Connect(c) \/ AcceptOk(c) \/ AcceptErr(c) \/ Reap(c)
               \/ Refuse(c) \/ JoinNext(c) \/ Complete(c)
        PROVE  UNCHANGED A!vars
    <3>1. (pc' \in loop) = (pc \in loop)
      BY <2>7 DEF Connect, AcceptOk, AcceptErr, Reap, Refuse, JoinNext, Complete, Goto
    <3>2. active' = active
      BY <2>6, <2>7
      DEF Connect, AcceptOk, AcceptErr, Reap, Refuse, JoinNext, Complete, Fate
    <3> QED
      BY <3>1, <3>2 DEF A!vars
  <2>8. CASE \/ RequestShutdown \/ ReapDone \/ DrainCheck \/ AllFinished \/ GraceExpires
             \/ AcceptFails \/ ErrorLogged \/ CountRemaining \/ UNCHANGED vars
    <3>1. (pc' \in loop) = (pc \in loop) /\ conn' = conn
      BY <2>8
      DEF RequestShutdown, ReapDone, DrainCheck, AllFinished, GraceExpires, AcceptFails, ErrorLogged,
          CountRemaining, Goto, vars
    <3> QED
      BY <3>1 DEF A!vars, In
  <2> QED
    BY <1>2, <2>2, <2>3, <2>4, <2>5, <2>7, <2>8
    DEF Next, Accepting, Handling, Draining, Tasks
<1> QED
  BY <1>1, <1>2, Inductive, PTL DEF Spec, AdmissionSpec, A!Spec
=============================================================================
