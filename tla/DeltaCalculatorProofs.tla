----------------------- MODULE DeltaCalculatorProofs -----------------------
(***************************************************************************)
(* Theorems about DeltaCalculator for any customers, segments, processes   *)
(* and concurrent calls.  Types and the advisory lock hold whatever the    *)
(* clocks say; what the snapshots mean needs ClocksAgree.                  *)
(***************************************************************************)
EXTENDS DeltaCalculator, FiniteSetTheorems, TLAPS

-----------------------------------------------------------------------------
(* The lock *)

\* A running call has a segment, and from the moment the lock statement returns
\* until the transaction ends it holds that segment's lock.
CallsHoldTheirLocks ==
    \A e \in Evaluators :
        /\ pc[e] # "idle" => target[e] \in Segments
        /\ pc[e] \in {"locked", "computed"} => lock[target[e]] = e

LockInv == TypeOK /\ CallsHoldTheirLocks

\* Before the first call no lock is held and no call runs.
LEMMA LockInit == Init => LockInv
  BY DEF Init, LockInv, TypeOK, CallsHoldTheirLocks, NoResult, Result, SnapshotRow, Stages

\* Rolling back the calls in es, with their locks, disturbs no other call.
LEMMA RollbackKeepsLocks ==
    ASSUME LockInv, NEW es \in SUBSET Evaluators,
           lock' = LocksWithout(es), Return(es),
           used' \in [evaluations : Nat, drifts : Nat, failures : Nat, crashes : Nat],
           UNCHANGED <<matching, snapshots, audited, published, clock>>
    PROVE  LockInv'
<1> USE NoneAssumption DEF LockInv, TypeOK, CallsHoldTheirLocks, Stages, Return
<1>1. /\ lock' \in [Segments -> Evaluators \union {None}]
      /\ pc' \in [Evaluators -> Stages]
      /\ target' \in [Evaluators -> Segments \union {None}]
      /\ result' \in [Evaluators -> Result]
  BY DEF LocksWithout, NoResult, Result
<1>2. ASSUME NEW f \in Evaluators PROVE pc'[f] # "idle" => target'[f] \in Segments
  OBVIOUS
<1>3. ASSUME NEW f \in Evaluators, pc'[f] \in {"locked", "computed"}
      PROVE  lock'[target'[f]] = f
  <2>1. f \notin es /\ pc[f] \in {"locked", "computed"} /\ target'[f] = target[f]
    BY <1>3
  <2>2. lock[target[f]] = f /\ target[f] \in Segments
    BY <2>1
  <2> QED
    BY <2>1, <2>2 DEF LocksWithout
<1> QED
  BY <1>1, <1>2, <1>3

\* Whatever a call does, calls that hold a lock keep it until their transaction
\* ends, and nobody takes it from them.
LEMMA LockStep == LockInv /\ [Next]_vars => LockInv'
<1> SUFFICES ASSUME LockInv, [Next]_vars PROVE LockInv'
  OBVIOUS
<1> USE HostAssumption, SkewAssumption, NoneAssumption
    DEF LockInv, TypeOK, CallsHoldTheirLocks, Stages
<1>1. ASSUME NEW s \in Segments, NEW m \in SUBSET Customers, Drift(s, m)
      PROVE  LockInv'
  <2>1. matching' \in [Segments -> SUBSET Customers]
    <3>1. matching' = [matching EXCEPT ![s] = m]
      BY <1>1 DEF Drift
    <3> QED
      BY <3>1
  <2>2. used' \in [evaluations : Nat, drifts : Nat, failures : Nat, crashes : Nat]
    <3>1. used' = [used EXCEPT !.drifts = used.drifts + 1]
      BY <1>1 DEF Drift
    <3> QED
      BY <3>1
  <2>3. UNCHANGED <<snapshots, audited, published, lock, pc, target, result, clock>>
    BY <1>1 DEF Drift
  <2> QED
    BY <2>1, <2>2, <2>3
<1>2. ASSUME NEW e \in Evaluators, NEW s \in Segments, Start(e, s) PROVE LockInv'
  BY <1>2 DEF Start
<1>3. ASSUME NEW e \in Evaluators, AcquireLock(e) PROVE LockInv'
  BY <1>3 DEF AcquireLock, MayLock
<1>4. ASSUME NEW e \in Evaluators, NoOp(e) PROVE LockInv'
  BY <1>4 DEF NoOp, LocksWithout, Return, NoResult, Result
<1>5. ASSUME NEW e \in Evaluators, ComputeDelta(e) PROVE LockInv'
  <2>1. target[e] \in Segments
    BY <1>5 DEF ComputeDelta
  <2>2. PICK prev \in PreviousIds(target[e]) :
          result' = [result EXCEPT ![e] =
            [members |-> matching[target[e]],
             added   |-> Joined(matching[target[e]], prev),
             removed |-> Left(matching[target[e]], prev),
             at      |-> WallClock(e)]]
    BY <1>5 DEF ComputeDelta
  <2>3. prev \in SUBSET Customers
    BY <2>1, <2>2 DEF PreviousIds, LatestRows, SnapshotRow
  <2>4. WallClock(e) \in Int
    BY DEF WallClock
  <2>5. result' \in [Evaluators -> Result]
    BY <2>1, <2>2, <2>3, <2>4 DEF Joined, Left, Result
  <2> QED
    BY <1>5, <2>5 DEF ComputeDelta
<1>6. ASSUME NEW e \in Evaluators, Commit(e) PROVE LockInv'
  <2>1. target[e] \in Segments /\ result[e] \in Result
    BY <1>6 DEF Commit
  <2>2. /\ snapshots' \in [Segments -> SUBSET SnapshotRow]
        /\ audited' \in [Segments -> SUBSET Customers]
    BY <1>6, <2>1 DEF Commit, Result, SnapshotRow
  <2>3. TypeOK'
    BY <1>6, <2>1, <2>2 DEF Commit, LocksWithout
  <2>4. ASSUME NEW f \in Evaluators, pc'[f] \in {"locked", "computed"}
        PROVE  lock'[target'[f]] = f
    <3>1. f # e /\ pc[f] \in {"locked", "computed"} /\ target'[f] = target[f]
      BY <1>6, <2>4 DEF Commit
    <3>2. lock[target[f]] = f /\ target[f] \in Segments
      BY <3>1
    <3> QED
      BY <1>6, <3>1, <3>2 DEF Commit, LocksWithout
  <2> QED
    BY <1>6, <2>1, <2>3, <2>4 DEF Commit
<1>7. ASSUME NEW e \in Evaluators, Broadcast(e) PROVE LockInv'
  <2>1. /\ published' \in [Segments -> [Customers -> Int]]
        /\ target[e] \in Segments
    BY <1>7 DEF Broadcast, Counted
  <2> QED
    BY <1>7, <2>1 DEF Broadcast, Return, NoResult, Result
<1>8. ASSUME NEW e \in Evaluators, Fail(e) PROVE LockInv'
  <2>1. used' \in [evaluations : Nat, drifts : Nat, failures : Nat, crashes : Nat]
    BY <1>8 DEF Fail
  <2> QED
    BY <1>8, <2>1, RollbackKeepsLocks DEF Fail
<1>9. ASSUME NEW e \in Evaluators, LoseAcknowledgement(e) PROVE LockInv'
  BY <1>9 DEF LoseAcknowledgement, Return, NoResult, Result
<1>10. ASSUME NEW p \in Processes, Crash(p) PROVE LockInv'
  <2>1. used' \in [evaluations : Nat, drifts : Nat, failures : Nat, crashes : Nat]
    BY <1>10 DEF Crash
  <2>2. {e \in Evaluators : Host[e] = p} \in SUBSET Evaluators
    OBVIOUS
  <2> QED
    BY <1>10, <2>1, <2>2, RollbackKeepsLocks DEF Crash
<1>11. CASE UNCHANGED vars
  BY <1>11 DEF vars
<1> QED
  BY <1>1, <1>2, <1>3, <1>4, <1>5, <1>6, <1>7, <1>8, <1>9, <1>10, <1>11 DEF Next, Step

\* Every variable keeps its type, whatever the clocks of the processes say.
THEOREM TypeCorrect == Spec => []TypeOK
<1>1. LockInv => TypeOK
  BY DEF LockInv
<1> QED
  BY LockInit, LockStep, <1>1, PTL DEF Spec

\* Two transactions are never between the lock statement and their end for the
\* same segment: what one of them read as the previous snapshot is still the
\* previous snapshot when it inserts the next.
THEOREM LockExcludes ==
    Spec => [](\A e, f \in Evaluators :
        /\ pc[e] \in {"locked", "computed"}
        /\ pc[f] \in {"locked", "computed"}
        /\ target[e] = target[f]
        => e = f)
<1>1. LockInv => \A e, f \in Evaluators :
        /\ pc[e] \in {"locked", "computed"}
        /\ pc[f] \in {"locked", "computed"}
        /\ target[e] = target[f]
        => e = f
  BY DEF LockInv, CallsHoldTheirLocks
<1> QED
  BY LockInit, LockStep, <1>1, PTL DEF Spec

-----------------------------------------------------------------------------
(* What the snapshots mean when the clocks agree *)

\* No snapshot is stamped later than any process's clock shows.
StampsArePast ==
    \A s \in Segments, p \in Processes : \A row \in snapshots[s] : row.at <= clock + Skew[p]

\* A delta about to be inserted is the exact difference to the segment's current
\* membership, and its stamp is past and later than every snapshot of the segment.
PendingDeltasAreExact ==
    \A e \in Evaluators : pc[e] = "computed" =>
        /\ \A p \in Processes : result[e].at <= clock + Skew[p]
        /\ \A row \in snapshots[target[e]] : row.at < result[e].at
        /\ result[e].added = result[e].members \ audited[target[e]]
        /\ result[e].removed = audited[target[e]] \ result[e].members
        /\ result[e].members # audited[target[e]]

AuditInv ==
    /\ LockInv
    /\ AuditTrailMatchesMembership
    /\ StampsArePast
    /\ PendingDeltasAreExact

\* With the tables empty, the replay of no delta records is the empty membership.
LEMMA AuditInit == Init => AuditInv
<1>1. Init => AuditTrailMatchesMembership
  BY DEF Init, AuditTrailMatchesMembership, PreviousIds
<1> QED
  BY <1>1, LockInit DEF Init, AuditInv, StampsArePast, PendingDeltasAreExact

\* Inserting a row stamped later than all others makes it the latest row.
LEMMA InsertedRowIsLatest ==
    ASSUME TypeOK, NEW s \in Segments, NEW row \in SnapshotRow,
           snapshots' = [snapshots EXCEPT ![s] = @ \union {row}],
           \A other \in snapshots[s] : other.at < row.at
    PROVE  /\ PreviousIds(s)' = {row.ids}
           /\ \A t \in Segments : t # s => PreviousIds(t)' = PreviousIds(t)
<1> USE DEF TypeOK, SnapshotRow
<1>1. snapshots'[s] = snapshots[s] \union {row}
  OBVIOUS
<1>2. LatestRows(s)' = {row}
  BY <1>1 DEF LatestRows
<1>3. PreviousIds(s)' = {row.ids}
  BY <1>1, <1>2 DEF PreviousIds
<1>4. ASSUME NEW t \in Segments, t # s PROVE PreviousIds(t)' = PreviousIds(t)
  BY <1>4 DEF PreviousIds, LatestRows
<1> QED
  BY <1>3, <1>4

\* With agreeing clocks, a step of any call keeps delta records and snapshots in
\* agreement: only Commit touches them, and its stamp is later than every row.
LEMMA AuditStep ==
    ASSUME ClocksAgree, AuditInv, [Next]_vars
    PROVE  AuditInv'
<1> USE HostAssumption, SkewAssumption, NoneAssumption
<1>0. LockInv' /\ LockInv
  BY LockStep DEF AuditInv
<1>a. ASSUME UNCHANGED <<snapshots, audited, clock>>,
             \A e \in Evaluators : pc'[e] = "computed" =>
                /\ pc[e] = "computed"
                /\ target'[e] = target[e]
                /\ result'[e] = result[e]
      PROVE  AuditInv'
  <2>1. AuditTrailMatchesMembership' /\ StampsArePast'
    BY <1>a DEF AuditInv, AuditTrailMatchesMembership, StampsArePast, PreviousIds, LatestRows
  <2>2. PendingDeltasAreExact'
    BY <1>a DEF AuditInv, PendingDeltasAreExact
  <2> QED
    BY <1>0, <2>1, <2>2 DEF AuditInv
<1>b. ASSUME UNCHANGED <<snapshots, audited>>, clock' = clock + 1
      PROVE  AuditTrailMatchesMembership' /\ StampsArePast'
  <2>1. AuditTrailMatchesMembership'
    BY <1>b DEF AuditInv, AuditTrailMatchesMembership, PreviousIds, LatestRows
  <2>2. StampsArePast'
    BY <1>0, <1>b DEF AuditInv, StampsArePast, LockInv, TypeOK, SnapshotRow
  <2> QED
    BY <2>1, <2>2
<1>1. ASSUME NEW s \in Segments, NEW m \in SUBSET Customers, Drift(s, m) PROVE AuditInv'
  BY <1>a, <1>1 DEF Drift
<1>2. ASSUME NEW e \in Evaluators, NEW s \in Segments, Start(e, s) PROVE AuditInv'
  BY <1>0, <1>a, <1>2 DEF Start, LockInv, TypeOK
<1>3. ASSUME NEW e \in Evaluators, AcquireLock(e) PROVE AuditInv'
  BY <1>0, <1>a, <1>3 DEF AcquireLock, LockInv, TypeOK
<1>4. ASSUME NEW e \in Evaluators, NoOp(e) PROVE AuditInv'
  <2>1. PendingDeltasAreExact'
    <3> SUFFICES ASSUME NEW f \in Evaluators, pc'[f] = "computed"
                 PROVE  /\ \A p \in Processes : result'[f].at <= clock' + Skew[p]
                        /\ \A row \in snapshots'[target'[f]] : row.at < result'[f].at
                        /\ result'[f].added = result'[f].members \ audited'[target'[f]]
                        /\ result'[f].removed = audited'[target'[f]] \ result'[f].members
                        /\ result'[f].members # audited'[target'[f]]
      BY DEF PendingDeltasAreExact
    <3>1. pc[f] = "computed" /\ target'[f] = target[f] /\ result'[f] = result[f]
      BY <1>4 DEF NoOp, Return
    <3>2. \A p \in Processes : result[f].at <= clock + 1 + Skew[p]
      BY <1>0, <3>1 DEF AuditInv, PendingDeltasAreExact, LockInv, TypeOK, Result
    <3> QED
      BY <1>4, <3>1, <3>2 DEF NoOp, AuditInv, PendingDeltasAreExact
  <2> QED
    BY <1>0, <1>b, <1>4, <2>1 DEF NoOp, AuditInv
<1>5. ASSUME NEW e \in Evaluators, ComputeDelta(e) PROVE AuditInv'
  <2>1. target[e] \in Segments /\ PreviousIds(target[e]) = {audited[target[e]]}
    BY <1>0, <1>5 DEF ComputeDelta, LockInv, CallsHoldTheirLocks, AuditInv,
                      AuditTrailMatchesMembership
  <2>2. /\ audited[target[e]] # matching[target[e]]
        /\ result' = [result EXCEPT ![e] =
             [members |-> matching[target[e]],
              added   |-> matching[target[e]] \ audited[target[e]],
              removed |-> audited[target[e]] \ matching[target[e]],
              at      |-> clock + 1 + Skew[Host[e]]]]
    <3>1. PICK prev \in PreviousIds(target[e]) :
            /\ prev # matching[target[e]]
            /\ result' = [result EXCEPT ![e] =
                  [members |-> matching[target[e]],
                   added   |-> Joined(matching[target[e]], prev),
                   removed |-> Left(matching[target[e]], prev),
                   at      |-> WallClock(e)]]
      BY <1>5 DEF ComputeDelta
    <3>2. prev = audited[target[e]]
      BY <2>1
    <3> QED
      BY <3>1, <3>2 DEF Joined, Left, WallClock
  <2>3. ASSUME NEW f \in Evaluators, pc'[f] = "computed"
        PROVE  /\ \A p \in Processes : result'[f].at <= clock' + Skew[p]
               /\ \A row \in snapshots'[target'[f]] : row.at < result'[f].at
               /\ result'[f].added = result'[f].members \ audited'[target'[f]]
               /\ result'[f].removed = audited'[target'[f]] \ result'[f].members
               /\ result'[f].members # audited'[target'[f]]
    <3>0. UNCHANGED <<snapshots, audited, target>> /\ clock' = clock + 1 /\ clock \in Nat
      BY <1>0, <1>5 DEF ComputeDelta, LockInv, TypeOK
    <3>1. CASE f # e
      <4>1. pc[f] = "computed" /\ result'[f] = result[f]
        BY <1>0, <1>5, <2>2, <2>3, <3>1 DEF ComputeDelta, LockInv, TypeOK
      <4>2. \A p \in Processes : result[f].at <= clock + 1 + Skew[p]
        BY <1>0, <4>1 DEF AuditInv, PendingDeltasAreExact, LockInv, TypeOK, Result
      <4> QED
        BY <3>0, <4>1, <4>2 DEF AuditInv, PendingDeltasAreExact
    <3>2. CASE f = e
      <4>1. result'[e] = [members |-> matching[target[e]],
                          added   |-> matching[target[e]] \ audited[target[e]],
                          removed |-> audited[target[e]] \ matching[target[e]],
                          at      |-> clock + 1 + Skew[Host[e]]]
        BY <1>0, <2>2 DEF LockInv, TypeOK
      <4>2. \A p \in Processes : clock + 1 + Skew[Host[e]] <= clock + 1 + Skew[p]
        BY <3>0 DEF ClocksAgree
      <4>3. \A row \in snapshots[target[e]] : row.at < clock + 1 + Skew[Host[e]]
        BY <1>0, <2>1, <3>0 DEF AuditInv, StampsArePast, LockInv, TypeOK, SnapshotRow
      <4> QED
        BY <2>2, <3>0, <3>2, <4>1, <4>2, <4>3
    <3> QED
      BY <3>1, <3>2
  <2>4. PendingDeltasAreExact'
    BY <2>3 DEF PendingDeltasAreExact
  <2> QED
    BY <1>0, <1>b, <1>5, <2>4 DEF ComputeDelta, AuditInv
<1>6. ASSUME NEW e \in Evaluators, Commit(e) PROVE AuditInv'
  <2> DEFINE s == target[e]
             row == [ids |-> result[e].members, at |-> result[e].at]
  <2>1. s \in Segments /\ row \in SnapshotRow /\ result[e] \in Result /\ pc[e] = "computed"
    BY <1>0, <1>6 DEF Commit, LockInv, CallsHoldTheirLocks, TypeOK, Result, SnapshotRow
  <2>2. /\ \A other \in snapshots[s] : other.at < row.at
        /\ \A p \in Processes : row.at <= clock + Skew[p]
        /\ result[e].members = (audited[s] \ result[e].removed) \union result[e].added
    BY <1>0, <2>1 DEF AuditInv, PendingDeltasAreExact, LockInv, TypeOK, Result
  <2>3. /\ PreviousIds(s)' = {row.ids}
        /\ \A t \in Segments : t # s => PreviousIds(t)' = PreviousIds(t)
    BY <1>0, <1>6, <2>1, <2>2, InsertedRowIsLatest DEF Commit, LockInv
  <2>4. AuditTrailMatchesMembership'
    BY <1>0, <1>6, <2>1, <2>2, <2>3
    DEF Commit, AuditInv, AuditTrailMatchesMembership, LockInv, TypeOK
  <2>5. StampsArePast'
    BY <1>0, <1>6, <2>1, <2>2 DEF Commit, AuditInv, StampsArePast, LockInv, TypeOK
  <2>6. ASSUME NEW f \in Evaluators, pc'[f] = "computed"
        PROVE  /\ f # e /\ pc[f] = "computed" /\ target[f] # s
               /\ target'[f] = target[f] /\ result'[f] = result[f]
    BY <1>0, <1>6, <2>1, <2>6 DEF Commit, LockInv, CallsHoldTheirLocks, TypeOK
  <2>7. PendingDeltasAreExact'
    <3> SUFFICES ASSUME NEW f \in Evaluators, pc'[f] = "computed"
                 PROVE  /\ \A p \in Processes : result'[f].at <= clock' + Skew[p]
                        /\ \A r \in snapshots'[target'[f]] : r.at < result'[f].at
                        /\ result'[f].added = result'[f].members \ audited'[target'[f]]
                        /\ result'[f].removed = audited'[target'[f]] \ result'[f].members
                        /\ result'[f].members # audited'[target'[f]]
      BY DEF PendingDeltasAreExact
    <3>1. snapshots'[target[f]] = snapshots[target[f]] /\ audited'[target[f]] = audited[target[f]]
      BY <1>0, <1>6, <2>6 DEF Commit, LockInv, TypeOK
    <3> QED
      BY <1>6, <2>6, <3>1 DEF Commit, AuditInv, PendingDeltasAreExact
  <2> QED
    BY <1>0, <2>4, <2>5, <2>7 DEF AuditInv
<1>7. ASSUME NEW e \in Evaluators, Broadcast(e) PROVE AuditInv'
  BY <1>a, <1>7 DEF Broadcast, Return
<1>8. ASSUME NEW e \in Evaluators, Fail(e) PROVE AuditInv'
  BY <1>a, <1>8 DEF Fail, Return
<1>9. ASSUME NEW e \in Evaluators, LoseAcknowledgement(e) PROVE AuditInv'
  BY <1>a, <1>9 DEF LoseAcknowledgement, Return
<1>10. ASSUME NEW p \in Processes, Crash(p) PROVE AuditInv'
  BY <1>a, <1>10 DEF Crash, Return
<1>11. CASE UNCHANGED vars
  BY <1>a, <1>11 DEF vars
<1> QED
  BY <1>1, <1>2, <1>3, <1>4, <1>5, <1>6, <1>7, <1>8, <1>9, <1>10, <1>11 DEF Next, Step

\* The induction over all behaviours.
LEMMA AuditInvariant == ASSUME ClocksAgree PROVE Spec => []AuditInv
<1>1. AuditInv /\ [Next]_vars => AuditInv'
  BY AuditStep
<1> QED
  BY AuditInit, <1>1, PTL DEF Spec

\* Whatever calls race, the snapshot that the next diff query reads is the
\* replay of the segment's delta records.
THEOREM AuditTrailSound ==
    ASSUME ClocksAgree
    PROVE  Spec => []AuditTrailMatchesMembership
<1>1. AuditInv => AuditTrailMatchesMembership
  BY DEF AuditInv
<1> QED
  BY AuditInvariant, <1>1, PTL

\* No two transactions report the same customer's change, none reports an
\* empty delta.
THEOREM NoChangeReportedTwice ==
    ASSUME ClocksAgree
    PROVE  Spec => ChangesAreReportedOnce
<1> DEFINE Once ==
      \A e \in Evaluators :
        pc[e] = "computed" /\ pc'[e] = "committed" =>
            /\ result[e].added \intersect audited[target[e]] = {}
            /\ result[e].removed \subseteq audited[target[e]]
            /\ audited'[target[e]] # audited[target[e]]
<1>1. AuditInv /\ [Next]_vars => [Once]_vars
  <2> SUFFICES ASSUME AuditInv, Next, NEW e \in Evaluators,
                      pc[e] = "computed", pc'[e] = "committed"
               PROVE  /\ result[e].added \intersect audited[target[e]] = {}
                      /\ result[e].removed \subseteq audited[target[e]]
                      /\ audited'[target[e]] # audited[target[e]]
    OBVIOUS
  <2>1. Commit(e)
    <3> USE DEF AuditInv, LockInv, TypeOK
    <3>1. ASSUME NEW s \in Segments, NEW m \in SUBSET Customers, Drift(s, m) PROVE FALSE
      BY <3>1 DEF Drift
    <3>2. ASSUME NEW f \in Evaluators, NEW s \in Segments, Start(f, s) PROVE FALSE
      BY <3>2 DEF Start
    <3>3. ASSUME NEW f \in Evaluators, Step(f), ~Commit(e) PROVE FALSE
      BY <3>3 DEF Step, AcquireLock, NoOp, ComputeDelta, Commit, Broadcast, Return
    <3>4. ASSUME NEW f \in Evaluators, Fail(f) \/ LoseAcknowledgement(f) PROVE FALSE
      BY <3>4 DEF Fail, LoseAcknowledgement, Return
    <3>5. ASSUME NEW p \in Processes, Crash(p) PROVE FALSE
      <4>1. PICK dead \in SUBSET Evaluators : Return(dead)
        BY <3>5 DEF Crash
      <4> QED
        BY <4>1 DEF Return
    <3> QED
      BY <3>1, <3>2, <3>3, <3>4, <3>5 DEF Next
  <2>2. audited'[target[e]] = result[e].members
    BY <2>1 DEF Commit, AuditInv, PendingDeltasAreExact, LockInv, TypeOK,
                CallsHoldTheirLocks, Result
  <2> QED
    BY <2>2 DEF AuditInv, PendingDeltasAreExact
<1> QED
  BY AuditInvariant, <1>1, PTL DEF Spec, ChangesAreReportedOnce

\* A row stamped later than all others leaves the others with the rows before them.
LEMMA LaterRowIsLast ==
    ASSUME AuditInv, SnapshotsAreChanges, NEW s \in Segments, NEW row \in SnapshotRow,
           snapshots'[s] = snapshots[s] \union {row},
           \A other \in snapshots[s] : other.at < row.at, row.ids # audited[s],
           NEW r \in snapshots'[s]
    PROVE  IsChange(s, r)'
<1>1. \A other \in snapshots[s] : other.at \in Int
  BY DEF AuditInv, LockInv, TypeOK, SnapshotRow
<1>2. row.at \in Int
  BY DEF SnapshotRow
<1>3. CASE r \in snapshots[s]
  <2>1. Earlier(s, r)' = Earlier(s, r)
    BY <1>1, <1>2, <1>3 DEF Earlier
  <2> QED
    BY <1>1, <1>2, <1>3, <2>1 DEF SnapshotsAreChanges, IsChange
<1>4. CASE r = row
  <2>1. Earlier(s, r)' = snapshots[s]
    BY <1>1, <1>2, <1>4 DEF Earlier
  <2>2. PreviousIds(s) = {audited[s]}
    BY DEF AuditInv, AuditTrailMatchesMembership
  <2>3. snapshots[s] = {} => audited[s] = {}
    BY <2>2 DEF PreviousIds
  <2>4. ASSUME NEW q \in snapshots[s], \A o \in snapshots[s] : o.at <= q.at
        PROVE  q.ids = audited[s]
    BY <2>2, <2>4 DEF PreviousIds, LatestRows
  <2> QED
    BY <1>1, <1>2, <1>4, <2>1, <2>3, <2>4 DEF IsChange
<1> QED
  BY <1>3, <1>4

\* A call that finds what its rule matches already recorded, by the call it waited for or
\* any other, records nothing: no two successive snapshots are equal.
THEOREM SnapshotsNeverRepeat ==
    ASSUME ClocksAgree
    PROVE  Spec => []SnapshotsAreChanges
<1>1. Init => SnapshotsAreChanges
  BY DEF Init, SnapshotsAreChanges
<1>2. AuditInv /\ SnapshotsAreChanges /\ [Next]_vars => SnapshotsAreChanges'
  <2> SUFFICES ASSUME AuditInv, SnapshotsAreChanges, [Next]_vars PROVE SnapshotsAreChanges'
    OBVIOUS
  <2>1. CASE snapshots' = snapshots
    BY <2>1 DEF SnapshotsAreChanges, IsChange, Earlier
  <2>2. ASSUME NEW e \in Evaluators, Commit(e) PROVE SnapshotsAreChanges'
    <3>0. target[e] \in Segments /\ pc[e] = "computed"
      BY <2>2 DEF Commit, AuditInv, LockInv, CallsHoldTheirLocks, TypeOK
    <3>1. PICK s \in Segments, row \in SnapshotRow :
            s = target[e] /\ row = [ids |-> result[e].members, at |-> result[e].at]
      BY <3>0 DEF AuditInv, LockInv, TypeOK, Result, SnapshotRow
    <3>2. (\A other \in snapshots[s] : other.at < row.at) /\ row.ids # audited[s]
      BY <3>0, <3>1 DEF AuditInv, PendingDeltasAreExact
    <3>3. /\ snapshots'[s] = snapshots[s] \union {row}
          /\ \A t \in Segments : t # s => snapshots'[t] = snapshots[t]
      BY <2>2, <3>1 DEF Commit, AuditInv, LockInv, TypeOK
    <3>4. ASSUME NEW r \in snapshots'[s] PROVE IsChange(s, r)'
      BY <3>2, <3>3, <3>4, LaterRowIsLast
    <3>5. ASSUME NEW t \in Segments, t # s, NEW r \in snapshots'[t] PROVE IsChange(t, r)'
      BY <3>3, <3>5 DEF SnapshotsAreChanges, IsChange, Earlier
    <3>6. \A t \in Segments : \A r \in snapshots'[t] : IsChange(t, r)'
      BY <3>4, <3>5
    <3> QED
      BY <3>6 DEF SnapshotsAreChanges
  <2>3. (\E e \in Evaluators : Commit(e)) \/ snapshots' = snapshots
    BY DEF Next, Step, Drift, Start, AcquireLock, NoOp, ComputeDelta, Broadcast, Fail,
           LoseAcknowledgement, Crash, vars
  <2> QED
    BY <2>1, <2>2, <2>3
<1> QED
  BY AuditInvariant, <1>1, <1>2, PTL DEF Spec

-----------------------------------------------------------------------------
(* The announcements, until the first crash *)

\* The calls that have recorded, and not yet announced, c as joining or leaving s.
Joining(s, c) ==
    {e \in Evaluators : pc[e] = "committed" /\ target[e] = s /\ c \in result[e].added}

Leaving(s, c) ==
    {e \in Evaluators : pc[e] = "committed" /\ target[e] = s /\ c \in result[e].removed}

\* What is announced and what is about to be add up to the membership, though several
\* calls may have committed deltas of one segment and announce them in any order.
AnnouncementsBalance ==
    \A s \in Segments, c \in Customers :
        published[s][c] + Cardinality(Joining(s, c)) - Cardinality(Leaving(s, c))
            = IF c \in audited[s] THEN 1 ELSE 0

\* One call more or less.
LEMMA CountWith ==
    ASSUME NEW S, IsFiniteSet(S), NEW e, e \notin S
    PROVE  /\ Cardinality(S) \in Nat
           /\ Cardinality(S \union {e}) = Cardinality(S) + 1
BY FS_CardinalityType, FS_AddElement

\* A set without one element has one element less, if it had it.
LEMMA CountWithout ==
    ASSUME NEW S, IsFiniteSet(S), NEW e
    PROVE  Cardinality(S \ {e}) = Cardinality(S) - (IF e \in S THEN 1 ELSE 0)
<1>1. Cardinality(S) \in Nat
  BY FS_CardinalityType
<1>2. CASE e \in S
  <2>1. Cardinality(S \ {e}) = Cardinality(S) - 1
    BY <1>2, FS_RemoveElement
  <2> QED
    BY <1>2, <2>1
<1>3. CASE e \notin S
  <2>1. S \ {e} = S
    BY <1>3
  <2> QED
    BY <1>1, <1>3, <2>1
<1> QED
  BY <1>2, <1>3

\* Nothing is announced and nobody is a member.
LEMMA BalanceInit == Init => AnnouncementsBalance
<1> SUFFICES ASSUME Init, NEW s \in Segments, NEW c \in Customers
             PROVE  published[s][c] + Cardinality(Joining(s, c)) - Cardinality(Leaving(s, c))
                      = IF c \in audited[s] THEN 1 ELSE 0
  BY DEF AnnouncementsBalance
<1>1. Joining(s, c) = {} /\ Leaving(s, c) = {}
  BY DEF Init, Joining, Leaving
<1>2. published[s][c] = 0 /\ c \notin audited[s]
  BY DEF Init
<1> QED
  BY <1>1, <1>2, FS_EmptySet

\* Only Commit and Broadcast move a call in or out of these sets, and each of them
\* moves the membership or the count of announcements along.
LEMMA BalanceStep ==
    ASSUME IsFiniteSet(Evaluators), used'.crashes = 0, AuditInv, AnnouncementsBalance, [Next]_vars
    PROVE  AnnouncementsBalance'
<1> SUFFICES ASSUME NEW s \in Segments, NEW c \in Customers
             PROVE  published'[s][c] + Cardinality(Joining(s, c)') - Cardinality(Leaving(s, c)')
                      = IF c \in audited'[s] THEN 1 ELSE 0
  BY DEF AnnouncementsBalance
<1>0. published[s][c] + Cardinality(Joining(s, c)) - Cardinality(Leaving(s, c))
        = IF c \in audited[s] THEN 1 ELSE 0
  BY DEF AnnouncementsBalance
<1>t. LockInv /\ TypeOK
  BY DEF AuditInv, LockInv
<1>f. /\ IsFiniteSet(Joining(s, c)) /\ IsFiniteSet(Leaving(s, c))
      /\ Cardinality(Joining(s, c)) \in Nat /\ Cardinality(Leaving(s, c)) \in Nat
      /\ published[s][c] \in Int
  <2>1. Joining(s, c) \in SUBSET Evaluators /\ Leaving(s, c) \in SUBSET Evaluators
    BY DEF Joining, Leaving
  <2> QED
    BY <2>1, <1>t, FS_Subset, FS_CardinalityType DEF TypeOK
<1>a. ASSUME UNCHANGED <<published, audited>>,
             \A e \in Evaluators :
                \/ pc'[e] # "committed" /\ pc[e] # "committed"
                \/ /\ pc'[e] = "committed" /\ pc[e] = "committed"
                   /\ target'[e] = target[e] /\ result'[e] = result[e]
      PROVE  published'[s][c] + Cardinality(Joining(s, c)') - Cardinality(Leaving(s, c)')
               = IF c \in audited'[s] THEN 1 ELSE 0
  <2>1. Joining(s, c)' = Joining(s, c) /\ Leaving(s, c)' = Leaving(s, c)
    BY <1>a DEF Joining, Leaving
  <2> QED
    BY <1>0, <1>a, <2>1
<1>1. ASSUME NEW t \in Segments, NEW m \in SUBSET Customers, Drift(t, m)
      PROVE  UNCHANGED <<published, audited, pc, target, result>>
  BY <1>1 DEF Drift
<1>2. ASSUME NEW e \in Evaluators, Commit(e)
      PROVE  published'[s][c] + Cardinality(Joining(s, c)') - Cardinality(Leaving(s, c)')
               = IF c \in audited'[s] THEN 1 ELSE 0
  <2>1. /\ pc[e] = "computed" /\ result[e] \in Result /\ target[e] \in Segments
        /\ result[e].added = result[e].members \ audited[target[e]]
        /\ result[e].removed = audited[target[e]] \ result[e].members
    BY <1>2, <1>t DEF Commit, AuditInv, PendingDeltasAreExact, TypeOK, LockInv, CallsHoldTheirLocks
  <2>2. /\ pc' = [pc EXCEPT ![e] = "committed"] /\ target' = target /\ result' = result
        /\ published' = published
        /\ audited' = [audited EXCEPT ![target[e]] =
                         (@ \ result[e].removed) \union result[e].added]
    BY <1>2 DEF Commit
  <2>3. e \notin Joining(s, c) /\ e \notin Leaving(s, c)
    BY <2>1 DEF Joining, Leaving
  <2>4. /\ Joining(s, c)' = IF target[e] = s /\ c \in result[e].added
                            THEN Joining(s, c) \union {e} ELSE Joining(s, c)
        /\ Leaving(s, c)' = IF target[e] = s /\ c \in result[e].removed
                            THEN Leaving(s, c) \union {e} ELSE Leaving(s, c)
    BY <2>1, <2>2, <1>t DEF Joining, Leaving, TypeOK
  <2>5. CASE target[e] = s /\ c \in result[e].added
    <3>1. c \notin audited[s] /\ c \in audited'[s] /\ c \notin result[e].removed
      BY <2>1, <2>2, <2>5, <1>t DEF TypeOK
    <3>2. Cardinality(Joining(s, c)') = Cardinality(Joining(s, c)) + 1
      BY <1>f, <2>3, <2>4, <2>5, CountWith
    <3> QED
      BY <1>0, <1>f, <2>2, <2>4, <3>1, <3>2
  <2>6. CASE target[e] = s /\ c \in result[e].removed
    <3>1. c \in audited[s] /\ c \notin audited'[s] /\ c \notin result[e].added
      BY <2>1, <2>2, <2>6, <1>t DEF TypeOK
    <3>2. Cardinality(Leaving(s, c)') = Cardinality(Leaving(s, c)) + 1
      BY <1>f, <2>3, <2>4, <2>6, CountWith
    <3> QED
      BY <1>0, <1>f, <2>2, <2>4, <3>1, <3>2
  <2>7. CASE target[e] # s \/ (c \notin result[e].added /\ c \notin result[e].removed)
    <3>1. c \in audited'[s] <=> c \in audited[s]
      BY <2>1, <2>2, <2>7, <1>t DEF TypeOK
    <3>2. Joining(s, c)' = Joining(s, c) /\ Leaving(s, c)' = Leaving(s, c)
      BY <2>4, <2>7
    <3> QED
      BY <1>0, <2>2, <3>1, <3>2
  <2> QED
    BY <2>5, <2>6, <2>7
<1>3. ASSUME NEW e \in Evaluators, Broadcast(e)
      PROVE  published'[s][c] + Cardinality(Joining(s, c)') - Cardinality(Leaving(s, c)')
               = IF c \in audited'[s] THEN 1 ELSE 0
  <2>1. /\ pc[e] = "committed" /\ target[e] \in Segments
        /\ audited' = audited
        /\ published' = [published EXCEPT ![target[e]] =
                           Counted(@, result[e].added, result[e].removed)]
    BY <1>3, <1>t DEF Broadcast, LockInv, CallsHoldTheirLocks
  <2>2. /\ Joining(s, c)' = Joining(s, c) \ {e}
        /\ Leaving(s, c)' = Leaving(s, c) \ {e}
    BY <1>3 DEF Broadcast, Return, Joining, Leaving
  <2>3. Cardinality(Joining(s, c)') = Cardinality(Joining(s, c))
                                        - (IF e \in Joining(s, c) THEN 1 ELSE 0)
    BY <1>f, <2>2, CountWithout
  <2>4. Cardinality(Leaving(s, c)') = Cardinality(Leaving(s, c))
                                        - (IF e \in Leaving(s, c) THEN 1 ELSE 0)
    BY <1>f, <2>2, CountWithout
  <2>5. published'[s][c] = published[s][c] + (IF e \in Joining(s, c) THEN 1 ELSE 0)
                                           - (IF e \in Leaving(s, c) THEN 1 ELSE 0)
    <3>1. CASE target[e] = s
      <4>1. /\ e \in Joining(s, c) <=> c \in result[e].added
            /\ e \in Leaving(s, c) <=> c \in result[e].removed
        BY <2>1, <3>1 DEF Joining, Leaving
      <4> QED
        BY <1>t, <2>1, <3>1, <4>1 DEF Counted, TypeOK
    <3>2. CASE target[e] # s
      <4>1. e \notin Joining(s, c) /\ e \notin Leaving(s, c)
        BY <3>2 DEF Joining, Leaving
      <4>2. published'[s][c] = published[s][c]
        BY <1>t, <2>1, <3>2 DEF TypeOK
      <4> QED
        BY <1>f, <4>1, <4>2
    <3> QED
      BY <3>1, <3>2
  <2>6. audited'[s] = audited[s]
    BY <2>1
  <2> QED
    BY <1>0, <1>f, <2>3, <2>4, <2>5, <2>6
<1>4. ASSUME NEW e \in Evaluators, NEW t \in Segments, Start(e, t)
      PROVE  published'[s][c] + Cardinality(Joining(s, c)') - Cardinality(Leaving(s, c)')
               = IF c \in audited'[s] THEN 1 ELSE 0
  BY <1>a, <1>t, <1>4 DEF Start, TypeOK
<1>5. ASSUME NEW e \in Evaluators, AcquireLock(e) \/ ComputeDelta(e)
      PROVE  published'[s][c] + Cardinality(Joining(s, c)') - Cardinality(Leaving(s, c)')
               = IF c \in audited'[s] THEN 1 ELSE 0
  BY <1>a, <1>t, <1>5 DEF AcquireLock, ComputeDelta, TypeOK
<1>6. ASSUME NEW e \in Evaluators, NoOp(e) \/ Fail(e)
      PROVE  published'[s][c] + Cardinality(Joining(s, c)') - Cardinality(Leaving(s, c)')
               = IF c \in audited'[s] THEN 1 ELSE 0
  BY <1>a, <1>6 DEF NoOp, Fail, Return
<1>7. /\ \A e \in Evaluators : ~LoseAcknowledgement(e)
      /\ \A p \in Processes : ~Crash(p)
  BY <1>t DEF LoseAcknowledgement, Crash, TypeOK
<1>8. CASE UNCHANGED vars
  BY <1>a, <1>8 DEF vars
<1> QED
  BY <1>1, <1>2, <1>3, <1>4, <1>5, <1>6, <1>7, <1>8, <1>a DEF Next, Step

\* No step takes back a crash or a lost acknowledgement.
LEMMA CrashesAreCounted ==
    ASSUME TypeOK, [Next]_vars, used'.crashes = 0
    PROVE  used.crashes = 0
<1>1. used \in [evaluations : Nat, drifts : Nat, failures : Nat, crashes : Nat]
  BY DEF TypeOK
<1>2. \/ used' = used
      \/ used' = [used EXCEPT !.drifts = @ + 1]
      \/ used' = [used EXCEPT !.evaluations = @ + 1]
      \/ used' = [used EXCEPT !.failures = @ + 1]
      \/ used' = [used EXCEPT !.crashes = @ + 1]
  BY DEF Next, Step, Drift, Start, AcquireLock, NoOp, ComputeDelta, Commit, Broadcast, Fail,
         LoseAcknowledgement, Crash, vars
<1> QED
  BY <1>1, <1>2

\* As long as no process has crashed and no acknowledgement is lost, subscribers who have
\* got every committed delta of a segment know its members, for any finite number of
\* racing calls that broadcast after releasing the lock, in any order.
THEOREM AnnouncementsSound ==
    ASSUME ClocksAgree, IsFiniteSet(Evaluators)
    PROVE  Spec => []AnnouncementsBalanceOut
<1> DEFINE Inv == used.crashes = 0 => AnnouncementsBalance
<1>1. AuditInv /\ Inv /\ [Next]_vars => Inv'
  <2> SUFFICES ASSUME AuditInv, Inv, [Next]_vars, used'.crashes = 0
               PROVE  AnnouncementsBalance'
    OBVIOUS
  <2>1. TypeOK
    BY DEF AuditInv, LockInv
  <2>2. used.crashes = 0
    BY <2>1, CrashesAreCounted
  <2> QED
    BY <2>2, BalanceStep
<1>2. TypeOK /\ AnnouncementsBalance => AnnouncementsMatchMembership
  <2> SUFFICES ASSUME TypeOK, AnnouncementsBalance, NEW s \in Segments,
                      \A e \in Evaluators : ~(pc[e] = "committed" /\ target[e] = s),
                      NEW c \in Customers
               PROVE  published[s][c] = IF c \in audited[s] THEN 1 ELSE 0
    BY DEF AnnouncementsMatchMembership
  <2>1. Joining(s, c) = {} /\ Leaving(s, c) = {}
    BY DEF Joining, Leaving
  <2>2. published[s][c] \in Int
    BY DEF TypeOK
  <2>3. published[s][c] + Cardinality(Joining(s, c)) - Cardinality(Leaving(s, c))
          = IF c \in audited[s] THEN 1 ELSE 0
    BY DEF AnnouncementsBalance
  <2> QED
    BY <2>1, <2>2, <2>3, FS_EmptySet
<1>3. AuditInv /\ Inv => AnnouncementsBalanceOut
  <2>1. AuditInv => TypeOK
    BY DEF AuditInv, LockInv
  <2> QED
    BY <1>2, <2>1 DEF AnnouncementsBalanceOut
<1>4. Init => Inv
  BY BalanceInit
<1> QED
  BY AuditInvariant, <1>1, <1>3, <1>4, PTL DEF Spec

-----------------------------------------------------------------------------
(* DeltaCalculator implements SegmentLedger *)

\* The abstract membership is the replay of the delta records.
LEMMA MembershipIsAudited ==
    ASSUME AuditTrailMatchesMembership, NEW s \in Segments
    PROVE  Membership[s] = audited[s]
  BY DEF AuditTrailMatchesMembership, Membership

\* Empty tables map to the ledger's initial state.
LEMMA LedgerInit == Init => Ledger!Init
  BY DEF Init, Ledger!Init, Membership, Holding, PreviousIds

\* Commit maps to Record, Broadcast to Announce, crashes and lost acknowledgements
\* to Lose, every other step to a stutter.
LEMMA LedgerStep ==
    ASSUME AuditInv, AuditInv', [Next]_vars
    PROVE  [Ledger!Next]_(Ledger!vars)
<1> USE DEF AuditInv
<1>0. /\ Membership = [s \in Segments |-> audited[s]]
      /\ Membership' = [s \in Segments |-> audited'[s]]
  BY DEF AuditTrailMatchesMembership, Membership
<1>a. ASSUME audited' = audited,
             \A e \in Evaluators :
                \/ pc'[e] # "committed" /\ pc[e] # "committed"
                \/ /\ pc'[e] = "committed" /\ pc[e] = "committed"
                   /\ target'[e] = target[e] /\ result'[e] = result[e]
      PROVE  UNCHANGED Ledger!vars
  BY <1>0, <1>a DEF Ledger!vars, Holding
<1>b. ASSUME NEW es \in SUBSET Evaluators, audited' = audited, Return(es)
      PROVE  Ledger!Next
  <2>1. Holding' = [e \in Evaluators |-> IF e \in es THEN {} ELSE Holding[e]]
    BY <1>b DEF Return, Holding
  <2>2. Ledger!Lose(es)
    BY <1>0, <1>b, <2>1 DEF Ledger!Lose
  <2> QED
    BY <2>2 DEF Ledger!Next
<1>1. ASSUME NEW s \in Segments, NEW m \in SUBSET Customers, Drift(s, m)
      PROVE  UNCHANGED Ledger!vars
  BY <1>a, <1>1 DEF Drift
<1>2. ASSUME NEW e \in Evaluators, NEW s \in Segments, Start(e, s)
      PROVE  UNCHANGED Ledger!vars
  BY <1>a, <1>2 DEF Start, LockInv, TypeOK
<1>3. ASSUME NEW e \in Evaluators, AcquireLock(e) PROVE UNCHANGED Ledger!vars
  BY <1>a, <1>3 DEF AcquireLock, LockInv, TypeOK
<1>4. ASSUME NEW e \in Evaluators, NoOp(e) PROVE UNCHANGED Ledger!vars
  BY <1>a, <1>4 DEF NoOp, Return
<1>5. ASSUME NEW e \in Evaluators, ComputeDelta(e) PROVE UNCHANGED Ledger!vars
  BY <1>a, <1>5 DEF ComputeDelta, LockInv, TypeOK
<1>6. ASSUME NEW e \in Evaluators, Commit(e) PROVE Ledger!Next
  <2>1. /\ target[e] \in Segments /\ result[e] \in Result /\ pc[e] = "computed"
        /\ result[e].added = result[e].members \ audited[target[e]]
        /\ result[e].removed = audited[target[e]] \ result[e].members
        /\ result[e].members # audited[target[e]]
    BY <1>6 DEF Commit, LockInv, CallsHoldTheirLocks, TypeOK, PendingDeltasAreExact
  <2>2. result[e].members \in SUBSET Customers
    BY <2>1 DEF Result
  <2>3. Membership' = [Membership EXCEPT ![target[e]] = result[e].members]
    BY <1>0, <1>6, <2>1 DEF Commit, LockInv, TypeOK
  <2>4. /\ Holding[e] = {}
        /\ Holding' = [Holding EXCEPT ![e] =
              {[seg     |-> target[e],
                added   |-> result[e].members \ Membership[target[e]],
                removed |-> Membership[target[e]] \ result[e].members]}]
    BY <1>0, <1>6, <2>1 DEF Commit, Holding, LockInv, TypeOK
  <2>5. result[e].members # Membership[target[e]]
    BY <1>0, <2>1
  <2>6. Ledger!Record(e, target[e], result[e].members)
    BY <2>3, <2>4, <2>5 DEF Ledger!Record
  <2> QED
    BY <2>1, <2>2, <2>6 DEF Ledger!Next
<1>7. ASSUME NEW e \in Evaluators, Broadcast(e) PROVE Ledger!Next
  <2>1. Holding[e] # {} /\ Holding' = [Holding EXCEPT ![e] = {}]
    BY <1>7 DEF Broadcast, Return, Holding
  <2>2. Ledger!Announce(e)
    BY <1>0, <1>7, <2>1 DEF Broadcast, Ledger!Announce
  <2> QED
    BY <2>2 DEF Ledger!Next
<1>8. ASSUME NEW e \in Evaluators, Fail(e) PROVE Ledger!Next
  BY <1>b, <1>8, {e} \in SUBSET Evaluators DEF Fail
<1>9. ASSUME NEW e \in Evaluators, LoseAcknowledgement(e) PROVE Ledger!Next
  BY <1>b, <1>9, {e} \in SUBSET Evaluators DEF LoseAcknowledgement
<1>10. ASSUME NEW p \in Processes, Crash(p) PROVE Ledger!Next
  BY <1>b, <1>10, {e \in Evaluators : Host[e] = p} \in SUBSET Evaluators DEF Crash
<1>11. CASE UNCHANGED vars
  BY <1>a, <1>11 DEF vars
<1> QED
  BY <1>1, <1>2, <1>3, <1>4, <1>5, <1>6, <1>7, <1>8, <1>9, <1>10, <1>11 DEF Next, Step

\* With agreeing clocks, snapshots, locks and racing calls implement the ledger:
\* single membership changes, each with its exact difference in one caller's hands.
THEOREM CalculatorImplementsLedger ==
    ASSUME ClocksAgree
    PROVE  Spec => ImplementsLedger
<1>1. AuditInv /\ AuditInv' /\ [Next]_vars => [Ledger!Next]_(Ledger!vars)
  BY LedgerStep
<1> QED
  BY AuditInvariant, LedgerInit, <1>1, PTL DEF Spec, ImplementsLedger, Ledger!Spec
=============================================================================
