-------------------------- MODULE DeltaCalculator --------------------------
(***************************************************************************)
(* libs/shared/src/evaluation/delta-calculator.service.ts, together with   *)
(* the two lines of its callers that publish what it returns.              *)
(*                                                                         *)
(* Several calls of computeAndPersist run at once: the worker's evaluation *)
(* pass, its cascade handlers and the api's manual refreshes, in different *)
(* processes.  One call is one database transaction: it takes the advisory *)
(* lock of its segment, compares the customers the rule matches with the   *)
(* segment's latest snapshot, reads its process's wall clock, inserts a    *)
(* snapshot and a delta record stamped with that time, and commits, which  *)
(* releases the lock.  The caller then publishes the delta, outside the    *)
(* transaction.                                                            *)
(***************************************************************************)
EXTENDS Integers, FiniteSets

CONSTANTS
    Customers,
    Segments,
    Processes,        \* the operating-system processes: api and worker
    Evaluators,       \* concurrent calls of computeAndPersist
    Host,             \* Host[e]: the process that runs evaluator e
    Skew,             \* Skew[p]: how far the wall clock of p is from true time
    None,             \* no evaluator, no segment
    MaxEvaluations,   \* bound: calls started
    MaxDrifts,        \* bound: changes of the matching customers
    MaxFailures,      \* bound: database errors inside a call
    MaxCrashes        \* bound: process crashes and lost commit acknowledgements

ASSUME HostAssumption == Host \in [Evaluators -> Processes]
ASSUME SkewAssumption == Skew \in [Processes -> Int]
ASSUME NoneAssumption == None \notin Evaluators /\ None \notin Segments

VARIABLES
    matching,     \* matching[s]: the customers the rule of s matches in the database
    snapshots,    \* snapshots[s]: the rows of membership_snapshots of s
    audited,      \* audited[s]: the delta_records of s replayed in commit order
    published,    \* published[s][c]: announcements of c joining s minus those of c leaving
    lock,         \* lock[s]: the call whose transaction holds the advisory lock of s
    pc,           \* pc[e]: where the call is
    target,       \* target[e]: the segment the call evaluates
    result,       \* result[e]: row (diff query) and now, once computed
    clock,        \* true time, one tick per reading of a wall clock
    used          \* how much of each bound has been used

vars == <<matching, snapshots, audited, published, lock, pc, target, result, clock, used>>

-----------------------------------------------------------------------------
(* Types *)

Stages == {"idle", "waiting", "locked", "computed", "committed"}

SnapshotRow == [ids : SUBSET Customers, at : Int]

Result == [members : SUBSET Customers, added : SUBSET Customers,
           removed : SUBSET Customers, at : Int]

NoResult == [members |-> {}, added |-> {}, removed |-> {}, at |-> 0]

TypeOK ==
    /\ matching \in [Segments -> SUBSET Customers]
    /\ snapshots \in [Segments -> SUBSET SnapshotRow]
    /\ audited \in [Segments -> SUBSET Customers]
    /\ published \in [Segments -> [Customers -> Int]]
    /\ lock \in [Segments -> Evaluators \union {None}]
    /\ pc \in [Evaluators -> Stages]
    /\ target \in [Evaluators -> Segments \union {None}]
    /\ result \in [Evaluators -> Result]
    /\ clock \in Nat
    /\ used \in [evaluations : Nat, drifts : Nat, failures : Nat, crashes : Nat]

-----------------------------------------------------------------------------
(* Reading the snapshots *)

\* Mutant of LatestRows: ORDER BY evaluated_at ASC.
OldestRows(s) ==
    {row \in snapshots[s] : \A other \in snapshots[s] : row.at <= other.at}

\* ORDER BY evaluated_at DESC LIMIT 1: any of the rows with the largest time.
LatestRows(s) ==
    {row \in snapshots[s] : \A other \in snapshots[s] : other.at <= row.at}

\* What COALESCE((SELECT customer_ids ...), '{}') may return for s.
PreviousIds(s) ==
    IF snapshots[s] = {} THEN {{}} ELSE {row.ids : row \in LatestRows(s)}

-----------------------------------------------------------------------------
(* Differences and locks *)

\* Mutant of Joined: a customer who stays is reported as joining again.
JoinedOrStayed(new, prev) == new

\* added_set and removed_set of the diff query.
Joined(new, prev) == new \ prev
Left(new, prev)   == prev \ new

\* Mutant of MayLock: pg_advisory_xact_lock is not called.
MayAlwaysLock(s) == TRUE

\* The advisory lock of s is free.
MayLock(s) == lock[s] = None

\* Mutant of LocksWithout: a session lock, which outlives the transaction.
LocksKept(gone) == lock

\* The locks left once the transactions of the calls in gone have ended.
LocksWithout(gone) ==
    [s \in Segments |-> IF lock[s] \in gone THEN None ELSE lock[s]]

\* Mutant of Counted: the announcement carries only the joining customers.
CountedAddedOnly(count, added, removed) ==
    [c \in Customers |-> count[c] + (IF c \in added THEN 1 ELSE 0)]

\* The announcements of one segment, one more of them published.
Counted(count, added, removed) ==
    [c \in Customers |-> count[c] + (IF c \in added THEN 1 ELSE 0)
                                  - (IF c \in removed THEN 1 ELSE 0)]

-----------------------------------------------------------------------------
(* The environment *)

\* Customer data or a parent's snapshot changes, so the rule of s matches others.
Drift(s, now_matching) ==
    /\ used.drifts < MaxDrifts
    /\ now_matching # matching[s]
    /\ matching' = [matching EXCEPT ![s] = now_matching]
    /\ used' = [used EXCEPT !.drifts = @ + 1]
    /\ UNCHANGED <<snapshots, audited, published, lock, pc, target, result, clock>>

-----------------------------------------------------------------------------
(* One call of computeAndPersist *)

\* The transaction begins and its first statement asks for the lock.
Start(e, s) ==
    /\ used.evaluations < MaxEvaluations
    /\ pc[e] = "idle"
    /\ pc' = [pc EXCEPT ![e] = "waiting"]
    /\ target' = [target EXCEPT ![e] = s]
    /\ used' = [used EXCEPT !.evaluations = @ + 1]
    /\ UNCHANGED <<matching, snapshots, audited, published, lock, result, clock>>

\* pg_advisory_xact_lock(hashtextextended(segment.id, 0)) returns.
AcquireLock(e) ==
    /\ pc[e] = "waiting"
    /\ MayLock(target[e])
    /\ lock' = [lock EXCEPT ![target[e]] = e]
    /\ pc' = [pc EXCEPT ![e] = "locked"]
    /\ UNCHANGED <<matching, snapshots, audited, published, target, result, clock, used>>

\* The calls in es are over and their variables gone.
Return(es) ==
    /\ pc' = [e \in Evaluators |-> IF e \in es THEN "idle" ELSE pc[e]]
    /\ target' = [e \in Evaluators |-> IF e \in es THEN None ELSE target[e]]
    /\ result' = [e \in Evaluators |-> IF e \in es THEN NoResult ELSE result[e]]

\* The wall clock of the process of e at its next reading.
WallClock(e) == clock + 1 + Skew[Host[e]]

\* The diff query finds the rule's matches equal to the previous snapshot: the
\* transaction ends without writing, which releases the lock.
NoOp(e) ==
    /\ pc[e] = "locked"
    /\ \E prev \in PreviousIds(target[e]) : prev = matching[target[e]]
    /\ clock' = clock + 1
    /\ lock' = LocksWithout({e})
    /\ Return({e})
    /\ UNCHANGED <<matching, snapshots, audited, published, used>>

\* The diff query finds a difference; now = new Date().
ComputeDelta(e) ==
    LET s == target[e] IN
    /\ pc[e] = "locked"
    /\ \E prev \in PreviousIds(s) :
        /\ prev # matching[s]
        /\ result' = [result EXCEPT ![e] =
              [members |-> matching[s],
               added   |-> Joined(matching[s], prev),
               removed |-> Left(matching[s], prev),
               at      |-> WallClock(e)]]
    /\ clock' = clock + 1
    /\ pc' = [pc EXCEPT ![e] = "computed"]
    /\ UNCHANGED <<matching, snapshots, audited, published, lock, target, used>>

\* Both inserts and the commit: the rows appear and the lock is free, at once.
Commit(e) ==
    LET s == target[e] IN
    /\ pc[e] = "computed"
    /\ snapshots' = [snapshots EXCEPT ![s] =
            @ \union {[ids |-> result[e].members, at |-> result[e].at]}]
    /\ audited' = [audited EXCEPT ![s] = (@ \ result[e].removed) \union result[e].added]
    /\ lock' = LocksWithout({e})
    /\ pc' = [pc EXCEPT ![e] = "committed"]
    /\ UNCHANGED <<matching, published, target, result, clock, used>>

\* broadcaster.broadcast(event) in the caller, after the transaction.
Broadcast(e) ==
    LET s == target[e] IN
    /\ pc[e] = "committed"
    /\ published' = [published EXCEPT ![s] =
            Counted(@, result[e].added, result[e].removed)]
    /\ Return({e})
    /\ UNCHANGED <<matching, snapshots, audited, lock, clock, used>>

\* A statement fails: the transaction rolls back, the caller gets the exception
\* (the worker logs it and goes on, the api answers 500).
Fail(e) ==
    /\ used.failures < MaxFailures
    /\ pc[e] \in {"waiting", "locked", "computed"}
    /\ lock' = LocksWithout({e})
    /\ Return({e})
    /\ used' = [used EXCEPT !.failures = @ + 1]
    /\ UNCHANGED <<matching, snapshots, audited, published, clock>>

\* The commit succeeds but its acknowledgement never arrives: the caller gets an
\* exception for a delta that is recorded, and does not publish it.
LoseAcknowledgement(e) ==
    /\ used.crashes < MaxCrashes
    /\ pc[e] = "committed"
    /\ Return({e})
    /\ used' = [used EXCEPT !.crashes = @ + 1]
    /\ UNCHANGED <<matching, snapshots, audited, published, lock, clock>>

\* A process stops: its open transactions roll back, what it has committed but
\* not yet published is never published.
Crash(p) ==
    LET dead == {e \in Evaluators : Host[e] = p} IN
    /\ used.crashes < MaxCrashes
    /\ lock' = LocksWithout(dead)
    /\ Return(dead)
    /\ used' = [used EXCEPT !.crashes = @ + 1]
    /\ UNCHANGED <<matching, snapshots, audited, published, clock>>

-----------------------------------------------------------------------------
(* The specification *)

\* The tables are empty (scripts/seed.ts truncates them), nothing runs.
Init ==
    /\ matching \in [Segments -> SUBSET Customers]
    /\ snapshots = [s \in Segments |-> {}]
    /\ audited = [s \in Segments |-> {}]
    /\ published = [s \in Segments |-> [c \in Customers |-> 0]]
    /\ lock = [s \in Segments |-> None]
    /\ pc = [e \in Evaluators |-> "idle"]
    /\ target = [e \in Evaluators |-> None]
    /\ result = [e \in Evaluators |-> NoResult]
    /\ clock = 0
    /\ used = [evaluations |-> 0, drifts |-> 0, failures |-> 0, crashes |-> 0]

Step(e) ==
    \/ AcquireLock(e)
    \/ NoOp(e)
    \/ ComputeDelta(e)
    \/ Commit(e)
    \/ Broadcast(e)

Next ==
    \/ \E s \in Segments, m \in SUBSET Customers : Drift(s, m)
    \/ \E e \in Evaluators, s \in Segments : Start(e, s)
    \/ \E e \in Evaluators : Step(e)
    \/ \E e \in Evaluators : Fail(e) \/ LoseAcknowledgement(e)
    \/ \E p \in Processes : Crash(p)

Spec == Init /\ [][Next]_vars

\* A running call goes on: the event loop and the database make progress, and
\* PostgreSQL grants an advisory lock to its waiters in order of arrival.
FairSpec ==
    /\ Spec
    /\ \A e \in Evaluators :
        /\ SF_vars(AcquireLock(e))
        /\ WF_vars(NoOp(e) \/ ComputeDelta(e) \/ Commit(e) \/ Broadcast(e))

-----------------------------------------------------------------------------
(* Properties *)

\* The processes' wall clocks agree (up to a common offset).
ClocksAgree == \A p, q \in Processes : Skew[p] = Skew[q]

\* The delta records of a segment, replayed from the start, give the membership
\* that the next diff query and every segment_membership rule will read.  It is
\* what makes delta_records an audit trail of membership_snapshots: they are
\* written by racing calls, ordered by wall clocks and never compared.
AuditTrailMatchesMembership ==
    \A s \in Segments : PreviousIds(s) = {audited[s]}

\* A transaction only ever reports customers who were outside as added and
\* customers who were inside as removed, and never an empty delta: no racing
\* call can make computeAndPersist report the same change twice.
ChangesAreReportedOnce ==
    [][\A e \in Evaluators :
        pc[e] = "computed" /\ pc'[e] = "committed" =>
            /\ result[e].added \intersect audited[target[e]] = {}
            /\ result[e].removed \subseteq audited[target[e]]
            /\ audited'[target[e]] # audited[target[e]]]_vars

\* The snapshots of s recorded before row.
Earlier(s, row) == {r \in snapshots[s] : r.at < row.at}

\* A row whose time is its own and whose members are not those of the row before it.
IsChange(s, row) ==
    /\ \A other \in snapshots[s] \ {row} : other.at # row.at
    /\ Earlier(s, row) = {} => row.ids # {}
    /\ \A r \in Earlier(s, row) : (\A q \in Earlier(s, row) : q.at <= r.at) => r.ids # row.ids

\* Each snapshot of a segment differs from the one recorded before it, and the first is not
\* empty: a call that had to wait for the lock while another wrote what the rule matches
\* writes no row of its own, whichever of them read the clock first (the comment on the
\* advisory lock and the no-op short-circuit of computeAndPersist; README "Idempotency").
SnapshotsAreChanges == \A s \in Segments : \A row \in snapshots[s] : IsChange(s, row)

\* Once every committed delta of a segment has been broadcast, the subscribers
\* have been told of each member joining exactly once more than leaving, and of
\* each other customer as often joining as leaving.
AnnouncementsMatchMembership ==
    \A s \in Segments :
        (\A e \in Evaluators : ~(pc[e] = "committed" /\ target[e] = s)) =>
            \A c \in Customers : published[s][c] = IF c \in audited[s] THEN 1 ELSE 0

\* Until a crash or a lost acknowledgement that sum never goes wrong: racing calls, which
\* broadcast after they have released the lock and in any order, announce each change once.
AnnouncementsBalanceOut == used.crashes = 0 => AnnouncementsMatchMembership

\* Every call ends, with a result or an exception: no caller waits for a lock
\* for ever.  A worker call that hung would keep isProcessing set.
CallsEnd ==
    \A e \in Evaluators : pc[e] # "idle" ~> pc[e] = "idle"

\* The membership a reader of the newest snapshot sees, and what each caller
\* still has to announce: the state of SegmentLedger.
Membership == [s \in Segments |-> CHOOSE ids \in PreviousIds(s) : TRUE]

Holding == [e \in Evaluators |->
    IF pc[e] = "committed"
    THEN {[seg |-> target[e], added |-> result[e].added, removed |-> result[e].removed]}
    ELSE {}]

Ledger == INSTANCE SegmentLedger WITH members <- Membership, holding <- Holding

\* Locks, snapshots and clocks together do what SegmentLedger promises: the
\* membership changes in single steps, each handing its exact difference to
\* one caller, who announces it once or dies with it.
ImplementsLedger == Ledger!Spec
=============================================================================
