----------------------------- MODULE RuleEngine -----------------------------
(***************************************************************************)
(* libs/shared/src/evaluation/segment-evaluator.service.ts: one segment is *)
(* evaluated again and again while customers transact, parents' snapshots  *)
(* change, the clock runs and /simulate/advance-time shifts the data.      *)
(***************************************************************************)
EXTENDS Rules

CONSTANTS
    CustomerIds,
    RuleSet,       \* the rules a segment may have
    Databases,     \* the databases the run starts with
    Transactions,  \* the transactions that may be recorded: [at, amount], at relative to NOW()
    MaxChanges     \* bound: changes of data and ticks of the clock

Row == [balance : Int, tx_count : Int, last_tx_at : Int \union {Null},
        name : Texts \union {Null}, email : Texts \union {Null}]

Tx == [at : Int, amount : Nat]

Database == [rows : [CustomerIds -> Row], txs : [CustomerIds -> Seq(Tx)],
             snapshots : [Segments -> SUBSET CustomerIds], now : Int]

ASSUME EngineAssumption ==
    /\ RuleSet \subseteq Rule
    /\ Databases \subseteq Database
    /\ Transactions \subseteq Tx
    /\ MaxChanges \in Nat

VARIABLES
    rule, db,
    members,     \* what the last evaluation found
    timeOnly,    \* nothing but the clock has moved since
    changes

engineVars == <<rule, db, members, timeOnly, changes>>

Predicate == CompileWhereClause(rule)
Accepted == ~IsRejected(Predicate)

Changed(new) ==
    /\ changes < MaxChanges /\ changes' = changes + 1
    /\ db' = new
    /\ UNCHANGED <<rule, members>>

\* recordTransaction: the transaction, the customer's balance and tx_count, and
\* last_tx_at unless a later one is known.
Booked(d, c, at, amount) ==
    LET row == d.rows[c] IN
    [d EXCEPT
        !.txs[c] = Append(@, [at |-> at, amount |-> amount]),
        !.rows[c] = [balance |-> row.balance + amount, tx_count |-> row.tx_count + 1,
                     last_tx_at |-> IF row.last_tx_at = Null \/ row.last_tx_at < at THEN at ELSE row.last_tx_at,
                     name |-> row.name, email |-> row.email]]

Transact(c, tx) ==
    /\ timeOnly' = FALSE
    /\ Changed(Booked(db, c, db.now + tx.at, tx.amount))

\* A parent segment gets a new snapshot.
ParentMoves(s, ids) ==
    /\ ids # db.snapshots[s]
    /\ timeOnly' = FALSE
    /\ Changed([db EXCEPT !.snapshots[s] = ids])

\* A day passes: no event, no evaluation.
PassTime ==
    /\ Changed([db EXCEPT !.now = @ + 1])
    /\ UNCHANGED timeOnly

\* POST /simulate/advance-time.
AdvanceTime ==
    /\ timeOnly' = FALSE
    /\ Changed(Shifted(db, 1))

\* refresh: compile, compute, store.  A rejected rule leaves everything as it is.
Refresh ==
    /\ Accepted /\ ~(timeOnly /\ members = Select(Predicate, db))
    /\ members' = Select(Predicate, db)
    /\ timeOnly' = TRUE
    /\ UNCHANGED <<rule, db, changes>>

EngineInit ==
    /\ rule \in RuleSet
    /\ db \in Databases
    /\ members = {}
    /\ timeOnly = FALSE
    /\ changes = 0

EngineNext ==
    \/ \E c \in CustomerIds, tx \in Transactions : Transact(c, tx)
    \/ \E s \in Segments, ids \in SUBSET CustomerIds : ParentMoves(s, ids)
    \/ PassTime \/ AdvanceTime \/ Refresh

EngineSpec == EngineInit /\ [][EngineNext]_engineVars

-----------------------------------------------------------------------------
(* Properties *)

\* Customer data stays well formed, and the segment has customers as members.
EngineTypeOK ==
    /\ rule \in RuleSet
    /\ db \in Database
    /\ members \subseteq CustomerIds
    /\ timeOnly \in BOOLEAN
    /\ changes \in 0..MaxChanges

\* The customers for whom the compiled predicate is true, with its placeholders and
\* NULLs, are those for whom the rule holds (compileWhereClause).
CompiledMeansRule == Accepted => Select(Predicate, db) = Members(rule, db)

\* The segments whose snapshots the predicate reads are the ones extractSegmentRefs
\* gives to the dependency graph: no cascade is missed, none is superfluous.
RefsMatchReads == Accepted => SnapshotsRead(Predicate) = ExtractSegmentRefs(rule)

\* The windows of a rule are all compared with one of the operators.
OneWay(r, operators) ==
    \A leaf \in Leaves(r) :
        leaf.type \in {"date_window_count", "sum_threshold"} => leaf.operator \in operators

\* While only the clock has moved since the last evaluation, a segment of >= and >
\* windows can only have lost members, one of <= and < windows only gained some
\* (transactions dated in the future included: a window has no upper end).
TimeMovesOneWay ==
    Accepted /\ timeOnly =>
        /\ OneWay(rule, {">=", ">"}) => Select(Predicate, db) \subseteq members
        /\ OneWay(rule, {"<=", "<"}) => members \subseteq Select(Predicate, db)

\* A rule compares last_tx_at with a date.
ComparesLastTx(r) ==
    \E leaf \in Leaves(r) : leaf.type = "field_comparison" /\ leaf.field \in {"lastTxAt", "last_tx_at"}

\* Shifting the data a day back selects the customers that a clock a day later would
\* (README.md:518-520), nested windows and NULL dates included; the one exception is a rule
\* with a literal date for last_tx_at, for that date does not move.
ShiftIsTime ==
    Accepted /\ ~ComparesLastTx(rule) =>
        Select(Predicate, Shifted(db, 1)) = Select(Predicate, [db EXCEPT !.now = @ + 1])
=============================================================================
