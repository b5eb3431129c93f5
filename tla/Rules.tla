------------------------------- MODULE Rules -------------------------------
(***************************************************************************)
(* libs/shared/src/evaluation/rule-compiler.ts and rule-introspection.ts:  *)
(* the rule language.  A rule is compiled to a SQL predicate with numbered *)
(* placeholders and the sequence of their values; PostgreSQL evaluates the *)
(* predicate for each customer in three-valued logic and keeps those for   *)
(* whom it is true.  Rules and SQL expressions are trees of records, and   *)
(* what walks down a tree is a recursive function of the depth that is     *)
(* left.  Days are the unit of time, texts are only compared for equality. *)
(***************************************************************************)
EXTENDS Integers, FiniteSets, Sequences

CONSTANTS
    Null,       \* NULL
    Segments,   \* the segments a rule may refer to
    Texts,      \* names and e-mail addresses
    MaxDepth    \* bound: how deep compound rules are nested

ASSUME DepthAssumption == MaxDepth \in Nat

-----------------------------------------------------------------------------
(* Rules (rule.types.ts) *)

\* Leaves, joined by "and" and "or" up to depth times.
Trees(leaves) ==
    LET trees[depth \in Nat] ==
          IF depth = 0 THEN leaves
          ELSE leaves \union [type : {"compound"}, op : {"and", "or"}, rules : Seq(trees[depth - 1])]
    IN trees

Scalars == Int \union Texts

RuleLeaves ==
    [type : {"date_window_count", "sum_threshold"}, field : STRING,
     windowDays : Int, operator : STRING, value : Int]
      \union [type : {"field_comparison"}, field : STRING, operator : STRING, list : {FALSE}, value : Scalars]
      \union [type : {"field_comparison"}, field : STRING, operator : STRING, list : {TRUE},
              values : SUBSET Scalars]
      \union [type : {"segment_membership"}, segmentId : Segments]

RuleOf == Trees(RuleLeaves)
Rule == RuleOf[MaxDepth]

\* The leaves of a tree, at any depth; below has those of the trees that it joins.
LeavesIn(tree, below) ==
    IF tree.type = "compound" THEN UNION {below[tree.rules[i]] : i \in DOMAIN tree.rules} ELSE {tree}

LeavesOf(leaves) ==
    LET found[depth \in Nat] == [tree \in Trees(leaves)[depth] |-> LeavesIn(tree, found[depth - 1])]
    IN found

-----------------------------------------------------------------------------
(* The compiler.  The context is the sequence of values pushed so far. *)

ScalarOperators == {"=", "!=", "<", "<=", ">", ">="}
Operators == ScalarOperators \union {"in", "not_in"}

\* The columns of customers a rule may compare, by each name it may use.
CustomerFieldMap ==
    [balance |-> "balance", tx_count |-> "tx_count", txCount |-> "tx_count",
     last_tx_at |-> "last_tx_at", lastTxAt |-> "last_tx_at", name |-> "name", email |-> "email"]

CustomerColumns == {"balance", "tx_count", "last_tx_at", "name", "email"}

\* SQL expressions; placeholders are the numbers the compiler writes.
SqlLeaves ==
    [type : {"window"}, aggregate : {"count", "sum"}, operator : ScalarOperators, days : Nat, value : Nat]
      \union [type : {"column"}, column : CustomerColumns, operator : Operators, value : Nat]
      \union [type : {"member"}, segment : Nat]

SqlOf == Trees(SqlLeaves)

Rejected == [sql |-> [type |-> "rejected"], params |-> <<>>]
IsRejected(p) == p.sql.type = "rejected"

\* A SQL expression and the values pushed for it.  The placeholder of a value is the number
\* of values pushed so far: before it are the pushed ones of what was compiled earlier.
Compiled(sql, params) == [sql |-> sql, params |-> params]

\* Mutant of CompileWindow: the placeholders of days and value are mixed up.
CompileWindowSwapped(rule, pushed, aggregate) ==
    IF rule.operator \notin ScalarOperators THEN Rejected
    ELSE Compiled([type |-> "window", aggregate |-> aggregate, operator |-> rule.operator,
                   days |-> pushed + 2, value |-> pushed + 1],
                  <<rule.windowDays, rule.value>>)

CompileWindow(rule, pushed, aggregate) ==
    IF rule.operator \notin ScalarOperators THEN Rejected
    ELSE Compiled([type |-> "window", aggregate |-> aggregate, operator |-> rule.operator,
                   days |-> pushed + 1, value |-> pushed + 2],
                  <<rule.windowDays, rule.value>>)

CompileField(rule, pushed) ==
    LET listed == rule.operator \in {"in", "not_in"} IN
    IF rule.field \notin DOMAIN CustomerFieldMap \/ rule.list # listed
       \/ (~listed /\ rule.operator \notin ScalarOperators)
    THEN Rejected
    ELSE Compiled([type |-> "column", column |-> CustomerFieldMap[rule.field],
                   operator |-> rule.operator, value |-> pushed + 1],
                  <<IF listed THEN rule.values ELSE rule.value>>)

CompileMembership(rule, pushed) ==
    Compiled([type |-> "member", segment |-> pushed + 1], <<rule.segmentId>>)

\* One more sub-rule joined to those compiled before it.
Joined(done, sub) ==
    IF IsRejected(done) \/ IsRejected(sub) THEN Rejected
    ELSE Compiled([done.sql EXCEPT !.rules = Append(@, sub.sql)], done.params \o sub.params)

\* Each sub-rule is compiled after those before it have pushed their values.
CompileCompound(rule, pushed, compile) ==
    LET done[i \in 0..Len(rule.rules)] ==
          IF i = 0 THEN Compiled([type |-> "compound", op |-> rule.op, rules |-> <<>>], <<>>)
          ELSE Joined(done[i - 1], compile[rule.rules[i]][pushed + Len(done[i - 1].params)])
    IN IF rule.rules = <<>> THEN Rejected ELSE done[Len(rule.rules)]

CompileRule(rule, pushed, compile) ==
    CASE rule.type = "date_window_count" ->
           IF rule.field # "transactions" THEN Rejected ELSE CompileWindow(rule, pushed, "count")
      [] rule.type = "sum_threshold" -> CompileWindow(rule, pushed, "sum")
      [] rule.type = "field_comparison" -> CompileField(rule, pushed)
      [] rule.type = "segment_membership" -> CompileMembership(rule, pushed)
      [] rule.type = "compound" -> CompileCompound(rule, pushed, compile)

Compile[depth \in Nat] ==
    [rule \in RuleOf[depth] |-> [pushed \in Nat |-> CompileRule(rule, pushed, Compile[depth - 1])]]

CompileWhereClause(rule) == Compile[MaxDepth][rule][0]

-----------------------------------------------------------------------------
(* The introspection *)

WalkRule(rule, walk) ==
    CASE rule.type = "segment_membership" -> {rule.segmentId}
      [] rule.type = "compound" -> UNION {walk[rule.rules[i]] : i \in DOMAIN rule.rules}
      [] OTHER -> {}

Walk[depth \in Nat] == [rule \in RuleOf[depth] |-> WalkRule(rule, Walk[depth - 1])]

\* Mutant of ExtractSegmentRefs: only the rule itself and its direct sub-rules.
ExtractShallow(rule) ==
    IF rule.type # "compound" THEN Walk[0][rule]
    ELSE {rule.rules[i].segmentId : i \in {j \in DOMAIN rule.rules :
                                              rule.rules[j].type = "segment_membership"}}

ExtractSegmentRefs(rule) == Walk[MaxDepth][rule]

-----------------------------------------------------------------------------
(* PostgreSQL.  db = [rows, txs, snapshots, now]: the row of each customer,  *)
(* its transactions, the latest snapshot of each segment, and NOW().         *)

\* Comparison of two values that are not NULL.
Compares(x, operator, y) ==
    CASE operator = "=" -> x = y
      [] operator = "!=" -> x # y
      [] operator = "<" -> x < y
      [] operator = "<=" -> x <= y
      [] operator = ">" -> x > y
      [] operator = ">=" -> x >= y

\* Mutant of InWindow: transactions dated in the future do not count yet.
InPastWindow(tx, days, now) == tx.at >= now - days /\ tx.at <= now

\* occurred_at >= NOW() - windowDays: no upper end.
InWindow(tx, days, now) == tx.at >= now - days

\* The sum of the amounts of some of the transactions, 0 for none.
SumOf(txs, rows) ==
    LET sum[i \in 0..Len(txs)] ==
          IF i = 0 THEN 0 ELSE sum[i - 1] + IF i \in rows THEN txs[i].amount ELSE 0
    IN sum[Len(txs)]

\* COUNT(*) or SUM(amount) over the window.
Aggregate(aggregate, txs, days, now) ==
    LET rows == {i \in DOMAIN txs : InWindow(txs[i], days, now)} IN
    IF aggregate = "count" THEN Cardinality(rows) ELSE SumOf(txs, rows)

\* c.column = ANY(list), NOT (c.column = ANY(list)), c.column operator value.
ColumnTruth(x, operator, value) ==
    IF x = Null /\ (operator \in {"in", "not_in"} => value # {}) THEN "null"
    ELSE IF CASE operator = "in" -> x \in value
              [] operator = "not_in" -> x \notin value
              [] OTHER -> Compares(x, operator, value)
         THEN "true" ELSE "false"

\* AND and OR in three-valued logic.
Connected(op, truths) ==
    LET strong == IF op = "and" THEN "false" ELSE "true"
        weak == IF op = "and" THEN "true" ELSE "false" IN
    IF strong \in truths THEN strong ELSE IF "null" \in truths THEN "null" ELSE weak

SqlTruth(sql, params, c, db, truth) ==
    CASE sql.type = "window" ->
           IF Compares(Aggregate(sql.aggregate, db.txs[c], params[sql.days], db.now),
                       sql.operator, params[sql.value]) THEN "true" ELSE "false"
      [] sql.type = "column" -> ColumnTruth(db.rows[c][sql.column], sql.operator, params[sql.value])
      [] sql.type = "member" -> IF c \in db.snapshots[params[sql.segment]] THEN "true" ELSE "false"
      [] sql.type = "compound" -> Connected(sql.op, {truth[sql.rules[i]] : i \in DOMAIN sql.rules})

TruthOf(params, c, db) ==
    LET truth[depth \in Nat] == [sql \in SqlOf[depth] |-> SqlTruth(sql, params, c, db, truth[depth - 1])]
    IN truth

\* SELECT c.id FROM customers c WHERE predicate.
Select(predicate, db) ==
    {c \in DOMAIN db.rows : TruthOf(predicate.params, c, db)[MaxDepth][predicate.sql] = "true"}

\* The segments whose snapshots a predicate reads.
SnapshotsRead(predicate) ==
    {predicate.params[sql.segment] :
        sql \in {leaf \in LeavesOf(SqlLeaves)[MaxDepth][predicate.sql] : leaf.type = "member"}}

-----------------------------------------------------------------------------
(* What a rule means, without SQL: the reference definition. *)

Leaves(rule) == LeavesOf(RuleLeaves)[MaxDepth][rule]

LeafHolds(leaf, c, db) ==
    LET recent == {i \in DOMAIN db.txs[c] : db.now - db.txs[c][i].at <= leaf.windowDays} IN
    CASE leaf.type = "date_window_count" -> Compares(Cardinality(recent), leaf.operator, leaf.value)
      [] leaf.type = "sum_threshold" -> Compares(SumOf(db.txs[c], recent), leaf.operator, leaf.value)
      [] leaf.type = "field_comparison" ->
           LET x == db.rows[c][CustomerFieldMap[leaf.field]] IN
           CASE leaf.operator = "in" -> x # Null /\ x \in leaf.values
             [] leaf.operator = "not_in" -> (x # Null \/ leaf.values = {}) /\ x \notin leaf.values
             [] OTHER -> x # Null /\ Compares(x, leaf.operator, leaf.value)
      [] leaf.type = "segment_membership" -> c \in db.snapshots[leaf.segmentId]

\* The customers for whom a rule holds, given those of its sub-rules.
MembersIn(rule, db, below) ==
    IF rule.type # "compound" THEN {c \in DOMAIN db.rows : LeafHolds(rule, c, db)}
    ELSE IF rule.op = "and" THEN {c \in DOMAIN db.rows : \A i \in DOMAIN rule.rules : c \in below[rule.rules[i]]}
         ELSE UNION {below[rule.rules[i]] : i \in DOMAIN rule.rules}

MembersOf(db) ==
    LET members[depth \in Nat] == [rule \in RuleOf[depth] |-> MembersIn(rule, db, members[depth - 1])]
    IN members

Members(rule, db) == MembersOf(db)[MaxDepth][rule]

Earlier(at, days) == IF at = Null THEN Null ELSE at - days

\* Mutant of Shifted: only last_tx_at is shifted.
ShiftedCustomers(db, days) ==
    [db EXCEPT !.rows = [c \in DOMAIN db.rows |->
        [db.rows[c] EXCEPT !.last_tx_at = Earlier(db.rows[c].last_tx_at, days)]]]

\* SimulationService.advanceTime: every transaction, and last_tx_at, days earlier.
Shifted(db, days) ==
    [db EXCEPT
        !.txs = [c \in DOMAIN db.txs |-> [i \in DOMAIN db.txs[c] |->
            [at |-> db.txs[c][i].at - days, amount |-> db.txs[c][i].amount]]],
        !.rows = [c \in DOMAIN db.rows |->
            [db.rows[c] EXCEPT !.last_tx_at = Earlier(db.rows[c].last_tx_at, days)]]]
=============================================================================
