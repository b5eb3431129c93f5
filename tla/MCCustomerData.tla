--------------------------- MODULE MCCustomerData ---------------------------
(***************************************************************************)
(* CustomerStore, RuleEngine and Seed for TLC: the requests that change    *)
(* customer data, the rules that read it and the script that fills it.     *)
(* They share no variable, so one run checks them side by side: a          *)
(* behaviour follows the part it starts with, the others stay as they are. *)
(***************************************************************************)
EXTENDS CustomerStore, RuleEngine

CONSTANTS c1, c2, ghost, k1, parent, other, ann, bob

-----------------------------------------------------------------------------
(* Requests *)

Transaction(c, amount, at) == [kind |-> "transaction", customer |-> c, amount |-> amount, at |-> at]
Patch(c, k) == [kind |-> "profile", customer |-> c, key |-> k, entry |-> 1]
Advance(days) == [kind |-> "advance", days |-> days]
Bulk(order, count) == [kind |-> "bulk", order |-> order, count |-> count, amount |-> 2]
Change(c) == [kind |-> "change", customer |-> c]

\* Every kind of request, the rejected ones included: imports in both orders of the
\* customers, one in two chunks, one with fewer rows than customers.
AllJobs ==
    {Transaction(c1, 1, 0), Patch(c1, k1), Advance(1),
     Bulk(<<c1, c2>>, 3), Bulk(<<c2, c1>>, 2), Bulk(<<c1, c2>>, 1), Bulk(<<c1, ghost>>, 2), Change(ghost)}

TransactionJobs == {Transaction(c1, 1, 0)}

-----------------------------------------------------------------------------
(* Rules of every type and operator, nested, and some that are rejected *)

Count(op, days, n) == [type |-> "date_window_count", field |-> "transactions", windowDays |-> days,
                       operator |-> op, value |-> n]
Sum(op, days, n) == [type |-> "sum_threshold", field |-> "transactions.amount", windowDays |-> days,
                     operator |-> op, value |-> n]
Field(f, op, v) == [type |-> "field_comparison", field |-> f, operator |-> op, list |-> FALSE, value |-> v]
Listed(f, op, vs) == [type |-> "field_comparison", field |-> f, operator |-> op, list |-> TRUE, values |-> vs]
Member(s) == [type |-> "segment_membership", segmentId |-> s]
Compound(op, rules) == [type |-> "compound", op |-> op, rules |-> rules]

WindowRules == {Count(op, 1, 1) : op \in ScalarOperators} \union {Sum(op, 2, 2) : op \in ScalarOperators}

AcceptedRules ==
    WindowRules \union
    {Field("txCount", ">=", 1), Field("balance", "<", 2), Field("name", "!=", ann),
     Listed("name", "in", {ann}), Listed("email", "not_in", {bob}), Listed("name", "not_in", {}),
     Member(parent),
     Compound("and", <<Member(parent), Compound("or", <<Member(other), Count(">=", 1, 1)>>)>>),
     Compound("or", <<Field("name", "=", bob), Compound("and", <<Sum(">", 1, 1), Member(other)>>)>>),
     Compound("and", <<Count("=", 1, 0), Field("tx_count", ">=", 1)>>),
     Compound("and", <<Sum("<", 2, 2), Count("<=", 1, 1), Listed("name", "not_in", {bob})>>)}

RejectedRules ==
    {[Count(">=", 1, 1) EXCEPT !.field = "events"], Count("in", 1, 1), Sum("not_in", 1, 1),
     Field("profile", "=", ann), Field("name", "in", ann), Listed("name", "=", {ann}),
     Compound("or", <<>>), Compound("and", <<Member(parent), Compound("or", <<>>)>>)}

AllRules ==
    AcceptedRules \union RejectedRules \union {Field("last_tx_at", "<", -1), Field("lastTxAt", ">=", -1)}

StartRow(name, email) == [balance |-> 0, tx_count |-> 0, last_tx_at |-> Null, name |-> name, email |-> email]

StartDatabases ==
    {[rows |-> (c1 :> StartRow(ann, Null)) @@ (c2 :> StartRow(Null, bob)),
      txs |-> (c1 :> <<>>) @@ (c2 :> <<>>),
      snapshots |-> [s \in Segments |-> IF s = other THEN {c1} ELSE {}],
      now |-> 0]}

\* Today, two days ago, tomorrow.
SomeTransactions == {[at |-> 0, amount |-> 1], [at |-> -2, amount |-> 2], [at |-> 1, amount |-> 3]}

-----------------------------------------------------------------------------
(* The three parts *)

VARIABLES part, at, seedDb, created, due, used

seedVars == <<at, seedDb, created, due, used>>

Script == INSTANCE Seed WITH db <- seedDb, MaxCrashes <- 2, MaxChanges <- 2

\* Only the part of the rules needs every rule.
DataInit ==
    /\ part \in {"store", "rules", "seed"}
    /\ Init /\ EngineInit /\ Script!Init
    /\ part # "rules" => rule = Member(parent)

StoreNext == part = "store" /\ Next /\ UNCHANGED <<part, engineVars, seedVars>>
RulesNext == part = "rules" /\ EngineNext /\ UNCHANGED <<part, vars, seedVars>>
SeedNext == part = "seed" /\ Script!Next /\ UNCHANGED <<part, vars, engineVars>>

DataSpec ==
    /\ DataInit
    /\ [][StoreNext \/ RulesNext \/ SeedNext]_<<part, vars, engineVars, seedVars>>
    /\ Fairness

-----------------------------------------------------------------------------
(* The properties of the instance *)

\* The seed script leaves the snapshots the README promises, whatever failed before.
SeedMatchesTable == Script!SeedMatchesTable

\* One pass settles three levels of segments.
OnePassSettlesAll == Script!OnePassSettlesAll
=============================================================================
