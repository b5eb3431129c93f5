-------------------------------- MODULE Seed --------------------------------
(***************************************************************************)
(* apps/api/scripts/seed.ts: the script that fills the database with the   *)
(* demonstration data, and then the scenario of the README: purchases and  *)
(* 31 days of advanced time, each followed by an evaluation pass.  The     *)
(* script may fail at any statement and be run again.                      *)
(***************************************************************************)
EXTENDS Rules, FiniteSetsExt, SequencesExt

CONSTANTS
    MaxCrashes,    \* bound: runs of the script that fail
    MaxChanges     \* bound: purchases and advances of the time after it

VARIABLES
    at,        \* the next step of the script, 0 when it does not run, Len(Steps) + 1 after it
    db,        \* rows, txs, snapshots, now, as in Rules
    created,   \* the segments created so far, in order
    due,       \* customer.changed events have been consumed since the last pass
    used

vars == <<at, db, created, due, used>>

-----------------------------------------------------------------------------
(* The fixtures: balance, and <<daysAgo, amount>> of the transactions *)

SEED_CUSTOMERS ==
    [alice |-> [balance |-> 6500,  txHistory |-> <<<<2, 300>>, <<10, 400>>, <<25, 200>>>>],
     bob   |-> [balance |-> 250,   txHistory |-> <<<<10, 250>>>>],
     carol |-> [balance |-> 8200,  txHistory |-> <<<<1, 2000>>, <<5, 3500>>, <<20, 1500>>>>],
     dave  |-> [balance |-> 0,     txHistory |-> <<>>],
     eve   |-> [balance |-> 5500,  txHistory |-> <<<<5, 1200>>, <<15, 2000>>, <<30, 1500>>>>],
     frank |-> [balance |-> 120,   txHistory |-> <<<<95, 3000>>, <<120, 2500>>>>],
     grace |-> [balance |-> 12000, txHistory |-> <<<<0, 5000>>, <<15, 3500>>, <<45, 2000>>>>],
     heidi |-> [balance |-> 750,   txHistory |-> <<<<40, 500>>>>],
     ivan  |-> [balance |-> 3200,  txHistory |-> <<<<7, 800>>, <<18, 400>>, <<50, 300>>>>],
     judy  |-> [balance |-> 15000, txHistory |-> <<<<3, 4000>>, <<10, 3500>>, <<28, 2500>>, <<50, 2000>>>>]]

People == DOMAIN SEED_CUSTOMERS

Member(s) == [type |-> "segment_membership", segmentId |-> s]
Above(field, op, n) ==
    [type |-> "field_comparison", field |-> field, operator |-> op, list |-> FALSE, value |-> n]
Window(type, days, op, n) ==
    [type |-> type, field |-> "transactions", windowDays |-> days, operator |-> op, value |-> n]
All(rules) == [type |-> "compound", op |-> "and", rules |-> rules]

RulesOf ==
    [active |-> Window("date_window_count", 30, ">=", 1),
     vip |-> Window("sum_threshold", 60, ">", 5000),
     risk |-> All(<<Window("date_window_count", 90, "=", 0), Above("tx_count", ">=", 1)>>),
     vipAndActive |-> All(<<Member("vip"), Member("active")>>),
     topTier |-> All(<<Member("vipAndActive"), Above("balance", ">", 10000)>>),
     marchCampaign |-> Above("tx_count", ">=", 1)]

Static == {"marchCampaign"}

\* The order of the calls of segmentsService.create.
CreationOrder == <<"active", "vip", "risk", "vipAndActive", "topTier", "marchCampaign">>

\* Mutant of topoOrder: a child before its parent.
topoOrderSwapped == <<"active", "vip", "risk", "topTier", "vipAndActive", "marchCampaign">>

\* The order of the first evaluations.
topoOrder == <<"active", "vip", "risk", "vipAndActive", "topTier", "marchCampaign">>

Steps == <<"truncate", "customers", "transactions", "backfill">>
         \o [i \in 1..6 |-> "create"] \o [i \in 1..6 |-> "refresh"]

-----------------------------------------------------------------------------
(* The steps *)

NoRows == [rows |-> <<>>, txs |-> <<>>, snapshots |-> [s \in DOMAIN RulesOf |-> {}], now |-> 0]

\* TRUNCATE TABLE ... CASCADE: nothing of an earlier run is left.
Truncated(old) == NoRows

\* customerRepo.save: no transactions counted yet.
InsertCustomers ==
    [db EXCEPT !.rows = [c \in People |-> [balance |-> SEED_CUSTOMERS[c].balance, tx_count |-> 0,
                                           last_tx_at |-> Null, name |-> c, email |-> c]],
               !.txs = [c \in People |-> IF c \in DOMAIN @ THEN @[c] ELSE <<>>]]

\* txRepo.save: every transaction of the fixtures, daysAgo days before today.
InsertTransactions ==
    [db EXCEPT !.txs = [c \in People |-> @[c] \o
        [i \in DOMAIN SEED_CUSTOMERS[c].txHistory |->
            [at |-> db.now - SEED_CUSTOMERS[c].txHistory[i][1],
             amount |-> SEED_CUSTOMERS[c].txHistory[i][2]]]]]

\* UPDATE customers from the transactions of each, for those who have any.
Backfill ==
    [db EXCEPT !.rows = [c \in People |-> IF db.txs[c] = <<>> THEN @[c] ELSE
        [@[c] EXCEPT !.tx_count = Len(db.txs[c]),
                     !.last_tx_at = Max({db.txs[c][i].at : i \in DOMAIN db.txs[c]})]]]

\* evaluator.refresh(segment): a snapshot of the customers its rule selects.
Evaluated(d, s) == [d EXCEPT !.snapshots[s] = Select(CompileWhereClause(RulesOf[s]), d)]

\* The step of the script that is due.
Execute(new, segments) ==
    /\ db' = new /\ created' = segments
    /\ at' = at + 1
    /\ UNCHANGED <<due, used>>

Truncate == at \in DOMAIN Steps /\ Steps[at] = "truncate" /\ Execute(Truncated(db), <<>>)
SaveCustomers == at \in DOMAIN Steps /\ Steps[at] = "customers" /\ Execute(InsertCustomers, created)
SaveTransactions == at \in DOMAIN Steps /\ Steps[at] = "transactions" /\ Execute(InsertTransactions, created)
Backfilling == at \in DOMAIN Steps /\ Steps[at] = "backfill" /\ Execute(Backfill, created)

\* segmentsService.create, with the ids of the parents created before.
Create ==
    LET s == CreationOrder[at - 4] IN
    /\ at \in DOMAIN Steps /\ Steps[at] = "create"
    /\ ExtractSegmentRefs(RulesOf[s]) \subseteq Range(created)
    /\ Execute(db, Append(created, s))

Refresh ==
    /\ at \in DOMAIN Steps /\ Steps[at] = "refresh"
    /\ Execute(Evaluated(db, topoOrder[at - 10]), created)

\* A statement fails: process.exit(1), and what is done stays.
Fail ==
    /\ at \in DOMAIN Steps /\ used.crashes < MaxCrashes
    /\ at' = 0
    /\ used' = [used EXCEPT !.crashes = @ + 1]
    /\ UNCHANGED <<db, created, due>>

RunAgain ==
    /\ at = 0 /\ at' = 1
    /\ UNCHANGED <<db, created, due, used>>

-----------------------------------------------------------------------------
(* The scenario *)

Seeded == at > Len(Steps)

Change(new) ==
    /\ Seeded /\ used.changes < MaxChanges
    /\ used' = [used EXCEPT !.changes = @ + 1]
    /\ db' = new /\ due' = TRUE
    /\ UNCHANGED <<at, created>>

\* /simulate/transaction.
Buy(c, amount) ==
    Change([db EXCEPT !.txs[c] = Append(@, [at |-> db.now, amount |-> amount]),
                      !.rows[c] = [@ EXCEPT !.balance = @ + amount, !.tx_count = @ + 1,
                                            !.last_tx_at = db.now]])

\* /simulate/advance-time.
Advance(days) == Change(Shifted(db, days))

\* Mutant of PassOrder: the youngest segment first.
YoungestFirst == Reverse(created)

\* The order of the pass: created_at.
PassOrder == created

\* runEvaluationPass: the dynamic segments one after the other.
Pass ==
    /\ Seeded /\ due
    /\ db' = FoldLeft(Evaluated, db, SelectSeq(PassOrder, LAMBDA s : s \notin Static))
    /\ due' = FALSE
    /\ UNCHANGED <<at, created, used>>

Init ==
    /\ at = 1 /\ db = NoRows /\ created = <<>> /\ due = FALSE
    /\ used = [crashes |-> 0, changes |-> 0]

Next ==
    \/ Truncate \/ SaveCustomers \/ SaveTransactions \/ Backfilling \/ Create \/ Refresh
    \/ Fail \/ RunAgain \/ Pass
    \/ \E c \in People, amount \in {100, 5001} : Buy(c, amount)
    \/ Advance(31)

Spec == Init /\ [][Next]_vars

-----------------------------------------------------------------------------
(* Properties *)

Spent(c, days) ==
    MapThenSumSet(LAMBDA i : SEED_CUSTOMERS[c].txHistory[i][2],
                  {i \in DOMAIN SEED_CUSTOMERS[c].txHistory : SEED_CUSTOMERS[c].txHistory[i][1] <= days})

\* Whatever runs of the script failed before, the snapshots it leaves are those that
\* README.md:106-113 promises, read off the fixtures without rules or SQL.
SeedMatchesTable ==
    Seeded /\ used.changes = 0 =>
        LET Active == {c \in People : Spent(c, 30) > 0}
            Vip == {c \in People : Spent(c, 60) > 5000} IN
        db.snapshots = [
            active |-> Active, vip |-> Vip,
            risk |-> {c \in People : Spent(c, 1000) > 0 /\ Spent(c, 90) = 0},
            vipAndActive |-> Active \intersect Vip,
            topTier |-> {c \in Active \intersect Vip : SEED_CUSTOMERS[c].balance > 10000},
            marchCampaign |-> {c \in People : Spent(c, 1000) > 0}]

\* After a pass every dynamic segment holds its rule's members, three levels deep, and
\* the static one still those of its refresh (README.md:115-116).
OnePassSettlesAll ==
    Seeded /\ ~due =>
        /\ \A s \in DOMAIN RulesOf \ Static : db.snapshots[s] = Members(RulesOf[s], db)
        /\ db.snapshots["marchCampaign"] = {c \in People : SEED_CUSTOMERS[c].txHistory # <<>>}
=============================================================================
