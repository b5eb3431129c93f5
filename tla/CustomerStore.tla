--------------------------- MODULE CustomerStore ---------------------------
(***************************************************************************)
(* apps/api/src/simulation/: the requests that change customer data.       *)
(*                                                                         *)
(* A transaction or a profile patch loads the customer, changes the loaded *)
(* entity and saves it; a bulk import inserts its rows chunk by chunk, each *)
(* in a database transaction of its own, and then adds the sums to the     *)
(* customers one row after the other in a last one; advancing the time is  *)
(* two UPDATE statements in one transaction.  PostgreSQL runs at READ      *)
(* COMMITTED: a statement sees what is committed when it starts, a row     *)
(* that is updated stays locked to the end of the transaction, and one of  *)
(* the transactions that wait for each other in a circle is aborted.       *)
(* Times are whole days, today is day 0.                                   *)
(***************************************************************************)
EXTENDS Integers, FiniteSetsExt, SequencesExt

CONSTANTS
    Customers,
    Requests,         \* bound: the requests sent
    Jobs,             \* what a request may ask for (see MCCustomerData)
    Keys,             \* fields of the profile
    ChunkSize,        \* BULK_INSERT_CHUNK
    None,             \* no job, no time, no value
    MaxFaults         \* bound: failing statements and crashes of the api

ASSUME ChunkAssumption == ChunkSize \in Nat \ {0}

\* What the decorators of the request bodies (dto/) let through; None is no job, time or key.
ASSUME JobAssumption ==
    /\ IsFiniteSet(Customers) /\ None \notin Jobs \union Keys /\ None \notin Int
    /\ \A j \in Jobs :
        \/ j.kind = "transaction" /\ j.amount \in Nat /\ j.at \in Int
        \/ j.kind = "profile" /\ j.key \in Keys \union {None}
        \/ j.kind = "advance" /\ j.days \in Nat
        \/ /\ j.kind = "bulk" /\ j.count \in Nat /\ j.amount \in Nat
           /\ j.order \in Seq(Range(j.order)) /\ j.order # <<>>
        \/ j.kind = "change"

VARIABLES
    customers,      \* customers[c]: the committed row
    transactions,   \* the committed rows of the table transactions, by row id
    job, pc,        \* job[r], pc[r]: what request r asks for, where its handler is
    entity,         \* entity[r]: the Customer entity in the memory of the handler
    dirty,          \* dirty[r]: the columns save() is going to write
    todo,           \* todo[r]: the customers whose rows are still to be updated, in order
    staged,         \* staged[r]: the customer rows its transaction has updated, and locked
    seen,           \* seen[r]: the transaction rows its first UPDATE shifts
    updated,        \* updated[r]: the customers whose rows its commit changed
    announced,      \* announced[r]: the customers it has sent customer.changed for
    stale,          \* history: a save went by a row that another commit had changed since the load
    faults

vars == <<customers, transactions, job, pc, entity, dirty, todo, staged, seen,
          updated, announced, stale, faults>>

-----------------------------------------------------------------------------

Columns == {"balance", "txCount", "lastTxAt", "profile"}
NewCustomer == [balance |-> 0, txCount |-> 0, lastTxAt |-> None,
                profile |-> [k \in Keys |-> None]]
Stages == {"unsent", "loaded", "inserting", "shifting", "shifted", "writing",
           "committed", "answered", "silent", "failed"}
Active(r) == pc[r] \notin {"unsent", "answered", "silent", "failed"}
Ids == Requests \X Nat

TypeOK ==
    /\ DOMAIN customers = Customers
    /\ \A c \in Customers :
        /\ DOMAIN customers[c] = Columns
        /\ customers[c].balance \in Nat /\ customers[c].txCount \in Nat
        /\ customers[c].lastTxAt \in Int \union {None}
    /\ \A id \in DOMAIN transactions :
        id \in Ids /\ transactions[id].customer \in Customers
    /\ pc \in [Requests -> Stages]
    /\ \A r \in Requests :
        /\ job[r] \in Jobs \union {None} /\ (job[r] = None <=> pc[r] = "unsent")
        /\ dirty[r] \subseteq Columns /\ DOMAIN staged[r] \subseteq Customers
        /\ Range(todo[r]) \intersect DOMAIN staged[r] = {}
    /\ \A q, r \in Requests : q # r => DOMAIN staged[q] \intersect DOMAIN staged[r] = {}

-----------------------------------------------------------------------------
(* What a job asks for *)

\* The customers a request names.
Named(j) ==
    CASE j.kind = "bulk" -> Range(j.order)
      [] j.kind = "advance" -> {}
      [] OTHER -> {j.customer}

\* The checks: the customers exist, no id is given twice (find() would return fewer
\* rows than ids), a patch has a field.
Valid(j) ==
    \/ j.kind = "bulk" /\ Named(j) \subseteq Customers /\ IsInjective(j.order)
    \/ j.kind = "profile" /\ Named(j) \subseteq Customers /\ j.key # None
    \/ j.kind = "transaction" /\ Named(j) \subseteq Customers
    \/ j.kind \in {"advance", "change"}

\* Mutant of Dealt: an aggregate for each row, not for each customer.
DealtRows(j) == [i \in 1..j.count |-> j.order[((i - 1) % Len(j.order)) + 1]]

\* The customers of the first count rows: row i goes to order[i % length].
Dealt(j) == SubSeq(j.order, 1, Min({j.count, Len(j.order)}))

\* The rows a bulk import deals to customer c.
Share(j, c) == Cardinality({i \in 1..j.count : j.order[((i - 1) % Len(j.order)) + 1] = c})

\* Row number i of a bulk import.
BulkRow(j, i) == [customer |-> j.order[((i - 1) % Len(j.order)) + 1],
                  amount |-> j.amount, at |-> 0]

Later(t, u) == IF t = None THEN u ELSE IF u < t THEN t ELSE u
Shift(t, days) == IF t = None THEN None ELSE t - days

\* The entity after the handler's assignments.
Modified(j, row) ==
    IF j.kind = "transaction"
    THEN [row EXCEPT !.balance = @ + j.amount, !.txCount = @ + 1, !.lastTxAt = Later(@, j.at)]
    ELSE [row EXCEPT !.profile[j.key] = j.entry]

\* Mutant of Aggregated: the sums are set, not added.
Overwritten(j, c, row) ==
    [row EXCEPT !.balance = Share(j, c) * j.amount, !.txCount = Share(j, c),
                !.lastTxAt = Later(@, 0)]

\* UPDATE customers SET balance = balance + $2, tx_count = tx_count + $3, ...
Aggregated(j, c, row) ==
    [row EXCEPT !.balance = @ + Share(j, c) * j.amount, !.txCount = @ + Share(j, c),
                !.lastTxAt = Later(@, 0)]

-----------------------------------------------------------------------------
(* Transactions: one customer, or the profile of one *)

\* findOne: the handler holds a copy of the committed row.
Load(r, j) ==
    /\ pc[r] = "unsent" /\ j.kind \in {"transaction", "profile"} /\ Valid(j)
    /\ job' = [job EXCEPT ![r] = j]
    /\ pc' = [pc EXCEPT ![r] = "loaded"]
    /\ entity' = [entity EXCEPT ![r] = customers[j.customer]]
    /\ UNCHANGED <<customers, transactions, dirty, todo, staged, seen, updated, announced, stale, faults>>

\* The entity is changed and saved: save() reads the row again and is going to
\* write the columns in which the changed entity differs from it.
Save(r) ==
    LET new == Modified(job[r], entity[r])
        row == customers[job[r].customer]
        differing == {col \in Columns : new[col] # row[col]} IN
    /\ pc[r] = "loaded"
    /\ dirty' = [dirty EXCEPT ![r] = differing]
    /\ todo' = [todo EXCEPT ![r] = IF differing = {} THEN <<>> ELSE <<job[r].customer>>]
    /\ pc' = [pc EXCEPT ![r] = "writing"]
    /\ stale' = (stale \/ row # entity[r])
    /\ UNCHANGED <<customers, transactions, job, entity, staged, seen, updated, announced, faults>>

-----------------------------------------------------------------------------
(* Bulk imports *)

\* resolveCustomerIds returns the ids.
BeginBulk(r, j) ==
    /\ pc[r] = "unsent" /\ j.kind = "bulk" /\ Valid(j)
    /\ job' = [job EXCEPT ![r] = j]
    /\ pc' = [pc EXCEPT ![r] = "inserting"]
    /\ UNCHANGED <<customers, transactions, entity, dirty, todo, staged, seen, updated, announced, stale, faults>>

\* Mutant of Inserted: the last chunk, which is smaller, is not counted.
InsertedWhole(r) ==
    (Cardinality({id \in DOMAIN transactions : id[1] = r}) \div ChunkSize) * ChunkSize

\* The rows inserted so far.
Inserted(r) == Cardinality({id \in DOMAIN transactions : id[1] = r})

\* One chunk of rows: a database transaction of its own.
InsertChunk(r) ==
    LET from == Inserted(r) + 1
        to == Min({Inserted(r) + ChunkSize, job[r].count}) IN
    /\ pc[r] = "inserting" /\ from <= job[r].count
    /\ transactions' = [id \in DOMAIN transactions \union {r} \X (from..to) |->
         IF id \in DOMAIN transactions THEN transactions[id] ELSE BulkRow(job[r], id[2])]
    /\ UNCHANGED <<customers, job, pc, entity, dirty, todo, staged, seen, updated, announced, stale, faults>>

\* All chunks are in: the transaction of applyAggregates begins.
BeginAggregates(r) ==
    /\ pc[r] = "inserting" /\ Inserted(r) = job[r].count
    /\ todo' = [todo EXCEPT ![r] = Dealt(job[r])]
    /\ pc' = [pc EXCEPT ![r] = "writing"]
    /\ UNCHANGED <<customers, transactions, job, entity, dirty, staged, seen, updated, announced, stale, faults>>

-----------------------------------------------------------------------------
(* Advancing the time *)

\* UPDATE transactions starts: it is going to shift the rows it sees.
BeginAdvance(r, j) ==
    /\ pc[r] = "unsent" /\ j.kind = "advance"
    /\ job' = [job EXCEPT ![r] = j]
    /\ pc' = [pc EXCEPT ![r] = "shifting"]
    /\ seen' = [seen EXCEPT ![r] = DOMAIN transactions]
    /\ UNCHANGED <<customers, transactions, entity, dirty, todo, staged, updated, announced, stale, faults>>

\* The rows it sees are not locked by another request that shifts them.
ShiftTransactions(r) ==
    /\ pc[r] = "shifting"
    /\ \A q \in Requests \ {r} : pc[q] \in {"shifted", "writing"} => seen[q] \intersect seen[r] = {}
    /\ pc' = [pc EXCEPT ![r] = "shifted"]
    /\ UNCHANGED <<customers, transactions, job, entity, dirty, todo, staged, seen, updated, announced, stale, faults>>

\* UPDATE customers ... WHERE last_tx_at IS NOT NULL starts: the rows it sees, in
\* the order of its scan.
ShiftCustomers(r) ==
    /\ pc[r] = "shifted"
    /\ \E order \in SetToSeqs({c \in Customers : customers[c].lastTxAt # None}) :
        todo' = [todo EXCEPT ![r] = order]
    /\ pc' = [pc EXCEPT ![r] = "writing"]
    /\ UNCHANGED <<customers, transactions, job, entity, dirty, staged, seen, updated, announced, stale, faults>>

-----------------------------------------------------------------------------
(* Row locks, the commit and the events *)

\* Another transaction has updated the row and is still open.
Locked(c) == \E q \in Requests : c \in DOMAIN staged[q]

\* What the UPDATE of request r makes of the row of c.
NewRow(r, c) ==
    LET j == job[r]  row == customers[c] IN
    CASE j.kind = "bulk" -> Aggregated(j, c, row)
      [] j.kind = "advance" -> [row EXCEPT !.lastTxAt = Shift(@, j.days)]
      [] OTHER -> [col \in Columns |-> IF col \in dirty[r] THEN Modified(j, entity[r])[col] ELSE row[col]]

\* The next row of the UPDATE, or of the loop of UPDATEs, is free.
UpdateRow(r) ==
    LET c == Head(todo[r]) IN
    /\ pc[r] = "writing" /\ todo[r] # <<>> /\ ~Locked(c)
    /\ staged' = [staged EXCEPT ![r] =
         [x \in DOMAIN @ \union {c} |-> IF x = c THEN NewRow(r, c) ELSE @[x]]]
    /\ todo' = [todo EXCEPT ![r] = Tail(@)]
    /\ stale' = (stale \/ (job[r].kind \in {"transaction", "profile"} /\ customers[c] # entity[r]))
    /\ UNCHANGED <<customers, transactions, job, pc, entity, dirty, seen, updated, announced, faults>>

\* The transaction rows after the commit of r.
Recorded(r) ==
    LET j == job[r] IN
    CASE j.kind = "transaction" ->
           [id \in DOMAIN transactions \union {<<r, 1>>} |-> IF id = <<r, 1>>
                THEN [customer |-> j.customer, amount |-> j.amount, at |-> j.at] ELSE transactions[id]]
      [] j.kind = "advance" ->
           [id \in DOMAIN transactions |-> IF id \in seen[r]
                THEN [transactions[id] EXCEPT !.at = Shift(@, j.days)] ELSE transactions[id]]
      [] OTHER -> transactions

Commit(r) ==
    /\ pc[r] = "writing" /\ todo[r] = <<>>
    /\ customers' = [c \in Customers |-> IF c \in DOMAIN staged[r] THEN staged[r][c] ELSE customers[c]]
    /\ transactions' = Recorded(r)
    /\ staged' = [staged EXCEPT ![r] = <<>>]
    /\ pc' = [pc EXCEPT ![r] = "committed"]
    /\ updated' = [updated EXCEPT ![r] = DOMAIN staged[r]]
    /\ UNCHANGED <<job, entity, dirty, todo, seen, announced, stale, faults>>

\* Mutant of Concerned: every customer of the list, dealt a row or not.
ConcernedByName(r) == Named(job[r])

\* The customers to announce: those with an aggregate, those the second UPDATE of
\* advanceTime returned, or the one of the request.
Concerned(r) ==
    CASE job[r].kind = "bulk" -> Range(Dealt(job[r]))
      [] job[r].kind = "advance" -> updated[r]
      [] OTHER -> Named(job[r])

\* The events, after the commit: one for each customer concerned.
Publish(r) ==
    /\ pc[r] = "committed"
    /\ announced' = [announced EXCEPT ![r] = Concerned(r)]
    /\ pc' = [pc EXCEPT ![r] = "answered"]
    /\ UNCHANGED <<customers, transactions, job, entity, dirty, todo, staged, seen, updated, stale, faults>>

\* POST /simulate/change: an event and nothing else.
EmitOnly(r, j) ==
    /\ pc[r] = "unsent" /\ j.kind = "change"
    /\ job' = [job EXCEPT ![r] = j]
    /\ pc' = [pc EXCEPT ![r] = "committed"]
    /\ UNCHANGED <<customers, transactions, entity, dirty, todo, staged, seen, updated, announced, stale, faults>>

\* NotFoundException, BadRequestException.
Reject(r, j) ==
    /\ pc[r] = "unsent" /\ ~Valid(j)
    /\ job' = [job EXCEPT ![r] = j]
    /\ pc' = [pc EXCEPT ![r] = "failed"]
    /\ UNCHANGED <<customers, transactions, entity, dirty, todo, staged, seen, updated, announced, stale, faults>>

-----------------------------------------------------------------------------
(* Failures *)

\* The handlers in rs end: open transactions roll back, what is committed stays and
\* is never announced.
Abandoned(rs) ==
    /\ pc' = [r \in Requests |-> IF r \notin rs THEN pc[r]
                ELSE IF pc[r] = "committed" THEN "silent" ELSE "failed"]
    /\ staged' = [r \in Requests |-> IF r \in rs THEN <<>> ELSE staged[r]]
    /\ todo' = [r \in Requests |-> IF r \in rs THEN <<>> ELSE todo[r]]
    /\ UNCHANGED <<customers, transactions, job, entity, dirty, seen, updated, announced, stale>>

\* A statement fails, or the connection is lost before the commit.
Fail(r) ==
    /\ faults < MaxFaults /\ faults' = faults + 1
    /\ Active(r) /\ pc[r] # "committed"
    /\ Abandoned({r})

\* The api process stops, with every request in it.
Crash ==
    /\ faults < MaxFaults /\ faults' = faults + 1
    /\ Abandoned({r \in Requests : Active(r)})

\* Request r waits for a row that q has locked.
WaitsFor(r, q) ==
    pc[r] = "writing" /\ todo[r] # <<>> /\ Head(todo[r]) \in DOMAIN staged[q]

\* The deadlock detector: r is on a circle of waiting transactions.
Detected(r) ==
    \E circle \in SUBSET Requests :
        /\ r \in circle
        /\ \A a \in circle : (\E b \in circle : WaitsFor(a, b)) /\ (\E b \in circle : WaitsFor(b, a))

DeadlockAbort(r) ==
    /\ Detected(r) /\ Abandoned({r})
    /\ UNCHANGED faults

-----------------------------------------------------------------------------
(* The specification *)

Init ==
    /\ customers = [c \in Customers |-> NewCustomer]
    /\ transactions = <<>>
    /\ job = [r \in Requests |-> None]
    /\ pc = [r \in Requests |-> "unsent"]
    /\ entity = [r \in Requests |-> NewCustomer]
    /\ dirty = [r \in Requests |-> {}]
    /\ todo = [r \in Requests |-> <<>>]
    /\ staged = [r \in Requests |-> <<>>]
    /\ seen = [r \in Requests |-> {}]
    /\ updated = [r \in Requests |-> {}]
    /\ announced = [r \in Requests |-> {}]
    /\ stale = FALSE /\ faults = 0

Handle(r) ==
    \/ Save(r) \/ InsertChunk(r) \/ BeginAggregates(r) \/ ShiftTransactions(r)
    \/ ShiftCustomers(r) \/ UpdateRow(r) \/ Commit(r) \/ Publish(r) \/ DeadlockAbort(r)

Receive(r, j) ==
    Load(r, j) \/ BeginBulk(r, j) \/ BeginAdvance(r, j) \/ EmitOnly(r, j) \/ Reject(r, j)

Next ==
    \/ \E r \in Requests, j \in Jobs : Receive(r, j)
    \/ \E r \in Requests : Handle(r) \/ Fail(r)
    \/ Crash

Spec == Init /\ [][Next]_vars

\* While some request can go on one does; the database aborts what waits in a circle.
Fairness == WF_vars(\E r \in Requests : Handle(r))

-----------------------------------------------------------------------------
(* Properties *)

Finished == {r \in Requests : pc[r] \in {"committed", "answered", "silent"}}

RowsOf(c, rs) == {id \in DOMAIN transactions : transactions[id].customer = c /\ id[1] \in rs}
SumIn(rows, ids) == MapThenSumSet(LAMBDA id : rows[id].amount, ids)

\* tx_count and balance of a customer are the number and the sum of the transactions
\* that finished requests have recorded for it (recordTransaction, applyAggregates;
\* README.md:199 says so of every transaction).
CountedRows ==
    \A c \in Customers :
        /\ customers[c].txCount = Cardinality(RowsOf(c, Finished))
        /\ customers[c].balance = SumIn(transactions, RowsOf(c, Finished))

\* The finished patches of a field of a profile.
Patches(c, k) ==
    {r \in Finished : job[r].kind = "profile" /\ job[r].customer = c /\ job[r].key = k}

\* A field that has been patched has the value of one of the patches.
PatchesKept ==
    \A c \in Customers, k \in Keys :
        \/ \E r \in Patches(c, k) : customers[c].profile[k] = job[r].entry
        \/ Patches(c, k) = {} /\ customers[c].profile[k] = None

\* The only way to lose what a request has written is a save by a row loaded before: as
\* long as that has not happened, counters agree with the transactions, and fields with
\* their patches, however imports, saves, advances of the time, failures and crashes
\* interleave (recordTransaction, updateProfile, applyAggregates).
OnlyStaleSavesLose == ~stale => CountedRows /\ PatchesKept

\* What an answered request has changed in the table customers it has announced, and
\* a customer whose rows it did not change is announced only by /simulate/change and
\* by requests for that one customer.
EventsMatchData ==
    \A r \in Requests : pc[r] = "answered" =>
        /\ updated[r] \subseteq announced[r]
        /\ job[r].kind \in {"bulk", "advance"} => announced[r] \subseteq updated[r]

\* Requests do not wait for each other for ever: a circle of row locks is broken, and when
\* no more requests come all are answered or fail (applyAggregates locks the customers in
\* the order of the request).
RequestsEnd ==
    (\E r \in Requests : Active(r)) ~> (\A r \in Requests : ~Active(r))
=============================================================================
