# Drift-Happens, specified in TLA+

Drift-Happens keeps *segments* of customers up to date. A segment is a rule over customer data and
over other segments; when data drifts, the segments whose members change are re-evaluated, the
differences (*deltas*) are stored and announced, and segments that refer to a changed segment are
evaluated in turn. The system is two Node processes (api, worker), PostgreSQL, RabbitMQ and an
Angular client. It has no tests of its own. This directory holds TLA+ models of the code, the TLC
runs that check them on small instances, and TLAPS proofs for every instance.

- [The system](#the-system)
- [The modules](#the-modules)
- [Runs](#runs)
- [Fairness](#fairness)
- [Proofs](#proofs)
- [Findings](#findings)
- [What is not modelled](#what-is-not-modelled)
- [Plan](#plan)

Paths below are relative to `src/server` unless they begin with `src/`.

## The system

| component | state | operations | talks to |
| --- | --- | --- | --- |
| **delta calculator** `libs/shared/src/evaluation/delta-calculator.service.ts` | tables `membership_snapshots`, `delta_records`; an advisory lock per segment | `computeAndPersist`: one transaction | called by pass, cascade, refresh |
| **broadcaster** `libs/shared/src/messaging/delta-broadcaster.service.ts` | none | `broadcast`: three emits | queues `drift.delta-events`, `.ws`, `.campaign` |
| **debouncer** `apps/worker/src/processing/debouncer.service.ts` | one timer per customer, in memory | set or set again; fire; clear at shutdown | worker controller -> debouncer -> processor |
| **processor** `apps/worker/src/processing/processor.service.ts` | `isProcessing`, `hasPending` | `runEvaluationPass`, `evaluateAndPublishSegment` | calculator, broadcaster |
| **cascade** `apps/worker/src/processing/cascade.controller.ts` | unacknowledged messages (prefetch 16) | `onSegmentDelta` | queue -> processor |
| **segments** `apps/api/src/segments/segments.service.ts` | tables `segments`, `segment_dependencies` | `create`, `refresh` | calculator, broadcaster |
| **simulation** `apps/api/src/simulation/simulation.service.ts` | tables `customers`, `transactions` | record a transaction, patch a profile, advance time, bulk import, emit only | queue `drift.change-events` |
| **rule compiler** `libs/shared/src/evaluation/rule-compiler.ts`, `rule-introspection.ts` | none | rule -> SQL, rule -> references | calculator, segments |
| **gateway** `apps/api/src/realtime/` | rooms of each socket | connect, subscribe, unsubscribe, publish | queue `.ws` -> sockets |
| **campaign** `apps/worker/src/campaign/` | none (logs) | `onSegmentDelta` | queue `.campaign` |
| **seed script** `apps/api/scripts/seed.ts` | all tables | truncate, insert, create, refresh | segments, calculator |
| **segment page** `src/client/src/app/pages/segment-detail/` | member rows, highlights, log of deltas | load, refresh, apply delta, change of route | REST, socket |
| **segment directory** `src/client/src/app/services/segments-cache.service.ts`, list page, ticker | segments known, cards, items | fetch, upsert, apply delta, dismiss | REST, socket |
| **simulate page** `src/client/src/app/pages/simulate/`, `services/customers.service.ts` | busy, activity log, customers remembered | four forms | REST |

How they interact:

```
 simulation --commit--> customers/transactions
     |                        |
     +--event--> change queue +--read by every evaluation
                     |
                 debouncer --timer--> processor (one pass at a time, one more pending)
                                          |
            refresh (api) ---> computeAndPersist (one transaction per segment, locked)
                    cascade --->   |
                       ^        commit, then broadcast --> ws queue, campaign queue
                       |                  |
                       +---- delta queue -+
```

What is hard in it, and what has to hold:

* **Racing evaluations.** Pass, up to 16 cascade handlers and any number of manual refreshes, in two
  processes, evaluate the same segment. The advisory lock has to make each change appear in exactly
  one delta, snapshots and deltas have to agree, and nobody may wait for a lock for ever.
* **Order by wall clock.** The latest snapshot is the one with the largest `evaluated_at`, which is
  the clock of the process that wrote it.
* **Commit, then publish.** Deltas and change events leave after their transaction, from memory. A
  crash in between loses them.
* **Coalescing.** A request during a pass sets a flag. No request may get lost, none may repeat for
  ever.
* **Stale reads across segments.** The lock is per segment, the rule reads other segments'
  snapshots. A child evaluated too early has to be evaluated again.
* **Acknowledgements.** Change events are acknowledged when their timer is set, cascade messages
  when their children are done; a failing handler rejects its message for good.
* **The depth limit** has to stop cycles, and must not cut legal chains.
* **Static segments** may be changed by a manual refresh only.
* **Customer rows without a lock.** A transaction and a patch load, change and save an entity; a bulk
  import updates rows one by one inside a transaction. Updates may get lost, imports may wait for each
  other.
* **Three queues, three connections.** Every delta is emitted three times without confirmation; a
  crash, a handler that throws or a restart of the broker treats the three differently.
* **Rules read time and NULL.** Members leave because days go by, and SQL has a third truth value.
* **The browser sees everything twice.** Answers over HTTP and deltas over the socket overtake each
  other, while pages are kept, left and opened again.

Every such hazard, with its source line and the properties that would catch it, is in
`PROJECT.json` under `hazards`; where a property covers a hazard only in part, a note says which.

## The modules

### SegmentLedger

What an evaluation promises, without database, lock or clock. A segment has one membership.
`Record` replaces it and hands the exact difference to one evaluator, `Announce` publishes it,
`Lose` forgets it with its process.

### DeltaCalculator

`computeAndPersist` with its callers' publication, statement by statement.

| in the module | in the code |
| --- | --- |
| `snapshots` | rows of `membership_snapshots` (members and `evaluated_at`) |
| `audited` | the rows of `delta_records` of a segment, replayed in the order of their commits |
| `published` | per customer, announcements of joining minus announcements of leaving |
| `lock`, `AcquireLock`, `LocksWithout` | `pg_advisory_xact_lock`, released by commit or rollback |
| `LatestRows`, `PreviousIds` | `ORDER BY evaluated_at DESC LIMIT 1`, with `COALESCE(..., '{}')` |
| `NoOp`, `ComputeDelta` | the two outcomes of the diff query; `WallClock` is `new Date()` |
| `Commit` | both inserts and the commit: the rows become visible and the lock free at once |
| `Broadcast` | `broadcaster.broadcast(event)` in the caller |
| `Fail`, `LoseAcknowledgement`, `Crash` | an exception before the commit, one at the commit, a stopped process |
| `matching`, `Drift` | the customers the rule matches now: any change of customer data or of a parent |

The diff query is one statement at READ COMMITTED, so it sees what had committed when it began; it
is one step. `Skew` is a constant offset of each process's clock; `ClocksAgree` says that there is
none between processes. Two readings of a clock are distinct, since a commit lies between two
evaluations of one segment.

### EvalPipeline

From a change of data to up-to-date segments.

| in the module | in the code |
| --- | --- |
| `ChangeData`, `PublishChange` | a transaction of `SimulationService`, then `publishCustomerChanged` |
| `changeQ`, `ConsumeChange`, `timers`, `TimerFires` | change queue, `onCustomerChanged`, `scheduleCustomer` |
| `RequestPass` | `runEvaluationPass` up to its first `await` |
| `PassLoads`, `Begin`, `PassDone`, `Reschedule`, `ImmediateFires` | the rest of the pass, its `finally` block and the `setImmediate` callback |
| `Evaluate`, `Commit`, `Broadcast` | `evaluateAndPublishSegment`; `DeltaCalculator` has the transaction in full |
| `EvalFails` | its `catch` branch |
| `cascadeQ`, `CascadeDrops`, `CascadeStarts`, `CascadeLoads`, `CascadeDone`, `CascadeFails` | delta queue and `onSegmentDelta`: drop at the limit, start, children, ack, nack |
| `RefreshStarts`, `RefreshDone` | `SegmentsService.refresh` around an evaluation |
| `WorkerCrash`, `Redelivered`, `ApiCrash` | loss of everything in memory; unacknowledged messages come back |

Rules are a parameter: `Matches(s, d, m)` is what the rule of `s` matches in data `d` when the other
segments have the snapshots `m`, and depends on the snapshots of the parents only
(`RuleAssumption`). A segment is created after those it refers to (`CreationAssumption`); that
`create` keeps it so is what `SegmentCreation` proves.
Durations are left out: a timer fires at any moment after it is set, so every order of events that
any debounce interval allows is included. `Debouncer` has the durations.

`excused` is a history variable, not state of the code. It names the segments which a crash, a
failed evaluation, a failed handler or the depth limit has left out of date. A change event clears
it, for it leads to a pass, and an evaluation takes its segment out of it. It lets the main property
say precisely what such events may cost:

> `NoLostDrift`: a dynamic segment that is out of date, or about to be overwritten with what an
> evaluation read earlier, is excused, or will be evaluated (a pass is coming, a worker has it on its
> list, a delta of a parent is on its way), or is being put right by an open transaction.

This is the repository README's statement about a crash of the worker (README.md:305-309: the
pending recomputation is lost, the next change event restores the state) made exact.

`MCDiamond` is `EvalPipeline` on the diamond of the repository's README: two customers trade places in
A, B and C copy A, D has the members of both.

### SegmentCreation

`POST /segments` by racing requests, statement by statement, and the dependency graph that grows.

| in the module | in the code |
| --- | --- |
| `segments`, `row`, `deps` | committed rows of `segments` and `segment_dependencies`; `row` also has uncommitted ones |
| `inserted`, `links` | what a transaction has written and not committed |
| `Post`, `NameTaken`, `Begin` | the request, the check for its name, the begin of the transaction |
| `CheckParents`, `ParentsExist` | `assertParentsExist` |
| `Insert`, `NameOpen`, `InsertFails` | `mgr.save(segment)` under the unique index: it waits for an uncommitted row of that name, and fails on a committed one |
| `Search`, `Descendants` | the self-reference check and `assertNoCycle` |
| `Link`, `Commit`, `Fail` | the dependency rows, the commit, a failing statement or a stopped api |
| `Refresh`, `snapshotted` | the first snapshot of a segment |

Rules are the set of segments they refer to (`extractSegmentRefs`). `created_at` is `now()`, which in
PostgreSQL is the beginning of the transaction; the clock ticks with each transaction.

### Debouncer

`debouncer.service.ts` with time in ticks. `timers` is the map of the service, `timeouts` what Node.js
will run, so that a timeout that is forgotten and not cleared can be told from one that is.

| in the module | in the code |
| --- | --- |
| `Schedule`, `Cleared`, `Armed` | `scheduleCustomer`: `clearTimeout` of the one before, `setTimeout` |
| `Fire` | the callback: forget the handle, ask for a pass |
| `Destroy`, `Remaining` | `onModuleDestroy` |
| `phase`, `Exit` | shutting down, and the end of the process, after a shutdown or in a crash |
| `Tick` | a piece of the 500 ms; it waits for callbacks that are due |

`Schedule` is possible until the process ends: `worker.controller.ts` calls `scheduleCustomer` for what
the consumers deliver, they are closed after `onModuleDestroy` has run, and `scheduleCustomer` does not
ask whether it has. `waiting` and `dropped` are history: the customers with an event that no pass has
been asked for, and those of them whose timer went with `onModuleDestroy` or with the process.

### DeltaFeed

From a recorded delta to its three subscribers. A delta is a number, its segment and process are in
`log`.

| in the module | in the code |
| --- | --- |
| `RecordDelta`, `Broadcast` | the commit, and the three emits after it (`unsent` lies in between) |
| `wire`, `Arrive` | what a process has emitted to each queue, over a connection per queue |
| `PatternOf`, `Fires`, `Deliveries` | the three patterns; Nest runs each handler of the process whose pattern fits |
| `Deliver`, `Finish`, `Throw` | delivery up to the prefetch count, `ack`, `nack(message, false, false)` |
| `Forward`, `RoomsOf`, `Copies` | `DeltasController.onSegmentDelta` and `DeltasGateway.publish` |
| `Connect`, `Disconnect`, `Subscribe`, `Unsubscribe` | the gateway's handlers |
| `Crash`, `Requeued`, `Unacknowledged`, `BrokerRestart` | unacknowledged messages come back, and what was done for them is done again; durable queues, transient messages |

### CustomerStore

The five requests of `SimulationService` statement by statement, at READ COMMITTED.

| in the module | in the code |
| --- | --- |
| `Load`, `Modified`, `Save` | `findOne`, the assignments to the entity, and `save`, which reads the row again and writes the columns that differ (`dirty`) |
| `BeginBulk`, `InsertChunk`, `BeginAggregates`, `Aggregated` | `bulkTransactions`: a database transaction per chunk, one for `applyAggregates` |
| `BeginAdvance`, `ShiftTransactions`, `ShiftCustomers` | the two UPDATE statements of `advanceTime`; each works on the rows it saw when it began |
| `UpdateRow`, `staged`, `Locked` | an updated row, locked until the end of its transaction |
| `Commit`, `Publish`, `Concerned` | the commit, and the events after it |
| `EmitOnly`, `Reject` | `POST /simulate/change`, and the exceptions for bad requests |
| `Fail`, `Crash`, `Detected`, `DeadlockAbort` | failures, and the deadlock detector of PostgreSQL |

`stale` is a history variable: somebody has saved an entity whose row had changed since it was loaded.
`OnlyStaleSavesLose` says that nothing but that loses an update: until it happens the counters of a customer
are the number and sum of the transactions of finished requests (`CountedRows`), and a patched field has the
value of a finished patch (`PatchesKept`).

### Rules, RuleEngine

`Rules` is the language of rules. A rule, and the SQL compiled from it, is a tree of records: leaves,
joined by `and` and `or` up to `MaxDepth` times. What walks down such a tree is a recursive function of
the depth that is left.

| in the module | in the code |
| --- | --- |
| `Compile`, `CompileRule`, `CompileCompound`, `Joined` | `compile`: an expression, and the values pushed for it; a sub-rule is compiled after those before it have pushed theirs |
| the numbers in `SqlLeaves` | the placeholders `$n`, the number of values pushed so far |
| `Rejected` | an exception: unknown field or operator, `list` and operator that do not fit, an empty compound |
| `Walk`, `ExtractSegmentRefs` | `rule-introspection.ts` |
| `TruthOf`, `SqlTruth`, `Connected`, `Select` | PostgreSQL: the predicate for each customer, in three-valued logic; those for whom it is true |
| `Shifted` | the two UPDATE statements of `advanceTime` |

Beside it stands what a rule means: `LeafHolds` for a leaf, without placeholders or a third truth
value, and `Members`, intersections and unions of what the sub-rules give. `RuleEngine` evaluates one
segment while customers transact (`Booked`), parents' snapshots change, the clock runs and data is
shifted. `RefsMatchReads` is the fact `RuleAssumption` of `EvalPipeline` rests on.

### Seed

`seed.ts` with its ten customers and six segments, step by step, failing and run again; afterwards the
scenario of the repository's README: purchases and 31 days of advanced time, each followed by a pass in
the order of `created_at`.

### DetailPage

The page of one segment in one browser, with the answers and deltas it gets.

| in the module | in the code |
| --- | --- |
| `page` | the fields of the component: rows, highlights with their timeouts, `refreshing`, log, subscriptions |
| `request`, `wire` | the refresh in flight; deltas on the way, in the order of their broadcasts |
| `Navigate`, `SegmentArrives`, `Reopen` | `paramMap` with `switchMap`: the component is kept, the segment replaced, a subscription added; or a new component |
| `Answer`, `MemberList` | the api's answer to a refresh, `applyMemberList` |
| `FailedRefresh` | the error handler of the refresh |

`excuse` is a history variable with the reasons why the list may differ from the latest snapshot: a
delta missed while offline, a delta overtaken by an older answer or followed by an older delta, a
change of segment. `SettledListIsRight` says that there is no other reason.

### ClientDirectory

The directory of segments (`SegmentsCacheService`), and who listens to it: the list page with its
cards, the ticker, the page of a segment, which puts its segment into the directory. `latest` is
history: the latest delta of each listed segment.

### SimulatePage

The forms, `busy`, and the customers `CustomersService` remembers. A request goes on
when its page is left, and its answer then reaches a component that is no longer shown. A customer is
the version of its profile: the number of patches the api has served, for this browser (`Serve`) and for
other tabs, browsers and programs (`OthersPatch`). The shared request for the list has two moments of its
own, when the api reads the rows (`ListServed`) and when the answer comes (`ListAnswered`), and it may fail
(`ListFails`), after which `shareReplay` of rxjs 7 starts over with the next subscriber. The activity log
is left out. `seen` is history: the last patch whose answer this browser has.

`OwnPatchesAreRemembered` is read-your-writes: the list remembered has every patch of this browser that was
answered. It does not have the patches of others, of which the browser hears nothing.

### The MC modules

`MCDeltaCalculator`, `MCEvalPipeline` and `MCDiamond` give constants their values. `MCCustomerData`
(`CustomerStore`, `RuleEngine`, `Seed`), `MCMessaging` (`Debouncer`, `DeltaFeed`) and `MCClient`
(`DetailPage`, `ClientDirectory`, `SimulatePage`) check several components in one run. Those share no
variable; a variable `part` fixed at the start says which of them a behaviour follows, the others stay as
they are. So the states of such a run are the sum of its parts, not their product, and each property is
checked on every state of its part. Modules that are extended side by side have names of their own:
`FeedInit` and `feedVars` in `DeltaFeed`, `EngineInit`, `EngineTypeOK`, `CustomerIds` and `Null` in
`RuleEngine` and `Rules`.

## Runs

| run | question | instance | result |
| --- | --- | --- | --- |
| `calc_race` | do racing calls keep snapshots, deltas and announcements in agreement, implement the ledger, and end? | 1 segment, 2 customers, 3 callers in 2 processes, 4 calls, 2 drifts, 1 database error, 1 crash or lost acknowledgement | 193 thousand states, holds |
| `calc_lost` | is every committed delta announced in spite of a crash? | 2 callers, 1 crash | violated |
| `pipe_race` | is a change ever lost between the components; does the limit cut a legal chain; who changes a static segment? | chain of 3 with a static leaf, depth limit 2, 2 customers, 2 changes, 2 handlers, 1 refresh, 1 failure, 1 crash | 2.2 million states, holds |
| `pipe_crash` | do segments come up to date and the worker to rest? | chain of 2, limit 1, 1 handler, 2 changes, 1 refresh, 1 crash; fair | 82 thousand states, holds |
| `pipe_diamond` | does one change reach the end of a diamond in one delta? | the diamond, 2 customers, 1 change, 2 handlers | violated |
| `create_race` | do graph, rules and names agree whatever creations race, and is every creation answered? | 2 requests at a time, 3 creations, 3 segments, 3 names, 1 failure; fair | 1.2 million states, holds |
| `create_static` | has a static segment its members from the start? | 2 requests, 3 creations | violated |
| `data_race` | do events match changes, are updates lost only by stale saves, do requests end? Do compiled rules mean what the rules say? Does the seed give the promised snapshots? | 3 requests of 8 kinds for 2 customers, chunks of 2, 1 failure or crash; 33 rules, 3 changes; the seed data, 2 failed runs, 2 changes | 951 thousand states, holds |
| `store_lost` | are all transactions counted? | 2 transactions of one customer | violated |
| `feed_race` | does a pass come after the quiet window, and always? Who gets which delta, how often, in which order? | 2 customers, window 3, 6 events, a shutdown and the end of the process; 2 deltas, 1 segment, 1 socket, prefetch 1, 1 fault, 1 step of the socket | 2.2 million states, holds |
| `client_race` | is what a browser shows right? | 2 customers, 2 segments, 2 evaluations, 2 refreshes, 2 changes of route, 1 failure or lost connection; 2 deltas, 4 visits; 3 commands, 4 visits, 1 failure, 1 patch by another client | 2.2 million states, holds |
| `page_switch` | is a change of segment harmless? | 2 segments, 1 refresh, 1 change of route | violated |

The bounds are guards on the actions that only the environment starts (`used.*` or a counter below
`Max*`). Everything that follows from those actions is unbounded.

Why they are enough:

* *Calculator.* A race for a segment needs a holder, a waiter and a late comer, so three calls plus
  one more that reads what they left; two drifts let the rule return to an earlier membership, the
  case in which a stale snapshot looks right. Segments share nothing in this module but the clock.
* *Pipeline.* Two changes are needed for a request during a pass, and with a refresh a third evaluator
  meets pass and cascade on a parent and its child. A chain of three with limit 2 reaches the limit
  exactly; in `pipe_crash` the limit is below the longest chain, so deltas are dropped. The static leaf
  is read by nobody and may be reached by the cascade, and must not be.
* *Creation.* Three segments are needed for a child of a child, three names for them; two requests
  meet at the unique index.
* *Customer data.* Three requests allow a load, a save by another in between, and a third that
  waits for the row or closes a circle of waiting imports. Three rows and a chunk of two give an import two
  chunks. Three changes take a rule through a transaction, a parent's snapshot and time; of the three
  segments a rule may refer to, rules of the run read two. The seed run
  twice over its own remains covers each step failing.
* *Messaging.* Six events of two customers re-arm each timer while the other is due. One fault of any
  kind at any moment meets two deltas, of one process or of two, on three queues; a prefetch of 1 lets the
  second wait behind the first.
* *Client.* Two evaluations and two refreshes are what an answer needs to overtake a delta, or the
  other way round. Two segments allow a change and the way back. A patch by another client can fall anywhere
  between the patches, lists and visits of this one. `MaxLog` and `MaxItems` are reached.

All runs turn deadlock checking off, because the system does stop when the bounds are used up; that it stops only at
rest is said by `EventuallyQuiet`, and for a call `CallsEnd`, a creation `CreationsEnd`, a request `RequestsEnd`, a
change event `QuietIsEvaluated` and a form `SuccessFreesForms`.

The mutants in `PROJECT.json` show that each property depends on the code: without the lock, with
`ORDER BY ... ASC`, without the pending flag, with acknowledgement on arrival, and so on, TLC finds
the property violated. A mutant stands before its original in the module.

## Fairness

`FairSpec` of `DeltaCalculator` has weak fairness on the steps of a running call (event loop and
database make progress) and strong fairness on obtaining the lock: PostgreSQL queues waiters in order
of arrival, while in the model the lock may be free and taken again in between. `FairSpec` of
`EvalPipeline` has weak fairness on what is queued, set or running: publishing, consuming, timers,
immediates, the pass, each handler and each refresh. It has strong fairness on the start of the
cascade of a queued message, because a handler may be busy again and again while RabbitMQ delivers
in order, and on `Evaluate`, again for the lock. Nothing makes a change, a refresh, a failure or a
crash happen. `FairSpec` of `SegmentCreation` has weak fairness on the next step of each request; an
insert that waits for another transaction goes on when that one ends. Weak fairness is enough there
because creations are bounded, so a waiter is overtaken only so often; PostgreSQL serves waiters in
order.

`Fairness` of `CustomerStore` is weak fairness on some next step of some request, the abort of a
deadlock included: the event loop runs what is ready, and `deadlock_timeout` expires. `Fairness` of `Debouncer` lets time go
on and runs timeouts that are due; nothing makes events come, or cease (their number is bounded). `Fairness` of `SimulatePage`
lets the api serve a request of a form and the answer arrive; a request that fails is excepted by the property.
In `Debouncer` a worker that shuts down or crashes is excepted by `QuietIsEvaluated`.
`RuleEngine`, `Seed`, `DeltaFeed`, `DetailPage` and `ClientDirectory` state safety only and have no
fairness.

## Proofs

TLAPS proves the following for every value of the constants.

**DeltaCalculatorProofs.** `LockInv` adds to the types that a call between the lock statement and the
end of its transaction holds the lock of its segment. It is inductive whatever the clocks say, and
gives `TypeCorrect` and `LockExcludes` (no two calls in the locked part for one segment).
`AuditInv` is needed because `AuditTrailMatchesMembership` alone is not inductive: a delta computed
earlier could be committed to a segment that has changed. It adds that no snapshot is stamped later
than any clock shows (`StampsArePast`) and that a computed delta is exact against the current
membership and stamped later than every row (`PendingDeltasAreExact`), which the lock protects. Under
`ClocksAgree` it gives `AuditTrailSound`, `NoChangeReportedTwice` and, with `Commit`
as `Record`, `CalculatorImplementsLedger`. `SnapshotsNeverRepeat` says of the rows of the
table what a look at one call cannot: each differs from the one before it, because the row a commit adds is later
than all others (`LaterRowIsLast`) and its difference is exact. `AnnouncementsSound` proves `AnnouncementsBalanceOut` until
the first crash, for any finite set of evaluators: `AnnouncementsBalance` says that what is published and what
the calls still hold add up to the audit trail, which a commit and a broadcast keep by moving one
delta from one side to the other; that needs to count the calls that hold a delta, with the
cardinality theorems of the library.

**EvalPipelineProofs.** `ControlInv` says what the actors are doing: evaluators hold their locks,
handlers work on children of the segment of their message, `isProcessing` is set exactly during a
pass. It gives `TypeCorrect`. `NoLostDrift` with `ControlInv` is inductive, and `NoDriftIsLost`
follows. The lemmas go through the steps by group; the two that carry it are *Commit* (children of the committed
segment pass into the care of the delta still to be broadcast, other segments do not read it) and
*WorkerCrashStep* (what a handler was doing comes back with its message, so only what a pass, a
timer or an unbroadcast delta would have done needs an excuse). `DepthsFollowLevels` (the depth of a
delta never exceeds the level of its segment, for any numbering of the segments by levels in which a
segment is above its parents) gives `LimitSpares`: a graph is shallow if its levels go up to the limit at most, however
many segments there are on each, and in whatever order they were created. And
`WorkersEvaluateDynamic` gives `StaticSegmentsStay`.

**SegmentCreationProofs.** `CreationInv` follows a request: it refers to committed segments created
before its transaction began, owns the row it has inserted, has all its links when it commits, and
uncommitted names count for uniqueness. The last is why `NamesAreUnique` alone is not inductive. It gives
`TypeCorrect`, `ParentsStayOlder`, `GraphMatchesRules`, `NamesStayUnique`, and `NoCycleIsEverFound`: the
search of `assertNoCycle` and the self-reference check can never reject a request, because nobody can
refer to a segment before it is committed (for the same reason no run reaches that branch of `Search`).

**DebouncerProofs.** `IInv` adds to the types that the handles in the map come from the counter and
differ (`HandlesDiffer`), and that the map has the handle of every timeout (`TimeoutsAreMapped`). Without it, clearing the timeout of
one customer might clear that of another, which a handle used twice would do. It gives `TypeCorrect`,
`PassAfterQuiet`, `NoEventForgotten` and `PassAfterStopIsForLaterEvent`, for every window and number of
events. The last needs that no customer with a live timeout is among the dropped: `onModuleDestroy` clears
every timeout there is, since the map has them all.

**DeltaFeedProofs.** `OnePlace` says where a message of a delta is: still to be sent, on the wire of
the process that computed it, in the queue, or delivered, and never in two of these (`NoDuplicates`).
With `KeptUntilHandled` it is inductive: a crash only moves deliveries back into the queue. It gives
`TypeCorrect`, `ArrivedIsKept` and, because a message that is on its way has not been handled while
nothing has crashed (`Fresh`), `NoDoubleHandling`. That a message runs one handler is a lemma about
the patterns (`OwnHandler`).

`InBroadcastOrder` and `OnceInRoomAll` are not inductive either: whether the next
message is in order depends on what is still on its way. `Ordered` says that wires, queue and
deliveries are each in the order of the broadcasts, and what is further on was broadcast earlier;
`Received` and `NothingTwice` add that everything a live connection has received is ahead of all
of it. A crash of the api turns that round, but it cuts every connection. This gives
`BroadcastsStayInOrder` and `RoomAllHasNoCopies`. Both need that no segment is called `"all"`
(`FeedAssumption`): in the code the room of a segment is `segment:` and its id.

**CustomerStoreProofs.** `StoreInv` has a part for each thing a request keeps: where its handler can be
(`Stage`), which rows it has locked and which are still to come (`Rows`), which transactions it has
inserted (`Records`), whom it has changed and announced (`Events`); and `Apart`, that no two requests have
the same row. None of the three properties is inductive without them: a commit overwrites what it has
staged, so the counters stay right only if what is staged is the row of the table with the change of this
request alone (the last conjunct of `Rows`), and the table cannot change meanwhile because of `Apart`.
`FreshSave` is the same for an entity that was loaded earlier, and holds as long as nothing was `stale`.
It gives `RowLocksExclude`, `EventsNameTheChanged` and `NothingElseLoses`, for any number of requests,
any orders of customers in an import and any chunk size. The balance is a sum over a set, a recursive
function of the community modules; that a sum does not depend on the order of its members is proved from
a smallest set for which it would, since induction theorems cannot be instantiated.

**ClientProofs.** `PageInv` carries `SettledListIsRight`, which says nothing before the page is at rest.
It relates the list to what is still on the way, customer by customer: among the deltas of a segment that
are not yet handled, the youngest that mentions a customer is right about it (`Truthful`); an answer is right about
each customer that no younger delta on the way mentions (`AnswerIsGood`); the list is right about each that no
delta on the way mentions (`ListIsGood`). Each of the three is needed for the next, and each has to allow
for the reasons in `excuse`. `ListSettlesRight` follows, because nothing is on the way of a page at rest.
`DirectoryInv` types the answers as sets that contain the first segments and the items of the ticker as
named whenever they can be, so that what cuts and rebuilds those sequences keeps it; a segment without a
card has no delta (`CardsAreRight`). It gives `TickerHasNames`, `CardsKeepDeltas` and `FetchedIsComplete`.
`FormsInv` adds that no request belongs to a later page and the current page has one at most, and that no
request has written, and the browser knows of, a version beyond that of the database, so that a list read later has it;
it gives `OwnPatchesRemembered`. With `ClientTypes` these are all the invariants of `client_race`.

**RuleEngineProofs.** All five theorems are for any rules of any depth, size and nesting, any customers,
and any data. What a recursive function computes needs induction over the depth, and the induction theorems
of the library cannot be instantiated; `Induction` proves the principle for subsets of the
natural numbers, and `Recursion`, `TreesExist` and what follows them that each recursive function of `Rules` exists
and satisfies its equation. `Means(d, n)` is then the statement that carries the rest: a predicate
compiled from a rule of depth n, its values standing anywhere in a longer sequence as long as they stand
where its placeholders look, is true for exactly the members of the rule in d and reads exactly the
segments that the walk finds. For a leaf that is a matter of cases (`LeafCase`). For a compound
`ChainMeans` follows the sub-rules one after the other, each pushing its values behind those before it, and
`ConnectedTrue` says that a NULL makes neither AND nor OR true, so that the third truth value never
reaches the top. This gives `CompilerIsRight` and `ReferencesAreRight`. `ShiftIsRight` maps the rows of a window
in the shifted data to those of the later clock. `TimeIsOneWay` needs an invariant: `TimeMovesOneWay` does not say
why the members were right at the time, so `EvaluatedInPast` has it that they are what the predicate
selected at some earlier time, with the same rows and transactions (TLC agrees on the instance of `data_race`). A
later clock then takes rows from each window and none to it, so counts and, amounts not being negative, sums shrink
(`WindowShrinks`), which AND and OR of such windows preserve (`MembersFollow`).

The proofs rest on the named assumptions of the modules (`HostAssumption`, `SkewAssumption`,
`NoneAssumption`, `IdAssumption`, `GraphAssumption`, `CreationAssumption`, `ActorAssumption`,
`RuleAssumption`, `WindowAssumption`, `FeedAssumption`, `ChunkAssumption`, `JobAssumption`,
`ClientAssumption`, `DepthAssumption`, `EngineAssumption`), which TLC evaluates in the runs, and on
`ClocksAgree` and the finiteness of `Evaluators` where a theorem says so. `JobAssumption` says what a
job may be: finitely many customers, amounts and days that are not negative, an import that names
somebody. `ClientAssumption` keeps `None` and the reasons in `excuse` apart from segments.
`EngineAssumption` says that rules are rules of at most `MaxDepth` and that data is well formed. The type
invariants of `DeltaCalculator`, `EvalPipeline`, `SegmentCreation`, `Debouncer`, `DeltaFeed` and
`RuleEngine` are proved and not repeated in a run; those of `CustomerStore` and of the client are proved and
checked. `Rules` has no variables.

Model-checked only: the liveness properties `CallsEnd`, `CreationsEnd`, `EventuallyUpToDate`,
`EventuallyQuiet`, `RequestsEnd`, `QuietIsEvaluated` and `SuccessFreesForms`, which need fairness and ENABLED and
are out of the prover's reach; and `SeedMatchesTable` and `OnePassSettlesAll`, which are about the ten customers
and six rules of one script, and hold by computation. All other invariants and action properties of the
passing runs are theorems.

## Findings

Each of these has a run that shows it:

* **A committed delta may never be published** (`calc_lost`). README.md:536 says that every delta is
  published three times. After a crash or a lost acknowledgement between commit and broadcast it is
  recorded and not published, and the next evaluation is a no-op. `ImplementsLedger` bounds the damage:
  each delta is announced once or not at all, never twice.
* **A diamond announces a membership that no data has** (`pipe_diamond`). README.md:376-379 calls the
  second computation of D redundant, cut by the no-op. The handler of B's delta evaluates D while C is
  still old, so D is first written with new and old parents mixed, and then corrected by a second
  non-empty delta. `EventuallyUpToDate` is unaffected; the campaign sees both.
* **A static segment is not fixed at its creation** (`create_static`). README.md:22-23 says it is.
  `create` writes no snapshot, and neither pass nor cascade does, so the segment is empty until its first
  refresh and gets the members of that moment.
* **Transactions get lost in the counters** (`store_lost`). README.md:199 says that a transaction updates
  balance, `tx_count` and `last_tx_at`. Two for one customer at once both read the same row, and the
  second save overwrites the first.
* **The page of one segment shows the members of another** (`page_switch`). A link of the ticker
  changes the route while the component stays: the name is that of the second segment, the rows, the
  subscription and a refresh in flight are those of the first.

What a property has to except, or an assumption to exclude, also says something about the code:

* The lock does not order snapshots: the latest is the one with the largest `evaluated_at`, so the comment
  in `delta-calculator.service.ts:37-39` holds only while the clocks of the processes agree and do not
  step back (`ClocksAgree`).
* A restart of the broker, or a handler that throws, loses a delta for one subscriber (`KeptUntilHandled`).
* Two patches of one profile at once lose one of them (`OnlyStaleSavesLose`); the chunks of a bulk
  import that fails later stay, uncounted and unannounced (`EventsMatchData`).
* A rule that compares `last_tx_at` with a literal date does not see advanced time as time (`ShiftIsTime`).
* A delta missed while offline, or overtaken by an older answer, is missing from the member list until the next
  refresh (`SettledListIsRight`).
* An answer with the list replaces the directory, and a segment created after it was computed is forgotten
  (`DirectoryIsComplete` is about the segments there were at the start).
* After a request that fails the buttons of the simulate page stay disabled (`SuccessFreesForms`), and
  the customers remembered grow old: only a patch by this browser drops them, so balances, and profiles that
  another tab or program has patched, stay as they were read (`OwnPatchesAreRemembered` is about its own patches).
* An event consumed between `onModuleDestroy` and the closing of the consumers sets a timer in a worker that is
  shutting down, and may ask for a pass if the shutdown takes longer than 500 ms (`NoEarlierPassAfterStop` is about
  the timers set before); its message is acknowledged, and if the process ends first the change waits for the
  next pass.

## What is not modelled

* Pure presentation: templates, styles, sentences made from rules, the log lines of the campaign and of the simulate page,
  the frame of the application and the connection indicator. They show state and keep none that others
  read.
* Dependency injection, validation decorators, the health endpoint, read endpoints. What they let
  through is the set of inputs a module takes.
* Decimals: amounts are integers (`Number`, `toFixed(2)` and `numeric` differ by less than a cent), and
  time is counted in days in rules, in ticks in `Debouncer`, and not at all elsewhere.
* Text: names, e-mail addresses and profile values are only compared for equality; `<` on text is left
  out.
* Clocks set back while a process runs: `Skew` is constant, and no run has one that is not zero.
* Graphs beyond those of the runs: a static segment with dynamic children, refreshed, and a diamond under crashes are
  within the theorems `NoDriftIsLost`, `LimitSpares` and `StaticSegmentsStay`, not within `pipe_race` and `pipe_crash`, so
  `EventuallyQuiet` is checked on a chain only.
* Changes of data without an event: `NoLostDrift` is about data that changes together with its event, so neither the chunks
  of a failed import nor time that passes (`NOW()` in a window) are among its changes.
* A connection to the broker that breaks while the api lives on: it would be redelivered to with its sockets open.
* Partial delivery inside a process: the messages of one connection stay in order until it breaks.
* The composition of all modules. The calculator's transaction is three steps in `EvalPipeline`, and
  that these abstract `DeltaCalculator` is by inspection, not a checked refinement; likewise the three
  queues of `DeltaFeed` are one announcement in `DeltaCalculator`, and a rule is a parameter there.

## Plan

1. *(done)* `SegmentLedger`, `DeltaCalculator`, its refinement and proofs.
2. *(done)* `EvalPipeline` with safety, liveness and proofs.
3. *(done)* `SegmentCreation` with its runs and proofs.
4. *(done)* `CustomerStore` with its proofs.
5. *(done)* `DeltaFeed` with its proofs. Left: a refinement of the announcements of `SegmentLedger`.
6. *(done)* `DetailPage`, `ClientDirectory`, `SimulatePage` with their proofs.
7. *(done)* `Rules` and `RuleEngine` with their proofs; `Seed`, checked.
8. *(done)* `Debouncer` with its proofs.
9. A refinement of the evaluation steps of `EvalPipeline` by `DeltaCalculator`.
