---------------------------- MODULE EvalPipeline ----------------------------
(***************************************************************************)
(* From a change of customer data to up-to-date segments: the change       *)
(* events of the api (simulation.service.ts), the worker's debouncer and   *)
(* coalesced evaluation pass (debouncer.service.ts, processor.service.ts), *)
(* the cascade to the children of a changed segment                        *)
(* (cascade.controller.ts) and the api's manual refresh                    *)
(* (segments.service.ts), all racing on the segments' locks, with process  *)
(* crashes, failing evaluations and failing handlers.                      *)
(*                                                                         *)
(* An evaluation is Evaluate, Commit and Broadcast; DeltaCalculator models *)
(* the same transaction in full.  Time is left out: a debounce timer may   *)
(* fire at any moment after it is set, and setting it again changes        *)
(* nothing but that moment.                                                *)
(***************************************************************************)
EXTENDS Integers, FiniteSets

CONSTANTS
    Customers, Segments,
    Dynamic,             \* the segments with is_static = FALSE
    Parents,             \* Parents[s]: the segments the rule of s refers to
    CreatedAt,           \* CreatedAt[s]: the creation order of the segments
    Data,                \* what the tables customers and transactions can hold
    Memberships,         \* what a snapshot can hold
    Matches(_, _, _),    \* Matches(s, d, m): what the rule of s matches in d, given
                         \* the latest snapshots m
    Pass,                \* the worker's evaluation pass (there is one at a time)
    Handlers,            \* cascade messages the worker handles at once (prefetch 16)
    Requests,            \* manual refreshes the api handles at once
    MaxCascadeDepth,     \* MAX_CASCADE_DEPTH, 10 in the code
    None,                \* no segment, no actor
    MaxChanges,          \* bound: change events
    MaxRefreshes,        \* bound: manual refreshes
    MaxFailures,         \* bound: failing evaluations and handlers
    MaxCrashes           \* bound: crashes of the api and of the worker

Worker == Handlers \union {Pass}
Actors == Worker \union Requests

ASSUME GraphAssumption ==
    /\ Dynamic \subseteq Segments
    /\ Parents \in [Segments -> SUBSET Segments]
    /\ CreatedAt \in [Segments -> Nat]
    /\ MaxCascadeDepth \in Nat

\* A segment is created after the segments it refers to (assertParentsExist).
ASSUME CreationAssumption ==
    \A s \in Segments : \A p \in Parents[s] : CreatedAt[p] < CreatedAt[s]

ASSUME ActorAssumption ==
    /\ Pass \notin Handlers \union Requests
    /\ Handlers \intersect Requests = {}
    /\ None \notin Segments \union Actors
    /\ IsFiniteSet(Handlers)

\* A rule reads the snapshots of no other segments than its parents.
ASSUME RuleAssumption ==
    \A s \in Segments, d \in Data, m \in [Segments -> Memberships] :
        /\ Matches(s, d, m) \in Memberships
        /\ \A n \in [Segments -> Memberships] :
              (\A p \in Parents[s] : m[p] = n[p]) => Matches(s, d, m) = Matches(s, d, n)

VARIABLES
    data,            \* the customers' data
    mem,             \* mem[s]: the latest snapshot of s
    lock,            \* lock[s]: the actor in a transaction that holds the lock of s
    toPublish,       \* toPublish[c]: changes of c committed but not yet published
    changeQ,         \* changeQ[c]: change events of c in queue drift.change-events
    cascadeQ,        \* cascadeQ[<<p, d>>]: deltas of p at depth d in drift.delta-events
    timers,          \* the customers with a debounce timer
    isProcessing, hasPending,   \* the fields of ProcessorService
    immediates,      \* setImmediate callbacks not yet run
    stage,           \* stage[a]: what the actor is doing
    todo,            \* todo[a]: the segments it has still to evaluate
    cur,             \* cur[a]: the segment it evaluates
    found,           \* found[a]: the membership its diff query found
    src,             \* src[a]: the segment whose delta the handler handles
    depth,           \* depth[a]: the cascadeDepth of the deltas the actor broadcasts
    excused,         \* history: segments a crash or a failure has left behind
    used             \* how much of each bound has been used

store == <<data, mem>>
queues == <<toPublish, changeQ, cascadeQ>>
processor == <<isProcessing, hasPending, immediates>>
actors == <<stage, todo, cur, found, src, depth>>
vars == <<store, lock, queues, timers, processor, actors, excused, used>>

Stages == {"idle", "loading", "next", "waiting", "computed", "committed"}
Depths == 0..MaxCascadeDepth

TypeOK ==
    /\ data \in Data
    /\ mem \in [Segments -> Memberships]
    /\ lock \in [Segments -> Actors \union {None}]
    /\ toPublish \in [Customers -> Nat]
    /\ changeQ \in [Customers -> Nat]
    /\ cascadeQ \in [Segments \X Depths -> Nat]
    /\ timers \in SUBSET Customers
    /\ isProcessing \in BOOLEAN
    /\ hasPending \in BOOLEAN
    /\ immediates \in Nat
    /\ stage \in [Actors -> Stages]
    /\ todo \in [Actors -> SUBSET Segments]
    /\ cur \in [Actors -> Segments \union {None}]
    /\ found \in [Actors -> Memberships \union {None}]
    /\ src \in [Actors -> Segments \union {None}]
    /\ depth \in [Actors -> Depths]
    /\ excused \in SUBSET Dynamic
    /\ used \in [changes : Nat, refreshes : Nat, failures : Nat, crashes : Nat]

-----------------------------------------------------------------------------
(* Segments and what is out of date *)

Children(p) == {s \in Segments : p \in Parents[s]}

\* What an evaluation of s would find now.
Target(s) == Matches(s, data, mem)

\* Dynamic segments whose snapshot is wrong, or about to be overwritten by an
\* evaluation that has seen old data.
OutOfDate ==
    {s \in Dynamic :
        \/ mem[s] # Target(s)
        \/ \E a \in Actors : stage[a] = "computed" /\ cur[a] = s /\ found[a] # Target(s)}

\* The dynamic children of the segments whose committed deltas the actors in as
\* have still to broadcast.
Unannounced(as) ==
    {s \in Dynamic : \E a \in as : stage[a] = "committed" /\ s \in Children(cur[a])}

\* The actors in as are at rest, their local variables gone.
Rest(as) ==
    /\ stage' = [a \in Actors |-> IF a \in as THEN "idle" ELSE stage[a]]
    /\ todo' = [a \in Actors |-> IF a \in as THEN {} ELSE todo[a]]
    /\ cur' = [a \in Actors |-> IF a \in as THEN None ELSE cur[a]]
    /\ found' = [a \in Actors |-> IF a \in as THEN None ELSE found[a]]
    /\ src' = [a \in Actors |-> IF a \in as THEN None ELSE src[a]]
    /\ depth' = [a \in Actors |-> IF a \in as THEN 0 ELSE depth[a]]

-----------------------------------------------------------------------------
(* The api: changes of customer data *)

\* A transaction of SimulationService commits new data for customer c (or the
\* same data: POST /simulate/change sends an event without a change).
ChangeData(c, d) ==
    /\ used.changes < MaxChanges
    /\ data' = d
    /\ toPublish' = [toPublish EXCEPT ![c] = @ + 1]
    /\ used' = [used EXCEPT !.changes = @ + 1]
    /\ UNCHANGED <<mem, lock, changeQ, cascadeQ, timers, processor, actors, excused>>

\* publishCustomerChanged, after the transaction.
PublishChange(c) ==
    /\ toPublish[c] > 0
    /\ toPublish' = [toPublish EXCEPT ![c] = @ - 1]
    /\ changeQ' = [changeQ EXCEPT ![c] = @ + 1]
    /\ UNCHANGED <<store, lock, cascadeQ, timers, processor, actors, excused, used>>

-----------------------------------------------------------------------------
(* The worker: debouncing and coalescing *)

\* onCustomerChanged: the timer of c is set, or set again, and the message is
\* acknowledged.  A pass will follow, so nothing is left behind any more.
ConsumeChange(c) ==
    /\ changeQ[c] > 0
    /\ changeQ' = [changeQ EXCEPT ![c] = @ - 1]
    /\ timers' = timers \union {c}
    /\ excused' = {}
    /\ UNCHANGED <<store, lock, toPublish, cascadeQ, processor, actors, used>>

\* Mutant of RequestPass: a request during a pass is ignored.
RequestPassOnlyWhenIdle ==
    /\ IF isProcessing
       THEN UNCHANGED <<isProcessing, stage>>
       ELSE /\ isProcessing' = TRUE
            /\ stage' = [stage EXCEPT ![Pass] = "loading"]
    /\ UNCHANGED <<hasPending, todo, cur, found, src, depth>>

\* runEvaluationPass up to its first await.
RequestPass ==
    /\ IF isProcessing
       THEN hasPending' = TRUE /\ UNCHANGED <<isProcessing, stage>>
       ELSE /\ isProcessing' = TRUE
            /\ stage' = [stage EXCEPT ![Pass] = "loading"]
            /\ UNCHANGED hasPending
    /\ UNCHANGED <<todo, cur, found, src, depth>>

\* The debounce timer of c fires.
TimerFires(c) ==
    /\ c \in timers
    /\ timers' = timers \ {c}
    /\ RequestPass
    /\ UNCHANGED <<store, lock, queues, immediates, excused, used>>

\* The setImmediate callback of an earlier pass runs.
ImmediateFires ==
    /\ immediates > 0
    /\ immediates' = immediates - 1
    /\ RequestPass
    /\ UNCHANGED <<store, lock, queues, timers, excused, used>>

\* The pass has read the dynamic segments.
PassLoads ==
    /\ stage[Pass] = "loading"
    /\ stage' = [stage EXCEPT ![Pass] = "next"]
    /\ todo' = [todo EXCEPT ![Pass] = Dynamic]
    /\ depth' = [depth EXCEPT ![Pass] = 0]
    /\ UNCHANGED <<store, lock, queues, timers, processor, cur, found, src, excused, used>>

\* Mutant of Reschedule: the pending flag is read but not cleared.
RescheduleAgain ==
    /\ immediates' = IF hasPending THEN immediates + 1 ELSE immediates
    /\ UNCHANGED hasPending

\* Mutant of Reschedule: the finally block clears both flags and stops.
ForgetPending == hasPending' = FALSE /\ UNCHANGED immediates

\* The finally block: a pass requested meanwhile is started by setImmediate.
Reschedule ==
    /\ hasPending' = FALSE
    /\ immediates' = IF hasPending THEN immediates + 1 ELSE immediates

PassDone ==
    /\ stage[Pass] = "next"
    /\ todo[Pass] = {}
    /\ Rest({Pass})
    /\ isProcessing' = FALSE
    /\ Reschedule
    /\ UNCHANGED <<store, lock, queues, timers, excused, used>>

-----------------------------------------------------------------------------
(* One evaluation: by the pass, by a cascade handler, by a manual refresh *)

\* The for loops take the segments one by one; the pass in order of creation.
Begin(a, s) ==
    /\ stage[a] = "next"
    /\ s \in todo[a]
    /\ a = Pass => \A t \in todo[a] : CreatedAt[s] <= CreatedAt[t]
    /\ stage' = [stage EXCEPT ![a] = "waiting"]
    /\ todo' = [todo EXCEPT ![a] = @ \ {s}]
    /\ cur' = [cur EXCEPT ![a] = s]
    /\ UNCHANGED <<store, lock, queues, timers, processor, found, src, depth, excused, used>>

\* The advisory lock of s is free.
MayLock(s) == lock[s] = None

\* The transaction has the lock and runs the diff query.  Without a difference
\* it ends there.  Either way nothing that a failure did before matters to cur.
Evaluate(a) ==
    LET s == cur[a] IN
    /\ stage[a] = "waiting"
    /\ MayLock(s)
    /\ IF mem[s] = Target(s)
       THEN /\ stage' = [stage EXCEPT ![a] = "next"]
            /\ UNCHANGED <<found, lock>>
       ELSE /\ stage' = [stage EXCEPT ![a] = "computed"]
            /\ found' = [found EXCEPT ![a] = Target(s)]
            /\ lock' = [lock EXCEPT ![s] = a]
    /\ excused' = excused \ {s}
    /\ UNCHANGED <<store, queues, timers, processor, todo, cur, src, depth, used>>

\* The locks once the transactions of the actors in as have ended.
LocksWithout(as) == [s \in Segments |-> IF lock[s] \in as THEN None ELSE lock[s]]

Commit(a) ==
    /\ stage[a] = "computed"
    /\ mem' = [mem EXCEPT ![cur[a]] = found[a]]
    /\ lock' = LocksWithout({a})
    /\ stage' = [stage EXCEPT ![a] = "committed"]
    /\ found' = [found EXCEPT ![a] = None]
    /\ UNCHANGED <<data, queues, timers, processor, todo, cur, src, depth, excused, used>>

\* cascade.emit(...) of DeltaBroadcasterService.
Enqueued(p, d) == [cascadeQ EXCEPT ![<<p, d>>] = @ + 1]

Broadcast(a) ==
    /\ stage[a] = "committed"
    /\ cascadeQ' = Enqueued(cur[a], depth[a])
    /\ stage' = [stage EXCEPT ![a] = "next"]
    /\ UNCHANGED <<store, lock, toPublish, changeQ, timers, processor, todo, cur, found,
                   src, depth, excused, used>>

\* The evaluation throws: before its commit, which rolls it back, or because the
\* commit is not acknowledged, which leaves its delta unannounced.  The worker
\* logs the error and goes on; nothing is retried.
EvalFails(a) ==
    /\ used.failures < MaxFailures
    /\ stage[a] \in {"waiting", "computed", "committed"}
    /\ lock' = LocksWithout({a})
    /\ stage' = [stage EXCEPT ![a] = "next"]
    /\ found' = [found EXCEPT ![a] = None]
    /\ excused' = excused \union ({cur[a]} \intersect Dynamic) \union Unannounced({a})
    /\ used' = [used EXCEPT !.failures = @ + 1]
    /\ UNCHANGED <<store, queues, timers, processor, todo, cur, src, depth>>

-----------------------------------------------------------------------------
(* The worker: the cascade *)

\* Mutant of Cut: the limit is off by one.
CutOneEarly(d) == d >= MaxCascadeDepth

\* childDepth > MAX_CASCADE_DEPTH
Cut(d) == d > MaxCascadeDepth

\* The message leaves the queue for a handler.
Dequeued(p, d) == [cascadeQ EXCEPT ![<<p, d>>] = @ - 1]

\* onSegmentDelta at the depth limit: the event is acknowledged and dropped.
CascadeDrops(p, d) ==
    /\ cascadeQ[<<p, d>>] > 0
    /\ Cut(d + 1)
    /\ cascadeQ' = Dequeued(p, d)
    /\ excused' = excused \union (Children(p) \intersect Dynamic)
    /\ UNCHANGED <<store, lock, toPublish, changeQ, timers, processor, actors, used>>

\* onSegmentDelta begins; the message stays unacknowledged.
CascadeStarts(h, p, d) ==
    /\ stage[h] = "idle"
    /\ cascadeQ[<<p, d>>] > 0
    /\ ~Cut(d + 1)
    /\ cascadeQ' = Dequeued(p, d)
    /\ stage' = [stage EXCEPT ![h] = "loading"]
    /\ src' = [src EXCEPT ![h] = p]
    /\ depth' = [depth EXCEPT ![h] = d + 1]
    /\ UNCHANGED <<store, lock, toPublish, changeQ, timers, processor, todo, cur, found,
                   excused, used>>

\* Mutant of CascadeTargets: static children are evaluated too.
CascadeAllChildren(p) == Children(p)

\* dynamicChildren: the dependency rows, then the segments that are not static.
CascadeTargets(p) == Children(p) \intersect Dynamic

CascadeLoads(h) ==
    /\ stage[h] = "loading"
    /\ stage' = [stage EXCEPT ![h] = "next"]
    /\ todo' = [todo EXCEPT ![h] = CascadeTargets(src[h])]
    /\ UNCHANGED <<store, lock, queues, timers, processor, cur, found, src, depth, excused, used>>

\* The message is acknowledged (at once when there are no dependency rows).
CascadeDone(h) ==
    /\ stage[h] = "next"
    /\ todo[h] = {}
    /\ Rest({h})
    /\ UNCHANGED <<store, lock, queues, timers, processor, excused, used>>

\* A query of the handler fails: nack without requeue.
CascadeFails(h) ==
    /\ used.failures < MaxFailures
    /\ stage[h] = "loading"
    /\ Rest({h})
    /\ excused' = excused \union (Children(src[h]) \intersect Dynamic)
    /\ used' = [used EXCEPT !.failures = @ + 1]
    /\ UNCHANGED <<store, lock, queues, timers, processor>>

-----------------------------------------------------------------------------
(* The api: manual refresh of any segment, static ones included *)

RefreshStarts(r, s) ==
    /\ used.refreshes < MaxRefreshes
    /\ stage[r] = "idle"
    /\ stage' = [stage EXCEPT ![r] = "next"]
    /\ todo' = [todo EXCEPT ![r] = {s}]
    /\ depth' = [depth EXCEPT ![r] = 0]
    /\ used' = [used EXCEPT !.refreshes = @ + 1]
    /\ UNCHANGED <<store, lock, queues, timers, processor, cur, found, src, excused>>

RefreshDone(r) ==
    /\ stage[r] = "next"
    /\ todo[r] = {}
    /\ Rest({r})
    /\ UNCHANGED <<store, lock, queues, timers, processor, excused, used>>

-----------------------------------------------------------------------------
(* Crashes *)

\* The actors in dead are gone and their transactions rolled back.
Stopped(dead) ==
    /\ lock' = LocksWithout(dead)
    /\ Rest(dead)

\* The broker delivers the unacknowledged cascade messages again.
Redelivered ==
    [m \in Segments \X Depths |-> cascadeQ[m] +
        Cardinality({h \in Handlers :
            stage[h] # "idle" /\ src[h] = m[1] /\ depth[h] = m[2] + 1})]

\* The worker stops, also by the unhandled rejection of a pass whose query for
\* the segments fails.  Its timers, its pending passes and the deltas it has not
\* yet broadcast are lost; it starts again with nothing running.
WorkerCrash ==
    /\ used.crashes < MaxCrashes
    /\ Stopped(Worker)
    /\ timers' = {}
    /\ isProcessing' = FALSE
    /\ hasPending' = FALSE
    /\ immediates' = 0
    /\ cascadeQ' = Redelivered
    /\ excused' = excused \union Unannounced(Worker) \union
          (IF timers # {} \/ isProcessing \/ immediates > 0 THEN OutOfDate ELSE {})
    /\ used' = [used EXCEPT !.crashes = @ + 1]
    /\ UNCHANGED <<store, toPublish, changeQ>>

\* The api stops: events it has not yet published are lost, and so are its
\* manual refreshes.
ApiCrash ==
    /\ used.crashes < MaxCrashes
    /\ Stopped(Requests)
    /\ toPublish' = [c \in Customers |-> 0]
    /\ excused' = excused \union Unannounced(Requests) \union
          (IF \E c \in Customers : toPublish[c] > 0 THEN OutOfDate
           ELSE {s \in Dynamic : \E r \in Requests : stage[r] = "computed" /\ cur[r] = s})
    /\ used' = [used EXCEPT !.crashes = @ + 1]
    /\ UNCHANGED <<store, changeQ, cascadeQ, timers, processor>>

-----------------------------------------------------------------------------
(* The specification *)

\* After scripts/seed.ts: every segment has been evaluated in order.
Init ==
    /\ data \in Data
    /\ mem \in {m \in [Segments -> Memberships] :
                    \A s \in Segments : m[s] = Matches(s, data, m)}
    /\ lock = [s \in Segments |-> None]
    /\ toPublish = [c \in Customers |-> 0]
    /\ changeQ = [c \in Customers |-> 0]
    /\ cascadeQ = [m \in Segments \X Depths |-> 0]
    /\ timers = {}
    /\ isProcessing = FALSE
    /\ hasPending = FALSE
    /\ immediates = 0
    /\ stage = [a \in Actors |-> "idle"]
    /\ todo = [a \in Actors |-> {}]
    /\ cur = [a \in Actors |-> None]
    /\ found = [a \in Actors |-> None]
    /\ src = [a \in Actors |-> None]
    /\ depth = [a \in Actors |-> 0]
    /\ excused = {}
    /\ used = [changes |-> 0, refreshes |-> 0, failures |-> 0, crashes |-> 0]

Evaluation(a) == (\E s \in Segments : Begin(a, s)) \/ Evaluate(a) \/ Commit(a) \/ Broadcast(a)

HandlerStep(h) == CascadeLoads(h) \/ Evaluation(h) \/ CascadeDone(h)

PassStep == PassLoads \/ Evaluation(Pass) \/ PassDone

Consume(p, d) == CascadeDrops(p, d) \/ \E h \in Handlers : CascadeStarts(h, p, d)

Next ==
    \/ \E c \in Customers, d \in Data : ChangeData(c, d)
    \/ \E c \in Customers : PublishChange(c) \/ ConsumeChange(c) \/ TimerFires(c)
    \/ ImmediateFires
    \/ PassStep
    \/ \E p \in Segments, d \in Depths : Consume(p, d)
    \/ \E h \in Handlers : HandlerStep(h) \/ CascadeFails(h)
    \/ \E r \in Requests, s \in Segments : RefreshStarts(r, s)
    \/ \E r \in Requests : Evaluation(r) \/ RefreshDone(r)
    \/ \E a \in Actors : EvalFails(a)
    \/ WorkerCrash
    \/ ApiCrash

Spec == Init /\ [][Next]_vars

\* What is running goes on and what is queued is delivered: the event loops
\* run, the broker delivers, the database answers and grants a lock to its
\* waiters in turn.  Nothing makes a change, a refresh, a failure or a crash
\* happen.
FairSpec ==
    /\ Spec
    /\ \A c \in Customers :
        /\ WF_vars(PublishChange(c))
        /\ WF_vars(ConsumeChange(c))
        /\ WF_vars(TimerFires(c))
    /\ WF_vars(ImmediateFires)
    /\ WF_vars(PassStep)
    /\ \A p \in Segments, d \in Depths : SF_vars(Consume(p, d))
    /\ \A h \in Handlers : WF_vars(HandlerStep(h))
    /\ \A r \in Requests : WF_vars(Evaluation(r) \/ RefreshDone(r))
    /\ \A a \in Actors : SF_vars(Evaluate(a))

-----------------------------------------------------------------------------
(* Properties *)

\* A pass is certain to read the segments later on.
PassIsComing ==
    \/ \E c \in Customers : toPublish[c] > 0 \/ changeQ[c] > 0
    \/ timers # {}
    \/ immediates > 0
    \/ hasPending
    \/ stage[Pass] = "loading"

\* The pass or a cascade handler has still to run the diff query of s.
WillBeEvaluated(s) ==
    \E a \in Worker : s \in todo[a] \/ (stage[a] = "waiting" /\ cur[a] = s)

\* A delta of a parent of s is committed and has not yet made a handler load
\* its children.
ParentDeltaPending(s) ==
    \/ \E p \in Parents[s], d \in Depths : cascadeQ[<<p, d>>] > 0
    \/ \E a \in Actors : stage[a] = "committed" /\ cur[a] \in Parents[s]
    \/ \E h \in Handlers : stage[h] = "loading" /\ src[h] \in Parents[s]

Covered(s) == PassIsComing \/ WillBeEvaluated(s) \/ ParentDeltaPending(s)

\* An open transaction is about to store what the rule of s matches now.
BeingFixed(s) ==
    \E a \in Actors : stage[a] = "computed" /\ cur[a] = s /\ found[a] = Target(s)

\* No change is lost between data, queue, timers, flags, pass, cascade and
\* refresh: a dynamic segment whose snapshot is out of date, or is about to be
\* overwritten by an evaluation that read old data, is going to be evaluated
\* again, unless a crash, a failed evaluation or handler, or the depth limit
\* left it behind and neither a change event nor an evaluation of it came since.
NoLostDrift ==
    \A s \in OutOfDate : s \in excused \/ Covered(s) \/ BeingFixed(s)

\* No chain of references has more links than the limit: the segments can be put on
\* levels up to it, each above its parents.
ShallowGraph ==
    \E level \in [Segments -> Depths] : \A s \in Segments : \A p \in Parents[s] : level[p] < level[s]

\* The depth limit costs nothing in a dependency graph without chains longer than
\* the limit, however many segments it has: no delta that has a child to cascade to
\* is ever dropped, in whatever order passes, handlers and refreshes interleave.
LimitSparesShallowGraphs ==
    ShallowGraph =>
        \A p \in Segments, d \in Depths :
            cascadeQ[<<p, d>>] > 0 /\ Children(p) # {} => ~Cut(d + 1)

\* Nothing but a manual refresh changes a static segment (README, "dynamic vs
\* static"): neither a pass nor the cascade of a parent's delta.
StaticOnlyByRefresh ==
    [][\A s \in Segments \ Dynamic :
        mem'[s] # mem[s] =>
            \E r \in Requests : stage[r] = "computed" /\ cur[r] = s]_vars

\* The snapshots in which every segment matches its rule for data d.
Settled(d) == CHOOSE m \in [Segments -> Memberships] : \A s \in Segments : m[s] = Matches(s, d, m)

\* One change of data takes each segment from the membership that belongs to the
\* old data to the one that belongs to the new data in one delta: of several
\* evaluations all but one are redundant (README, "diamond").
NoMixedSnapshot == \A s \in Segments : \E d \in Data : mem[s] = Settled(d)[s]

\* When changes, refreshes, failures and crashes stop, every dynamic segment that
\* none of them left behind comes to match its rule, and stays so.
EventuallyUpToDate ==
    <>[](\A s \in Dynamic : s \in excused \/ mem[s] = Target(s))

\* When they stop, the worker comes to rest: no pass, timer or cascade goes on
\* for ever, whatever the shape of the dependency graph below the limit.
EventuallyQuiet ==
    <>[](/\ timers = {} /\ ~isProcessing /\ immediates = 0
         /\ \A m \in Segments \X Depths : cascadeQ[m] = 0
         /\ \A a \in Actors : stage[a] = "idle")
=============================================================================
