----------------------------- MODULE Debouncer -----------------------------
(***************************************************************************)
(* worker/src/processing/debouncer.service.ts with its two callers in the  *)
(* change event handlers: 500 ms after the last change of a customer the   *)
(* worker asks for an evaluation pass.                                     *)
(*                                                                         *)
(* Time goes by in ticks; a timeout is run at the tick it is due, before   *)
(* the next tick.  The map of the service and the timeouts of Node.js are  *)
(* separate: clearing a timeout and forgetting its handle are two things.  *)
(***************************************************************************)
EXTENDS Integers, FiniteSets

CONSTANTS
    Customers,
    Window,     \* debounceMs, in ticks
    None,
    MaxEvents   \* bound: events consumed

ASSUME WindowAssumption == Window \in Nat \ {0} /\ MaxEvents \in Nat

ASSUME NoneAssumption == None \notin Nat

VARIABLES
    timers,     \* the map: the handle of each customer, or None
    timeouts,   \* what Node.js has to run: handle, customer, ticks left
    phase,      \* of the process: "up", "closing" once onModuleDestroy has run, "down"
    passes,     \* calls of runEvaluationPass
    events,     \* change events handled, and the source of handles
    since,      \* history: ticks since the last event of each customer
    waiting,    \* history: customers with an event no pass has been asked for since
    dropped     \* history: those of them whose timeout the end of the worker took away

vars == <<timers, timeouts, phase, passes, events, since, waiting, dropped>>

-----------------------------------------------------------------------------

\* An age above the window is all the same.
Ages == 0 .. Window + 1

Older(age) == IF age > Window THEN age ELSE age + 1

Timeout == [handle : 1 .. MaxEvents, customer : Customers, left : 0 .. Window]

TypeOK ==
    /\ timers \in [Customers -> 1 .. MaxEvents \union {None}]
    /\ timeouts \subseteq Timeout
    /\ phase \in {"up", "closing", "down"}
    /\ passes \in Nat /\ events \in 0 .. MaxEvents
    /\ since \in [Customers -> Ages] /\ waiting \subseteq Customers /\ dropped \subseteq Customers

-----------------------------------------------------------------------------

\* Mutant of Cleared: the timeout before is forgotten but still runs.
NotCleared(handle) == timeouts

\* Mutant of Cleared: the timeout of whoever was last is cleared.
ClearedLatest(handle) == {t \in timeouts : t.handle # events}

Cleared(handle) == {t \in timeouts : t.handle # handle}

Armed(c, handle) == [handle |-> handle, customer |-> c, left |-> Window]

\* scheduleCustomer, for an event the process consumes: it does not ask whether
\* onModuleDestroy has run, and the consumers are closed after it.
Schedule(c) ==
    /\ phase # "down" /\ events < MaxEvents
    /\ events' = events + 1
    /\ timeouts' = Cleared(timers[c]) \union {Armed(c, events')}
    /\ timers' = [timers EXCEPT ![c] = events']
    /\ since' = [since EXCEPT ![c] = 0]
    /\ waiting' = waiting \union {c} /\ dropped' = dropped \ {c}
    /\ UNCHANGED <<phase, passes>>

\* The callback of a timeout that is due.
Fire(t) ==
    /\ t \in timeouts /\ t.left = 0
    /\ timeouts' = timeouts \ {t}
    /\ timers' = [timers EXCEPT ![t.customer] = None]
    /\ passes' = passes + 1
    /\ waiting' = waiting \ {t.customer}
    /\ UNCHANGED <<phase, events, since, dropped>>

Tick ==
    /\ \A t \in timeouts : t.left > 0
    /\ timeouts' = {[t EXCEPT !.left = @ - 1] : t \in timeouts}
    /\ since' = [c \in Customers |-> Older(since[c])]
    /\ UNCHANGED <<timers, phase, passes, events, waiting, dropped>>

\* Mutant of Remaining: the timeouts go on after the module is gone.
Kept == timeouts

\* What onModuleDestroy leaves.
Remaining == {t \in timeouts : \A c \in Customers : t.handle # timers[c]}

\* onModuleDestroy: the worker begins to shut down.
Destroy ==
    /\ phase = "up" /\ phase' = "closing"
    /\ timeouts' = Remaining
    /\ timers' = [c \in Customers |-> None]
    /\ dropped' = waiting
    /\ UNCHANGED <<passes, events, since, waiting>>

\* The process ends, at the end of a shutdown or in a crash.
Exit ==
    /\ phase # "down" /\ phase' = "down"
    /\ timeouts' = {}
    /\ timers' = [c \in Customers |-> None]
    /\ dropped' = waiting
    /\ UNCHANGED <<passes, events, since, waiting>>

Init ==
    /\ timers = [c \in Customers |-> None] /\ timeouts = {}
    /\ phase = "up" /\ passes = 0 /\ events = 0
    /\ since = [c \in Customers |-> Window + 1] /\ waiting = {} /\ dropped = {}

Next ==
    \/ \E c \in Customers : Schedule(c)
    \/ \E t \in timeouts : Fire(t)
    \/ Tick \/ Destroy \/ Exit

\* Time goes on and timeouts are run.
Fairness == WF_vars(Tick) /\ WF_vars(\E t \in timeouts : Fire(t))

Spec == Init /\ [][Next]_vars /\ Fairness

-----------------------------------------------------------------------------
(* Properties *)

\* A pass is asked for on behalf of a customer exactly when the customer has been quiet
\* for the window, not a tick earlier, whatever the other customers do: no timeout of an
\* earlier event survives a later one (scheduleCustomer).
QuietBeforePass == \A t \in timeouts : t.left + since[t.customer] = Window

\* The customers waiting are the ones a live timeout will fire for and those the end of
\* the worker dropped: otherwise no change is forgotten, however its events interleave
\* with callbacks, and onModuleDestroy finds every timeout there is in the map.
WaitingIsScheduled ==
    /\ waiting = {t.customer : t \in timeouts} \union dropped
    /\ \A t \in timeouts : timers[t.customer] = t.handle

\* A pass asked for after onModuleDestroy is one for an event consumed after it, which sets
\* a timer in spite of it: no timer set before it fires, whichever were set, cleared or run
\* when it came, and none at all once the process has ended.
NoEarlierPassAfterStop ==
    [][passes' # passes => /\ phase # "down"
                           /\ \E c \in waiting \ waiting' : c \notin dropped]_vars

\* Events may postpone the pass of a customer, but once they cease it is asked for.
QuietIsEvaluated ==
    \A c \in Customers : c \in waiting ~> (c \notin waiting \/ phase # "up")

=============================================================================
