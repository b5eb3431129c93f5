-------------------------- MODULE DebouncerProofs --------------------------
(***************************************************************************)
(* Theorems about Debouncer for any customers, window and number of        *)
(* events.  The invariants the runs check are not inductive: clearing the  *)
(* timeout of one customer leaves those of the others alone only because   *)
(* handles are never used twice.                                           *)
(***************************************************************************)
EXTENDS Debouncer, TLAPS

\* Handles come from the counter, and no two customers have the same.
HandlesDiffer ==
    /\ \A c \in Customers : timers[c] # None => timers[c] <= events
    /\ \A c, d \in Customers : timers[c] # None /\ timers[c] = timers[d] => c = d

\* Each timeout is the one the map has for its customer, even while shutting down.
TimeoutsAreMapped == \A t \in timeouts : timers[t.customer] = t.handle

\* What the end of the worker took away is gone: only a later event sets a timer again.
DroppedHaveNone ==
    /\ \A t \in timeouts : t.customer \notin dropped
    /\ phase = "down" => timeouts = {}

Waiting == waiting = {t.customer : t \in timeouts} \union dropped

IInv == TypeOK /\ HandlesDiffer /\ TimeoutsAreMapped /\ DroppedHaveNone /\ Waiting /\ QuietBeforePass

\* No timer is set at first.
LEMMA InitInv == Init => IInv
<1> SUFFICES ASSUME Init PROVE IInv
  OBVIOUS
<1>1. TypeOK
  <2>1. timers \in [Customers -> 1 .. MaxEvents \union {None}]
    BY DEF Init
  <2>2. since \in [Customers -> Ages]
    BY WindowAssumption DEF Init, Ages
  <2>3. passes \in Nat /\ events \in 0 .. MaxEvents
    BY WindowAssumption DEF Init
  <2>4. phase = "up" /\ timeouts \subseteq Timeout /\ waiting = {} /\ dropped = {}
    BY DEF Init
  <2> QED
    BY <2>1, <2>2, <2>3, <2>4 DEF TypeOK
<1>2. HandlesDiffer
  BY DEF Init, HandlesDiffer
<1>3. TimeoutsAreMapped /\ DroppedHaveNone /\ QuietBeforePass
  BY DEF Init, TimeoutsAreMapped, DroppedHaveNone, QuietBeforePass
<1>4. Waiting
  BY DEF Init, Waiting
<1> QED
  BY <1>1, <1>2, <1>3, <1>4 DEF IInv

\* Clearing the handle of c takes away the timeout of c and no other.
LEMMA ClearedIsOwn ==
    ASSUME IInv, NEW c \in Customers
    PROVE  Cleared(timers[c]) = {t \in timeouts : t.customer # c}
<1>1. ASSUME NEW t \in timeouts PROVE t.handle # timers[c] <=> t.customer # c
  <2>1. t.handle \in Nat /\ t.customer \in Customers /\ timers[t.customer] = t.handle
    BY WindowAssumption DEF IInv, TypeOK, Timeout, TimeoutsAreMapped
  <2>2. timers[t.customer] # None
    BY <2>1, NoneAssumption
  <2> QED
    BY <2>1, <2>2 DEF IInv, HandlesDiffer
<1> QED
  BY <1>1 DEF Cleared

\* An event of c: the new timeout is the only one of c, with the whole window to go.
LEMMA ScheduleStep ==
    ASSUME IInv, NEW c \in Customers, Schedule(c)
    PROVE  IInv'
<1> DEFINE new == Armed(c, events + 1)
           others == {t \in timeouts : t.customer # c}
<1>1. /\ timeouts' = others \union {new} /\ events' = events + 1
      /\ phase' = phase /\ phase # "down"
  BY ClearedIsOwn DEF Schedule
<1>2. /\ timers' = [timers EXCEPT ![c] = events + 1]
      /\ since' = [since EXCEPT ![c] = 0]
      /\ waiting' = waiting \union {c} /\ dropped' = dropped \ {c}
      /\ passes' = passes
      /\ events + 1 \in 1 .. MaxEvents
  BY WindowAssumption DEF Schedule, IInv, TypeOK
<1>3. new \in Timeout /\ new.customer = c /\ new.handle = events + 1 /\ new.left = Window
  BY <1>2, WindowAssumption DEF Armed, Timeout
<1>4. TypeOK'
  <2>1. timeouts' \subseteq Timeout
    BY <1>1, <1>3 DEF IInv, TypeOK
  <2>2. timers' \in [Customers -> 1 .. MaxEvents \union {None}]
    BY <1>2 DEF IInv, TypeOK
  <2>3. since' \in [Customers -> Ages]
    BY <1>2, WindowAssumption DEF IInv, TypeOK, Ages
  <2>4. /\ waiting' \subseteq Customers /\ dropped' \subseteq Customers
        /\ passes' \in Nat /\ phase' \in {"up", "closing", "down"}
    BY <1>1, <1>2 DEF IInv, TypeOK
  <2>5. events' \in 0 .. MaxEvents
    BY <1>1, <1>2, WindowAssumption
  <2> QED
    BY <2>1, <2>2, <2>3, <2>4, <2>5 DEF TypeOK
<1>5. HandlesDiffer'
  <2>1. \A d \in Customers : timers[d] # None => timers[d] \in 1 .. MaxEvents /\ timers[d] <= events
    BY DEF IInv, TypeOK, HandlesDiffer
  <2>2. \A d \in Customers : timers'[d] = IF d = c THEN events + 1 ELSE timers[d]
    BY <1>2 DEF IInv, TypeOK
  <2>3. events \in Nat
    BY DEF IInv, TypeOK
  <2>4. \A d \in Customers : timers'[d] # None => timers'[d] <= events'
    BY <1>1, <2>1, <2>2, <2>3, WindowAssumption
  <2>5. ASSUME NEW d \in Customers, NEW e \in Customers, timers'[d] # None, timers'[d] = timers'[e]
        PROVE  d = e
    BY <2>1, <2>2, <2>3, <2>5, WindowAssumption DEF IInv, HandlesDiffer
  <2> QED
    BY <2>4, <2>5 DEF HandlesDiffer
<1>6. TimeoutsAreMapped'
  <2>1. ASSUME NEW t \in others PROVE timers'[t.customer] = t.handle
    BY <1>2, <2>1 DEF IInv, TypeOK, Timeout, TimeoutsAreMapped
  <2>2. timers'[new.customer] = new.handle
    BY <1>2, <1>3 DEF IInv, TypeOK
  <2> QED
    BY <1>1, <2>1, <2>2 DEF TimeoutsAreMapped
<1>7. DroppedHaveNone'
  BY <1>1, <1>2, <1>3 DEF IInv, DroppedHaveNone
<1>8. Waiting'
  <2>1. {t.customer : t \in timeouts} \union {c} = {t.customer : t \in others \union {new}}
    BY <1>3
  <2>2. (waiting \union {c}) = ({t.customer : t \in timeouts} \union {c}) \union (dropped \ {c})
    BY DEF IInv, Waiting
  <2> QED
    BY <1>1, <1>2, <2>1, <2>2 DEF Waiting
<1>9. QuietBeforePass'
  <2>1. ASSUME NEW t \in others PROVE t.left + since'[t.customer] = Window
    BY <1>2, <2>1 DEF IInv, TypeOK, Timeout, QuietBeforePass
  <2>2. new.left + since'[new.customer] = Window
    BY <1>2, <1>3, WindowAssumption DEF IInv, TypeOK
  <2> QED
    BY <1>1, <2>1, <2>2 DEF QuietBeforePass
<1> QED
  BY <1>4, <1>5, <1>6, <1>7, <1>8, <1>9 DEF IInv

\* A callback: its customer has no other timeout, so the entry it deletes is its own.
LEMMA FireStep ==
    ASSUME IInv, NEW t \in timeouts, Fire(t)
    PROVE  IInv'
<1>1. ASSUME NEW u \in timeouts, u.customer = t.customer PROVE u = t
  <2>1. u \in Timeout /\ t \in Timeout
    BY DEF IInv, TypeOK
  <2>2. u.handle = t.handle
    BY <1>1 DEF IInv, TimeoutsAreMapped
  <2>3. u.left + since[t.customer] = Window /\ t.left + since[t.customer] = Window
    BY <1>1 DEF IInv, QuietBeforePass
  <2>4. since[t.customer] \in Int /\ u.left \in Int /\ t.left \in Int
    BY <2>1, WindowAssumption DEF IInv, TypeOK, Timeout, Ages
  <2>5. u.left = t.left
    BY <2>3, <2>4, WindowAssumption
  <2> QED
    BY <1>1, <2>1, <2>2, <2>5 DEF Timeout
<1>2. t.customer \in Customers
  BY DEF IInv, TypeOK, Timeout
<1>3. TypeOK'
  <2>1. timers' \in [Customers -> 1 .. MaxEvents \union {None}] /\ timeouts' \subseteq Timeout
    BY DEF IInv, TypeOK, Fire
  <2>2. passes' \in Nat /\ waiting' \subseteq Customers
    BY DEF IInv, TypeOK, Fire
  <2> QED
    BY <2>1, <2>2 DEF IInv, TypeOK, Fire
<1>4. \A c \in Customers : timers'[c] = IF c = t.customer THEN None ELSE timers[c]
  BY DEF IInv, TypeOK, Fire
<1>5. HandlesDiffer'
  <2>1. events' = events
    BY DEF Fire
  <2> QED
    BY <1>4, <2>1 DEF IInv, HandlesDiffer
<1>6. TimeoutsAreMapped'
  <2>1. ASSUME NEW u \in timeouts' PROVE timers'[u.customer] = u.handle
    <3>1. u \in timeouts /\ u # t /\ u.customer \in Customers
      BY DEF Fire, IInv, TypeOK, Timeout
    <3>2. u.customer # t.customer
      BY <1>1, <3>1
    <3> QED
      BY <1>4, <3>1, <3>2 DEF IInv, TimeoutsAreMapped
  <2> QED
    BY <2>1 DEF TimeoutsAreMapped
<1>7. DroppedHaveNone'
  BY DEF Fire, IInv, DroppedHaveNone
<1>8. Waiting'
  <2>1. {u.customer : u \in timeouts} \ {t.customer} = {u.customer : u \in timeouts \ {t}}
    BY <1>1
  <2>2. t.customer \notin dropped
    BY DEF IInv, DroppedHaveNone
  <2>3. waiting \ {t.customer} = ({u.customer : u \in timeouts} \ {t.customer}) \union dropped
    BY <2>2 DEF IInv, Waiting
  <2> QED
    BY <2>1, <2>3 DEF Fire, Waiting
<1>9. QuietBeforePass'
  BY DEF Fire, IInv, QuietBeforePass
<1> QED
  BY <1>3, <1>5, <1>6, <1>7, <1>8, <1>9 DEF IInv

\* A tick: a customer with a timeout is younger than the window, so its age counts on.
LEMMA TickStep == ASSUME IInv, Tick PROVE IInv'
<1> DEFINE later(t) == [t EXCEPT !.left = @ - 1]
<1>1. ASSUME NEW t \in timeouts
      PROVE  /\ later(t) \in Timeout
             /\ later(t).customer = t.customer /\ later(t).handle = t.handle
             /\ later(t).left + since'[t.customer] = Window
  <2>1. t \in Timeout /\ t.left > 0 /\ t.customer \in Customers /\ t.left \in 0 .. Window
    BY DEF IInv, TypeOK, Tick, Timeout
  <2>2. later(t) = [handle |-> t.handle, customer |-> t.customer, left |-> t.left - 1]
    BY <2>1 DEF Timeout
  <2>3. since[t.customer] \in 0 .. Window + 1 /\ t.left + since[t.customer] = Window
    BY <2>1 DEF IInv, TypeOK, Ages, QuietBeforePass
  <2>4. since'[t.customer] = since[t.customer] + 1
    BY <2>1, <2>3, WindowAssumption DEF Tick, Older
  <2>5. t.left - 1 \in 0 .. Window
    BY <2>1, WindowAssumption
  <2>6. later(t) \in Timeout
    BY <2>1, <2>2, <2>5 DEF Timeout
  <2>7. (t.left - 1) + since'[t.customer] = Window
    BY <2>1, <2>3, <2>4, WindowAssumption
  <2> QED
    BY <2>2, <2>6, <2>7
<1>2. timeouts' = {later(t) : t \in timeouts}
  BY DEF Tick
<1>3. TypeOK'
  <2>1. timeouts' \subseteq Timeout
    BY <1>1, <1>2
  <2>2. since' \in [Customers -> Ages]
    BY WindowAssumption DEF IInv, TypeOK, Tick, Older, Ages
  <2> QED
    BY <2>1, <2>2 DEF IInv, TypeOK, Tick
<1>4. HandlesDiffer'
  BY DEF Tick, IInv, HandlesDiffer
<1>5. TimeoutsAreMapped'
  <2>1. timers' = timers
    BY DEF Tick
  <2>2. ASSUME NEW t \in timeouts PROVE timers'[later(t).customer] = later(t).handle
    BY <1>1, <2>1, <2>2 DEF IInv, TimeoutsAreMapped
  <2> HIDE DEF later
  <2> QED
    BY <1>2, <2>2 DEF TimeoutsAreMapped
<1>6. DroppedHaveNone'
  <2>1. ASSUME NEW t \in timeouts PROVE later(t).customer \notin dropped'
    BY <1>1, <2>1 DEF Tick, IInv, DroppedHaveNone
  <2>2. phase' = phase
    BY DEF Tick
  <2> HIDE DEF later
  <2> QED
    BY <1>2, <2>1, <2>2 DEF IInv, DroppedHaveNone
<1>7. Waiting'
  <2>1. {t.customer : t \in timeouts} = {u.customer : u \in {later(t) : t \in timeouts}}
    BY <1>1
  <2> QED
    BY <1>2, <2>1 DEF Tick, IInv, Waiting
<1>8. QuietBeforePass'
  <2>1. ASSUME NEW t \in timeouts PROVE later(t).left + since'[later(t).customer] = Window
    BY <1>1, <2>1
  <2> HIDE DEF later
  <2> QED
    BY <1>2, <2>1 DEF QuietBeforePass
<1> QED
  BY <1>3, <1>4, <1>5, <1>6, <1>7, <1>8 DEF IInv

\* A shutdown: the map has a handle for each timeout, so none is left running, nor is
\* any when the process ends.
LEMMA EndStep == ASSUME IInv, Destroy \/ Exit PROVE IInv'
<1>1. Remaining = {}
  BY DEF Remaining, IInv, TypeOK, Timeout, TimeoutsAreMapped
<1>2. /\ timeouts' = {} /\ timers' = [c \in Customers |-> None]
      /\ phase' \in {"up", "closing", "down"}
      /\ dropped' = waiting /\ UNCHANGED <<passes, events, since, waiting>>
  BY <1>1 DEF Destroy, Exit
<1>3. TypeOK'
  BY <1>2 DEF IInv, TypeOK
<1> QED
  BY <1>2, <1>3 DEF IInv, HandlesDiffer, TimeoutsAreMapped, DroppedHaveNone, Waiting, QuietBeforePass

\* An event replaces the timer of its customer, and a timeout removes its own.
LEMMA NextInv == IInv /\ [Next]_vars => IInv'
<1> SUFFICES ASSUME IInv, [Next]_vars PROVE IInv'
  OBVIOUS
<1>1. ASSUME NEW c \in Customers, Schedule(c) PROVE IInv'
  BY <1>1, ScheduleStep
<1>2. ASSUME NEW t \in timeouts, Fire(t) PROVE IInv'
  BY <1>2, FireStep
<1>3. CASE Tick
  BY <1>3, TickStep
<1>4. CASE Destroy \/ Exit
  BY <1>4, EndStep
<1>5. CASE UNCHANGED vars
  BY <1>5 DEF vars, IInv, TypeOK, HandlesDiffer, TimeoutsAreMapped, DroppedHaveNone, Waiting,
              QuietBeforePass
<1> QED
  BY <1>1, <1>2, <1>3, <1>4, <1>5 DEF Next

\* The invariant holds throughout.
LEMMA Invariance == Spec => []IInv
BY InitInv, NextInv, PTL DEF Spec

-----------------------------------------------------------------------------
(* The theorems *)

\* The map and the timeouts keep their types for any window and any customers.
THEOREM TypeCorrect == Spec => []TypeOK
<1>1. IInv => TypeOK
  BY DEF IInv
<1> QED
  BY <1>1, Invariance, PTL

\* No pass is asked for before its customer has been quiet for the whole window, nor
\* later: scheduleCustomer clears the timeout of every earlier event.
THEOREM PassAfterQuiet == Spec => []QuietBeforePass
<1>1. IInv => QuietBeforePass
  BY DEF IInv
<1> QED
  BY <1>1, Invariance, PTL

\* Each customer with an event has a timeout that will ask for a pass, whatever happens to
\* the timeouts of the others, unless the end of the worker took it away.
THEOREM NoEventForgotten == Spec => []WaitingIsScheduled
<1>1. IInv => WaitingIsScheduled
  BY DEF IInv, Waiting, TimeoutsAreMapped, WaitingIsScheduled
<1> QED
  BY <1>1, Invariance, PTL

\* onModuleDestroy clears every timeout there is: of the customers it drops none gets a pass
\* without another event, and none does once the process has ended (scheduleCustomer and
\* onModuleDestroy).
THEOREM PassAfterStopIsForLaterEvent == Spec => NoEarlierPassAfterStop
<1> DEFINE A == passes' # passes => /\ phase # "down"
                                    /\ \E c \in waiting \ waiting' : c \notin dropped
<1>1. ASSUME IInv, NEW t \in timeouts, Fire(t) PROVE A
  <2>1. t.customer \notin dropped /\ phase # "down" /\ t.customer \in waiting
    BY <1>1 DEF IInv, DroppedHaveNone, Waiting
  <2>2. waiting' = waiting \ {t.customer}
    BY <1>1 DEF Fire
  <2> QED
    BY <2>1, <2>2
<1>2. ASSUME Next, \A t \in timeouts : ~Fire(t) PROVE passes' = passes
  BY <1>2 DEF Next, Schedule, Tick, Destroy, Exit
<1>3. IInv /\ [Next]_vars => [A]_vars
  BY <1>1, <1>2
<1> QED
  BY <1>3, Invariance, PTL DEF Spec, NoEarlierPassAfterStop
=============================================================================
