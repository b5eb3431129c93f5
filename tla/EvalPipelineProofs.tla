------------------------- MODULE EvalPipelineProofs -------------------------
(***************************************************************************)
(* Theorems about EvalPipeline for any customers, rules, dependency graph, *)
(* number of handlers and of refreshes, and any bounds.                    *)
(***************************************************************************)
EXTENDS EvalPipeline, FiniteSetTheorems, TLAPS

-----------------------------------------------------------------------------
(* What the actors are doing *)

\* An actor that evaluates has a segment; in a transaction it holds that
\* segment's lock and has found a membership.
EvaluatorsHoldTheirLocks ==
    \A a \in Actors :
        /\ stage[a] \in {"waiting", "computed", "committed"} => cur[a] \in Segments
        /\ stage[a] = "computed" => lock[cur[a]] = a /\ found[a] \in Memberships

\* Only workers load segments; whoever is not between two evaluations has none
\* left to do when it loads or rests.
LoadersHaveNothingToDo ==
    /\ \A r \in Requests : stage[r] # "loading"
    /\ \A a \in Actors : stage[a] \in {"idle", "loading"} => todo[a] = {}

\* A busy handler holds the message it came from, and evaluates only children of
\* the segment of that message.
HandlersServeTheirMessage ==
    \A h \in Handlers :
        /\ stage[h] # "idle" => src[h] \in Segments /\ depth[h] >= 1
        /\ todo[h] \subseteq Children(src[h])
        /\ stage[h] \in {"waiting", "computed"} => cur[h] \in Children(src[h])

\* isProcessing is set exactly while there is a pass, and only then can another
\* one be pending.
FlagsFollowThePass ==
    /\ isProcessing <=> stage[Pass] # "idle"
    /\ hasPending => isProcessing

ControlInv ==
    /\ TypeOK
    /\ EvaluatorsHoldTheirLocks
    /\ LoadersHaveNothingToDo
    /\ HandlersServeTheirMessage
    /\ FlagsFollowThePass

\* Nothing runs in the initial state.
LEMMA ControlInit == Init => ControlInv
<1> SUFFICES ASSUME Init PROVE ControlInv
  OBVIOUS
<1>1. TypeOK
  <2>1. mem \in [Segments -> Memberships]
    BY DEF Init
  <2>2. /\ cascadeQ \in [Segments \X Depths -> Nat]
        /\ depth \in [Actors -> Depths]
    BY GraphAssumption DEF Init, Depths
  <2> QED
    BY <2>1, <2>2 DEF Init, TypeOK, Stages
<1>2. EvaluatorsHoldTheirLocks /\ LoadersHaveNothingToDo /\ HandlersServeTheirMessage
  BY DEF Init, EvaluatorsHoldTheirLocks, LoadersHaveNothingToDo,
         HandlersServeTheirMessage, Actors, Worker
<1>3. FlagsFollowThePass
  BY DEF Init, FlagsFollowThePass, Actors, Worker
<1> QED
  BY <1>1, <1>2, <1>3 DEF ControlInv

\* Every action keeps the types: a message is only taken from a queue that holds
\* one, and a handler starts only below the depth limit.
LEMMA TypeStep == ControlInv /\ [Next]_vars => TypeOK'
<1> SUFFICES ASSUME ControlInv, [Next]_vars PROVE TypeOK'
  OBVIOUS
<1> USE ActorAssumption, GraphAssumption
    DEF ControlInv, TypeOK, Stages, store, queues, processor, actors
<1>0. 0 \in Depths
  BY DEF Depths
<1>rest. ASSUME NEW as \in SUBSET Actors, Rest(as)
         PROVE  /\ stage' \in [Actors -> Stages]
                /\ todo' \in [Actors -> SUBSET Segments]
                /\ cur' \in [Actors -> Segments \union {None}]
                /\ found' \in [Actors -> Memberships \union {None}]
                /\ src' \in [Actors -> Segments \union {None}]
                /\ depth' \in [Actors -> Depths]
  BY <1>0, <1>rest DEF Rest
<1>1. ASSUME NEW c \in Customers, NEW d \in Data, ChangeData(c, d) PROVE TypeOK'
  BY <1>1 DEF ChangeData
<1>2. ASSUME NEW c \in Customers, PublishChange(c) PROVE TypeOK'
  BY <1>2 DEF PublishChange
<1>3. ASSUME NEW c \in Customers, ConsumeChange(c) PROVE TypeOK'
  BY <1>3 DEF ConsumeChange
<1>4. ASSUME NEW c \in Customers, TimerFires(c) PROVE TypeOK'
  BY <1>4 DEF TimerFires, RequestPass
<1>5. CASE ImmediateFires
  <2>1. immediates' \in Nat
    BY <1>5 DEF ImmediateFires
  <2>2. stage' \in [Actors -> Stages] /\ isProcessing' \in BOOLEAN /\ hasPending' \in BOOLEAN
    BY <1>5 DEF ImmediateFires, RequestPass
  <2> QED
    BY <1>5, <2>1, <2>2 DEF ImmediateFires, RequestPass
<1>6. CASE PassLoads
  <2>1. depth' \in [Actors -> Depths]
    BY <1>0, <1>6 DEF PassLoads
  <2> QED
    BY <1>6, <2>1 DEF PassLoads
<1>7. ASSUME NEW a \in Actors, NEW s \in Segments, Begin(a, s) PROVE TypeOK'
  BY <1>7 DEF Begin
<1>8. ASSUME NEW a \in Actors, Evaluate(a) PROVE TypeOK'
  <2>1. cur[a] \in Segments
    BY <1>8 DEF Evaluate, EvaluatorsHoldTheirLocks
  <2>2. Target(cur[a]) \in Memberships
    BY <2>1, RuleAssumption DEF Target
  <2>3. found' \in [Actors -> Memberships \union {None}]
    BY <1>8, <2>2 DEF Evaluate
  <2> QED
    BY <1>8, <2>3 DEF Evaluate
<1>9. ASSUME NEW a \in Actors, Commit(a) PROVE TypeOK'
  <2>1. mem' \in [Segments -> Memberships]
    BY <1>9 DEF Commit, EvaluatorsHoldTheirLocks
  <2>2. lock' \in [Segments -> Actors \union {None}]
    BY <1>9 DEF Commit, LocksWithout
  <2> QED
    BY <1>9, <2>1, <2>2 DEF Commit
<1>10. ASSUME NEW a \in Actors, Broadcast(a) PROVE TypeOK'
  <2>1. cascadeQ' \in [Segments \X Depths -> Nat]
    <3>1. cascadeQ' = [cascadeQ EXCEPT ![<<cur[a], depth[a]>>] = @ + 1]
      BY <1>10 DEF Broadcast, Enqueued
    <3>2. \A m \in Segments \X Depths : cascadeQ[m] + 1 \in Nat
      OBVIOUS
    <3> HIDE DEF Depths
    <3> QED
      BY <3>1, <3>2
  <2> QED
    BY <1>10, <2>1 DEF Broadcast
<1>11. CASE PassDone
  <2>1. isProcessing' \in BOOLEAN /\ hasPending' \in BOOLEAN
    BY <1>11 DEF PassDone, Reschedule
  <2>3. immediates' \in Nat
    <3>1. immediates' = immediates + 1 \/ immediates' = immediates
      BY <1>11 DEF PassDone, Reschedule
    <3> QED
      BY <3>1
  <2>2. {Pass} \in SUBSET Actors
    BY DEF Actors, Worker
  <2> QED
    BY <1>11, <1>rest, <2>1, <2>2, <2>3 DEF PassDone
<1>12. ASSUME NEW p \in Segments, NEW d \in Depths, CascadeDrops(p, d) PROVE TypeOK'
  BY <1>12 DEF CascadeDrops, Dequeued
<1>13. ASSUME NEW h \in Handlers, NEW p \in Segments, NEW d \in Depths, CascadeStarts(h, p, d)
       PROVE  TypeOK'
  BY <1>13 DEF CascadeStarts, Dequeued, Cut, Depths, Actors, Worker
<1>14. ASSUME NEW h \in Handlers, CascadeLoads(h) PROVE TypeOK'
  BY <1>14 DEF CascadeLoads, CascadeTargets, Children
<1>15. ASSUME NEW h \in Handlers, CascadeDone(h) PROVE TypeOK'
  BY <1>15, <1>rest, {h} \in SUBSET Actors DEF CascadeDone, Actors, Worker
<1>16. ASSUME NEW h \in Handlers, CascadeFails(h) PROVE TypeOK'
  BY <1>16, <1>rest, {h} \in SUBSET Actors DEF CascadeFails, Actors, Worker
<1>17. ASSUME NEW r \in Requests, NEW s \in Segments, RefreshStarts(r, s) PROVE TypeOK'
  <2>1. depth' \in [Actors -> Depths]
    BY <1>0, <1>17 DEF RefreshStarts
  <2> QED
    BY <1>17, <2>1 DEF RefreshStarts
<1>18. ASSUME NEW r \in Requests, RefreshDone(r) PROVE TypeOK'
  BY <1>18, <1>rest, {r} \in SUBSET Actors DEF RefreshDone, Actors, Worker
<1>19. ASSUME NEW a \in Actors, EvalFails(a) PROVE TypeOK'
  <2>1. excused' \in SUBSET Dynamic
    BY <1>19 DEF EvalFails, Unannounced
  <2>2. lock' \in [Segments -> Actors \union {None}]
    BY <1>19 DEF EvalFails, LocksWithout
  <2>3. used' \in [changes : Nat, refreshes : Nat, failures : Nat, crashes : Nat]
    BY <1>19 DEF EvalFails
  <2> QED
    BY <1>19, <2>1, <2>2, <2>3 DEF EvalFails
<1>20. CASE WorkerCrash
  <2>1. excused' \in SUBSET Dynamic
    BY <1>20 DEF WorkerCrash, Unannounced, OutOfDate
  <2>2. lock' \in [Segments -> Actors \union {None}]
    BY <1>20 DEF WorkerCrash, Stopped, LocksWithout
  <2>3. used' \in [changes : Nat, refreshes : Nat, failures : Nat, crashes : Nat]
    BY <1>20 DEF WorkerCrash
  <2>4. cascadeQ' \in [Segments \X Depths -> Nat]
    <3>1. \A m \in Segments \X Depths :
            Cardinality({h \in Handlers :
                stage[h] # "idle" /\ src[h] = m[1] /\ depth[h] = m[2] + 1}) \in Nat
      <4> TAKE m \in Segments \X Depths
      <4> DEFINE hs == {h \in Handlers :
                          stage[h] # "idle" /\ src[h] = m[1] /\ depth[h] = m[2] + 1}
      <4>1. IsFiniteSet(hs)
        BY FS_Subset, hs \subseteq Handlers
      <4> QED
        BY <4>1, FS_CardinalityType
    <3> QED
      BY <1>20, <3>1 DEF WorkerCrash, Redelivered
  <2> QED
    BY <1>20, <1>rest, <2>1, <2>2, <2>3, <2>4 DEF WorkerCrash, Stopped, Actors
<1>21. CASE ApiCrash
  <2>1. excused' \in SUBSET Dynamic
    BY <1>21 DEF ApiCrash, Unannounced, OutOfDate
  <2>2. lock' \in [Segments -> Actors \union {None}]
    BY <1>21 DEF ApiCrash, Stopped, LocksWithout
  <2>3. used' \in [changes : Nat, refreshes : Nat, failures : Nat, crashes : Nat]
    BY <1>21 DEF ApiCrash
  <2> QED
    BY <1>21, <1>rest, <2>1, <2>2, <2>3 DEF ApiCrash, Stopped, Actors
<1>22. CASE UNCHANGED vars
  BY <1>22 DEF vars
<1> QED
  BY <1>1, <1>2, <1>3, <1>4, <1>5, <1>6, <1>7, <1>8, <1>9, <1>10, <1>11, <1>12, <1>13,
     <1>14, <1>15, <1>16, <1>17, <1>18, <1>19, <1>20, <1>21, <1>22
  DEF Next, PassStep, Evaluation, HandlerStep, Consume, Actors, Worker

\* Every action keeps the locks, the local variables of the actors and the flags
\* of the processor in step with what the actors are doing.
LEMMA ControlStep == ControlInv /\ [Next]_vars => ControlInv'
<1> SUFFICES ASSUME ControlInv, [Next]_vars PROVE ControlInv'
  OBVIOUS
<1> USE ActorAssumption
    DEF ControlInv, EvaluatorsHoldTheirLocks, LoadersHaveNothingToDo,
        HandlersServeTheirMessage, FlagsFollowThePass,
        store, queues, processor, actors
<1>0. TypeOK' /\ TypeOK
  BY TypeStep
<1>rest. ASSUME NEW as \in SUBSET Actors, Rest(as),
                lock' = LocksWithout(as) \/ (lock' = lock /\ \A a \in as : stage[a] # "computed")
         PROVE  /\ EvaluatorsHoldTheirLocks'
                /\ LoadersHaveNothingToDo'
                /\ HandlersServeTheirMessage'
  <2>1. \A a \in Actors :
          /\ a \in as => stage'[a] = "idle" /\ todo'[a] = {}
          /\ a \notin as => /\ stage'[a] = stage[a] /\ todo'[a] = todo[a]
                            /\ cur'[a] = cur[a] /\ found'[a] = found[a]
                            /\ src'[a] = src[a] /\ depth'[a] = depth[a]
    BY <1>rest DEF Rest
  <2>2. ASSUME NEW a \in Actors, stage'[a] = "computed" PROVE lock'[cur'[a]] = a
    <3>1. a \notin as /\ stage[a] = "computed" /\ cur'[a] = cur[a] /\ cur[a] \in Segments
      BY <2>1, <2>2
    <3>2. lock[cur[a]] = a
      BY <3>1
    <3>3. CASE lock' = LocksWithout(as)
      BY <3>1, <3>2, <3>3 DEF LocksWithout
    <3> QED
      BY <1>rest, <3>1, <3>2, <3>3
  <2>3. EvaluatorsHoldTheirLocks'
    BY <2>1, <2>2
  <2>4. LoadersHaveNothingToDo'
    BY <2>1 DEF Actors
  <2>5. HandlersServeTheirMessage'
    BY <2>1 DEF Actors, Worker, Children
  <2> QED
    BY <2>3, <2>4, <2>5
<1>1. ASSUME NEW c \in Customers, NEW d \in Data, ChangeData(c, d) PROVE ControlInv'
  BY <1>0, <1>1 DEF ChangeData, Children
<1>2. ASSUME NEW c \in Customers, PublishChange(c) PROVE ControlInv'
  BY <1>0, <1>2 DEF PublishChange, Children
<1>3. ASSUME NEW c \in Customers, ConsumeChange(c) PROVE ControlInv'
  BY <1>0, <1>3 DEF ConsumeChange, Children
<1>pass. ASSUME RequestPass, lock' = lock
         PROVE  /\ EvaluatorsHoldTheirLocks' /\ LoadersHaveNothingToDo'
                /\ HandlersServeTheirMessage' /\ FlagsFollowThePass'
  BY <1>0, <1>pass DEF RequestPass, TypeOK, Actors, Worker, Children
<1>4. ASSUME NEW c \in Customers, TimerFires(c) PROVE ControlInv'
  BY <1>0, <1>4, <1>pass DEF TimerFires
<1>5. CASE ImmediateFires
  BY <1>0, <1>5, <1>pass DEF ImmediateFires
<1>6. CASE PassLoads
  BY <1>0, <1>6 DEF PassLoads, TypeOK, Actors, Worker, Children
<1>7. ASSUME NEW a \in Actors, NEW s \in Segments, Begin(a, s) PROVE ControlInv'
  BY <1>0, <1>7 DEF Begin, TypeOK, Actors, Worker, Children
<1>8. ASSUME NEW a \in Actors, Evaluate(a) PROVE ControlInv'
  <2> DEFINE s == cur[a]
  <2>1. s \in Segments /\ stage[a] = "waiting" /\ lock[s] = None
    BY <1>8 DEF Evaluate, MayLock
  <2>2. \A b \in Actors \ {a} : stage'[b] = stage[b] /\ found'[b] = found[b]
    BY <1>0, <1>8 DEF Evaluate, TypeOK
  <2>3. UNCHANGED <<todo, cur, src, depth, isProcessing, hasPending>>
    BY <1>8 DEF Evaluate
  <2>4. \/ stage'[a] = "next" /\ lock' = lock
        \/ /\ stage'[a] = "computed" /\ found'[a] \in Memberships
           /\ lock' = [lock EXCEPT ![s] = a]
    <3>1. Target(s) \in Memberships
      BY <1>0, <2>1, RuleAssumption DEF Target, TypeOK
    <3>2. CASE mem[s] = Target(s)
      BY <1>0, <1>8, <3>2 DEF Evaluate, TypeOK
    <3>3. CASE mem[s] # Target(s)
      BY <1>0, <1>8, <3>1, <3>3 DEF Evaluate, TypeOK
    <3> QED
      BY <3>2, <3>3
  <2>5. ASSUME NEW b \in Actors, stage'[b] = "computed"
        PROVE  lock'[cur'[b]] = b /\ found'[b] \in Memberships
    <3>1. CASE b = a
      BY <1>0, <2>1, <2>3, <2>4, <2>5, <3>1 DEF TypeOK
    <3>2. CASE b # a
      <4>1. stage[b] = "computed" /\ lock[cur[b]] = b /\ cur[b] # s /\ b # None
        BY <2>1, <2>2, <2>5, <3>2
      <4> QED
        BY <1>0, <2>2, <2>3, <2>4, <3>2, <4>1 DEF TypeOK
    <3> QED
      BY <3>1, <3>2
  <2>6. EvaluatorsHoldTheirLocks'
    BY <2>1, <2>2, <2>3, <2>5
  <2>7. LoadersHaveNothingToDo' /\ HandlersServeTheirMessage' /\ FlagsFollowThePass'
    BY <2>1, <2>2, <2>3, <2>4 DEF Actors, Worker, Children
  <2> QED
    BY <1>0, <2>6, <2>7
<1>9. ASSUME NEW a \in Actors, Commit(a) PROVE ControlInv'
  BY <1>0, <1>9 DEF Commit, LocksWithout, TypeOK, Actors, Worker, Children
<1>10. ASSUME NEW a \in Actors, Broadcast(a) PROVE ControlInv'
  BY <1>0, <1>10 DEF Broadcast, TypeOK, Actors, Worker, Children
<1>11. CASE PassDone
  BY <1>0, <1>11, <1>rest DEF PassDone, Reschedule, Rest, TypeOK, Actors, Worker
<1>12. ASSUME NEW p \in Segments, NEW d \in Depths, CascadeDrops(p, d) PROVE ControlInv'
  BY <1>0, <1>12 DEF CascadeDrops, Children
<1>13. ASSUME NEW h \in Handlers, NEW p \in Segments, NEW d \in Depths, CascadeStarts(h, p, d)
       PROVE  ControlInv'
  BY <1>0, <1>13 DEF CascadeStarts, TypeOK, Depths, Actors, Worker, Children
<1>14. ASSUME NEW h \in Handlers, CascadeLoads(h) PROVE ControlInv'
  BY <1>0, <1>14 DEF CascadeLoads, CascadeTargets, TypeOK, Actors, Worker, Children
<1>15. ASSUME NEW h \in Handlers, CascadeDone(h) PROVE ControlInv'
  BY <1>0, <1>15, <1>rest DEF CascadeDone, Rest, Actors, Worker
<1>16. ASSUME NEW h \in Handlers, CascadeFails(h) PROVE ControlInv'
  BY <1>0, <1>16, <1>rest DEF CascadeFails, Rest, Actors, Worker
<1>17. ASSUME NEW r \in Requests, NEW s \in Segments, RefreshStarts(r, s) PROVE ControlInv'
  BY <1>0, <1>17 DEF RefreshStarts, TypeOK, Actors, Worker, Children
<1>18. ASSUME NEW r \in Requests, RefreshDone(r) PROVE ControlInv'
  BY <1>0, <1>18, <1>rest DEF RefreshDone, Rest, Actors, Worker
<1>19. ASSUME NEW a \in Actors, EvalFails(a) PROVE ControlInv'
  BY <1>0, <1>19 DEF EvalFails, LocksWithout, TypeOK, Actors, Worker, Children
<1>20. CASE WorkerCrash
  BY <1>0, <1>20, <1>rest DEF WorkerCrash, Stopped, Rest, Actors, Worker
<1>21. CASE ApiCrash
  BY <1>0, <1>21, <1>rest DEF ApiCrash, Stopped, Rest, Actors, Worker
<1>22. CASE UNCHANGED vars
  BY <1>0, <1>22 DEF vars, Children
<1> QED
  BY <1>1, <1>2, <1>3, <1>4, <1>5, <1>6, <1>7, <1>8, <1>9, <1>10, <1>11, <1>12, <1>13,
     <1>14, <1>15, <1>16, <1>17, <1>18, <1>19, <1>20, <1>21, <1>22
  DEF Next, PassStep, Evaluation, HandlerStep, Consume, Actors, Worker

\* The induction over all behaviours.
LEMMA ControlInvariant == Spec => []ControlInv
  BY ControlInit, ControlStep, PTL DEF Spec

\* Every variable keeps its type: no message is acknowledged that is not in its
\* queue, no depth exceeds the limit, no actor evaluates what is not a segment.
THEOREM TypeCorrect == Spec => []TypeOK
<1>1. ControlInv => TypeOK
  BY DEF ControlInv
<1> QED
  BY ControlInvariant, <1>1, PTL

-----------------------------------------------------------------------------
(* No lost drift *)

Accounted(s) == s \in excused \/ Covered(s) \/ BeingFixed(s)

PipeInv == ControlInv /\ NoLostDrift

\* After the seed script every snapshot matches its rule.
LEMMA PipeInit == Init => PipeInv
<1> SUFFICES ASSUME Init PROVE NoLostDrift
  BY ControlInit DEF PipeInv
<1>1. \A s \in Segments : mem[s] = Target(s)
  BY DEF Init, Target
<1>2. OutOfDate = {}
  BY <1>1, GraphAssumption DEF Init, OutOfDate
<1> QED
  BY <1>2 DEF NoLostDrift

\* As long as neither data nor snapshots change and no new finding appears, no
\* segment goes out of date.
LEMMA NothingNewOutOfDate ==
    ASSUME UNCHANGED store,
           \A a \in Actors : stage'[a] = "computed" =>
              stage[a] = "computed" /\ cur'[a] = cur[a] /\ found'[a] = found[a]
    PROVE  /\ OutOfDate' \subseteq OutOfDate
           /\ \A s \in Segments : Target(s)' = Target(s)
  BY DEF store, OutOfDate, Target

\* Steps that leave data, snapshots and findings alone: it is enough that what
\* accounted for a segment still does.
LEMMA AccountsKept ==
    ASSUME NoLostDrift, UNCHANGED store,
           \A a \in Actors : stage'[a] = "computed" =>
              stage[a] = "computed" /\ cur'[a] = cur[a] /\ found'[a] = found[a],
           \A s \in OutOfDate : Accounted(s) => Accounted(s)'
    PROVE  NoLostDrift'
  BY NothingNewOutOfDate DEF NoLostDrift, Accounted

\* The same, for steps of the queues, timers and flags alone.
LEMMA QueueSteps ==
    ASSUME PipeInv,
           \/ \E c \in Customers, d \in Data : ChangeData(c, d)
           \/ \E c \in Customers : PublishChange(c) \/ ConsumeChange(c) \/ TimerFires(c)
           \/ ImmediateFires
    PROVE  NoLostDrift'
<1> USE DEF PipeInv, ControlInv, store, queues, processor, actors
<1>1. ASSUME NEW c \in Customers, NEW d \in Data, ChangeData(c, d) PROVE NoLostDrift'
  <2>1. toPublish'[c] > 0
    BY <1>1 DEF ChangeData, TypeOK
  <2> QED
    BY <2>1 DEF NoLostDrift, Covered, PassIsComing
<1>2. ASSUME NEW c \in Customers, PublishChange(c) PROVE NoLostDrift'
  <2>1. changeQ'[c] > 0
    BY <1>2 DEF PublishChange, TypeOK
  <2> QED
    BY <2>1 DEF NoLostDrift, Covered, PassIsComing
<1>3. ASSUME NEW c \in Customers, ConsumeChange(c) PROVE NoLostDrift'
  BY <1>3 DEF ConsumeChange, NoLostDrift, Covered, PassIsComing
<1>pass. ASSUME RequestPass PROVE PassIsComing'
  BY <1>pass DEF RequestPass, PassIsComing, TypeOK, Actors, Worker
<1>4. ASSUME NEW c \in Customers, TimerFires(c) PROVE NoLostDrift'
  BY <1>4, <1>pass DEF TimerFires, NoLostDrift, Covered
<1>5. CASE ImmediateFires
  BY <1>5, <1>pass DEF ImmediateFires, NoLostDrift, Covered
<1> QED
  BY <1>1, <1>2, <1>3, <1>4, <1>5

\* A pass that has loaded the dynamic segments will evaluate each of them, and
\* when it ends a pass requested meanwhile follows.
LEMMA PassSteps ==
    ASSUME PipeInv, PassLoads \/ PassDone
    PROVE  NoLostDrift'
<1> USE DEF PipeInv, ControlInv, store, queues, processor, actors
<1>1. CASE PassLoads
  <2>1. \A s \in Dynamic : WillBeEvaluated(s)'
    BY <1>1 DEF PassLoads, WillBeEvaluated, TypeOK, Actors, Worker
  <2> QED
    BY <2>1 DEF NoLostDrift, OutOfDate, Covered
<1>2. CASE PassDone
  <2>1. \A a \in Actors :
          /\ a = Pass => stage'[a] = "idle" /\ stage[a] = "next" /\ todo[a] = {}
          /\ a # Pass => /\ stage'[a] = stage[a] /\ todo'[a] = todo[a]
                         /\ cur'[a] = cur[a] /\ found'[a] = found[a] /\ src'[a] = src[a]
    BY <1>2 DEF PassDone, Rest
  <2>2. UNCHANGED <<data, mem, toPublish, changeQ, cascadeQ, timers, excused>>
    BY <1>2 DEF PassDone
  <2>3. hasPending \/ immediates > 0 => immediates' > 0
    BY <1>2 DEF PassDone, Reschedule, TypeOK
  <2>4. ASSUME NEW s \in OutOfDate, Covered(s) PROVE Covered(s)'
    <3>1. CASE PassIsComing
      BY <2>1, <2>2, <2>3, <3>1 DEF Covered, PassIsComing, Actors, Worker
    <3>2. CASE WillBeEvaluated(s)
      BY <2>1, <3>2 DEF Covered, WillBeEvaluated, Actors
    <3>3. CASE ParentDeltaPending(s)
      BY <2>1, <2>2, <3>3, ActorAssumption DEF Covered, ParentDeltaPending, Actors, Worker
    <3> QED
      BY <2>4, <3>1, <3>2, <3>3 DEF Covered
  <2>5. ASSUME NEW s \in OutOfDate, BeingFixed(s) PROVE BeingFixed(s)'
    BY <2>1, <2>2, <2>5 DEF BeingFixed, Target
  <2>6. \A s \in OutOfDate : Accounted(s) => Accounted(s)'
    BY <2>2, <2>4, <2>5 DEF Accounted
  <2> QED
    BY <2>1, <2>2, <2>6, AccountsKept
<1> QED
  BY <1>1, <1>2

\* One evaluation.  Evaluate accounts for its segment, by leaving it in order or
\* by having the right finding; Commit puts the children of its segment in the
\* care of the delta it has to announce.
LEMMA EvaluationSteps ==
    ASSUME PipeInv, NEW a \in Actors, Evaluation(a)
    PROVE  NoLostDrift'
<1> USE ActorAssumption DEF PipeInv, ControlInv, store, queues, processor, actors
<1>1. ASSUME NEW s \in Segments, Begin(a, s) PROVE NoLostDrift'
  <2>1. \A b \in Actors :
          /\ b = a => /\ stage[b] = "next" /\ stage'[b] = "waiting"
                      /\ cur'[b] = s /\ todo'[b] = todo[b] \ {s}
          /\ b # a => stage'[b] = stage[b] /\ cur'[b] = cur[b] /\ todo'[b] = todo[b]
    BY <1>1 DEF Begin, TypeOK
  <2>2. UNCHANGED <<data, mem, toPublish, changeQ, cascadeQ, timers, immediates, hasPending,
                    excused, found, src>>
    BY <1>1 DEF Begin
  <2>3. ASSUME NEW t \in OutOfDate, Covered(t) PROVE Covered(t)'
    <3>1. CASE PassIsComing
      BY <2>1, <2>2, <3>1 DEF Covered, PassIsComing, Actors, Worker
    <3>2. CASE WillBeEvaluated(t)
      BY <2>1, <3>2 DEF Covered, WillBeEvaluated, Actors
    <3>3. CASE ParentDeltaPending(t)
      BY <2>1, <2>2, <3>3 DEF Covered, ParentDeltaPending, Actors, Worker
    <3> QED
      BY <2>3, <3>1, <3>2, <3>3 DEF Covered
  <2>4. ASSUME NEW t \in OutOfDate, BeingFixed(t) PROVE BeingFixed(t)'
    BY <2>1, <2>2, <2>4 DEF BeingFixed, Target
  <2>5. \A t \in OutOfDate : Accounted(t) => Accounted(t)'
    BY <2>2, <2>3, <2>4 DEF Accounted
  <2> QED
    BY <2>1, <2>2, <2>5, AccountsKept
<1>2. ASSUME NEW s, s = cur[a], Evaluate(a) PROVE NoLostDrift'
  <2>1. /\ s = cur[a] /\ s \in Segments /\ stage[a] = "waiting" /\ lock[s] = None
        /\ UNCHANGED <<data, mem, toPublish, changeQ, cascadeQ, timers, immediates, hasPending,
                       todo, cur, src>>
        /\ excused' = excused \ {s}
    BY <1>2 DEF Evaluate, MayLock, EvaluatorsHoldTheirLocks
  <2>2. \A b \in Actors \ {a} : stage'[b] = stage[b] /\ found'[b] = found[b]
    BY <1>2 DEF Evaluate, TypeOK
  <2>3. \/ stage'[a] = "next" /\ mem[s] = Target(s)
        \/ stage'[a] = "computed" /\ found'[a] = Target(s)
    BY <1>2, <2>1 DEF Evaluate, TypeOK
  <2>4. \A t : Target(t)' = Target(t)
    BY <2>1 DEF Target
  <2>5. ASSUME NEW b \in Actors, stage'[b] = "computed", cur[b] = s PROVE b = a
    BY <2>1, <2>2, <2>5 DEF EvaluatorsHoldTheirLocks
  <2>6. ASSUME s \in OutOfDate' PROVE BeingFixed(s)'
    BY <2>1, <2>3, <2>4, <2>5, <2>6 DEF OutOfDate, BeingFixed
  <2>7. ASSUME NEW t \in OutOfDate', t # s PROVE Accounted(t)'
    <3>1. t \in OutOfDate
      BY <2>1, <2>2, <2>4, <2>7 DEF OutOfDate
    <3>2. CASE t \in excused
      BY <2>1, <2>7, <3>2 DEF Accounted
    <3>3. CASE BeingFixed(t)
      <4>1. BeingFixed(t)'
        BY <2>1, <2>2, <2>4, <3>3 DEF BeingFixed
      <4> QED
        BY <4>1 DEF Accounted
    <3>4. CASE Covered(t)
      <4>1. CASE PassIsComing
        BY <2>1, <2>2, <4>1 DEF Accounted, Covered, PassIsComing, Actors, Worker
      <4>2. CASE WillBeEvaluated(t)
        BY <2>1, <2>2, <2>7, <4>2 DEF Accounted, Covered, WillBeEvaluated, Actors
      <4>3. CASE ParentDeltaPending(t)
        BY <2>1, <2>2, <4>3 DEF Accounted, Covered, ParentDeltaPending, Actors, Worker
      <4> QED
        BY <3>4, <4>1, <4>2, <4>3 DEF Covered
    <3> QED
      BY <3>1, <3>2, <3>3, <3>4 DEF NoLostDrift
  <2> QED
    BY <2>6, <2>7 DEF NoLostDrift, Accounted
<1>3. ASSUME NEW s, s = cur[a], Commit(a) PROVE NoLostDrift'
  <2>1. /\ s = cur[a] /\ s \in Segments /\ stage[a] = "computed" /\ lock[s] = a
        /\ UNCHANGED <<data, toPublish, changeQ, cascadeQ, timers, immediates, hasPending,
                       excused, todo, cur, src>>
    BY <1>3 DEF Commit, EvaluatorsHoldTheirLocks
  <2>2. /\ \A b \in Actors \ {a} : stage'[b] = stage[b] /\ found'[b] = found[b]
        /\ stage'[a] = "committed"
    BY <1>3 DEF Commit, TypeOK
  <2>3. /\ mem \in [Segments -> Memberships] /\ mem' \in [Segments -> Memberships]
        /\ mem'[s] = found[a]
        /\ \A t \in Segments \ {s} : mem'[t] = mem[t]
    BY <1>3, <2>1 DEF Commit, TypeOK, EvaluatorsHoldTheirLocks
  <2>4. \A t \in Segments : s \notin Parents[t] => Target(t)' = Target(t)
    <3>1. ASSUME NEW t \in Segments, s \notin Parents[t]
          PROVE  Matches(t, data, mem) = Matches(t, data, mem')
      <4>1. data \in Data /\ Parents[t] \subseteq Segments
        BY GraphAssumption DEF TypeOK
      <4>2. \A p \in Parents[t] : mem[p] = mem'[p]
        BY <2>3, <3>1, <4>1
      <4> QED
        BY <2>3, <4>1, <4>2, RuleAssumption
    <3> QED
      BY <2>1, <3>1 DEF Target
  <2>5. s \notin Parents[s]
    BY <2>1, CreationAssumption, GraphAssumption
  <2>6. \A b \in Actors \ {a} : stage[b] = "computed" => cur[b] # s
    BY <2>1 DEF EvaluatorsHoldTheirLocks
  <2>7. ASSUME NEW t \in OutOfDate PROVE Covered(t) => Covered(t)'
    <3>1. CASE PassIsComing
      BY <2>1, <2>2, <3>1 DEF Covered, PassIsComing, Actors, Worker
    <3>2. CASE WillBeEvaluated(t)
      BY <2>1, <2>2, <3>2 DEF Covered, WillBeEvaluated, Actors
    <3>3. CASE ParentDeltaPending(t)
      BY <2>1, <2>2, <3>3 DEF Covered, ParentDeltaPending, Actors, Worker
    <3> QED
      BY <3>1, <3>2, <3>3 DEF Covered
  <2>8. ASSUME NEW t \in OutOfDate', s \in Parents[t] PROVE Covered(t)'
    BY <2>1, <2>2, <2>8 DEF Covered, ParentDeltaPending
  <2>9. ASSUME s \in OutOfDate' PROVE Accounted(s)'
    <3>1. Target(s)' = Target(s)
      BY <2>1, <2>4, <2>5
    <3>2. found[a] # Target(s)
      BY <2>1, <2>2, <2>3, <2>6, <2>9, <3>1 DEF OutOfDate
    <3>3. s \in OutOfDate /\ ~BeingFixed(s)
      BY <2>1, <2>6, <2>9, <3>2 DEF OutOfDate, BeingFixed
    <3> QED
      BY <2>1, <2>7, <3>3 DEF NoLostDrift, Accounted
  <2>10. ASSUME NEW t \in OutOfDate', t # s, s \notin Parents[t] PROVE Accounted(t)'
    <3>1. t \in Segments /\ Target(t)' = Target(t) /\ mem'[t] = mem[t]
      BY <2>3, <2>4, <2>10, GraphAssumption DEF OutOfDate
    <3>2. t \in OutOfDate
      BY <2>1, <2>2, <2>10, <3>1 DEF OutOfDate
    <3>3. BeingFixed(t) => BeingFixed(t)'
      BY <2>1, <2>2, <2>10, <3>1 DEF BeingFixed
    <3> QED
      BY <2>1, <2>7, <3>2, <3>3 DEF NoLostDrift, Accounted
  <2> QED
    BY <2>8, <2>9, <2>10 DEF NoLostDrift, Accounted
<1>4. CASE Broadcast(a)
  <2>1. /\ cur[a] \in Segments /\ stage[a] = "committed"
        /\ UNCHANGED <<data, mem, toPublish, changeQ, timers, immediates, hasPending,
                       excused, todo, cur, src, found>>
    BY <1>4 DEF Broadcast, EvaluatorsHoldTheirLocks
  <2>2. /\ \A b \in Actors \ {a} : stage'[b] = stage[b]
        /\ stage'[a] = "next"
    BY <1>4 DEF Broadcast, TypeOK
  <2>3. /\ \A m \in Segments \X Depths : cascadeQ[m] > 0 => cascadeQ'[m] > 0
        /\ cascadeQ'[<<cur[a], depth[a]>>] > 0
    <3>1. cascadeQ' = [cascadeQ EXCEPT ![<<cur[a], depth[a]>>] = @ + 1]
      BY <1>4 DEF Broadcast, Enqueued
    <3>2. <<cur[a], depth[a]>> \in Segments \X Depths
      BY <2>1 DEF TypeOK
    <3>3. \A m \in Segments \X Depths : cascadeQ[m] \in Nat
      BY DEF TypeOK
    <3> QED
      BY <3>1, <3>2, <3>3 DEF TypeOK
  <2>4. ASSUME NEW t \in OutOfDate, Covered(t) PROVE Covered(t)'
    <3>1. CASE PassIsComing
      BY <2>1, <2>2, <3>1 DEF Covered, PassIsComing, Actors, Worker
    <3>2. CASE WillBeEvaluated(t)
      BY <2>1, <2>2, <3>2 DEF Covered, WillBeEvaluated, Actors
    <3>3. CASE \E p \in Parents[t], d \in Depths : cascadeQ[<<p, d>>] > 0
      <4>1. PICK p \in Parents[t], d \in Depths : cascadeQ[<<p, d>>] > 0
        BY <3>3
      <4>2. <<p, d>> \in Segments \X Depths
        BY <2>4, <4>1, GraphAssumption DEF OutOfDate
      <4>3. cascadeQ'[<<p, d>>] > 0
        BY <2>3, <4>1, <4>2
      <4> QED
        BY <4>3 DEF Covered, ParentDeltaPending
    <3>4. CASE \E b \in Actors : stage[b] = "committed" /\ cur[b] \in Parents[t]
      BY <2>1, <2>2, <2>3, <3>4 DEF Covered, ParentDeltaPending, TypeOK
    <3>5. CASE \E h \in Handlers : stage[h] = "loading" /\ src[h] \in Parents[t]
      BY <2>1, <2>2, <3>5 DEF Covered, ParentDeltaPending, Actors, Worker
    <3> QED
      BY <2>4, <3>1, <3>2, <3>3, <3>4, <3>5 DEF Covered, ParentDeltaPending
  <2>5. ASSUME NEW t \in OutOfDate, BeingFixed(t) PROVE BeingFixed(t)'
    BY <2>1, <2>2, <2>5 DEF BeingFixed, Target
  <2>6. \A t \in OutOfDate : Accounted(t) => Accounted(t)'
    BY <2>1, <2>4, <2>5 DEF Accounted
  <2> QED
    BY <2>1, <2>2, <2>6, AccountsKept
<1> QED
  BY <1>1, <1>2, <1>3, <1>4 DEF Evaluation

\* The cascade.  A message that leaves the queue is in the care of its handler,
\* which loads every dynamic child; one that is dropped excuses them.
LEMMA CascadeSteps ==
    ASSUME PipeInv,
           \/ \E p \in Segments, d \in Depths : Consume(p, d)
           \/ \E h \in Handlers : CascadeLoads(h) \/ CascadeDone(h) \/ CascadeFails(h)
    PROVE  NoLostDrift'
<1> USE ActorAssumption DEF PipeInv, ControlInv, store, queues, processor, actors
<1>dequeued. ASSUME NEW p \in Segments, NEW d \in Depths, cascadeQ' = Dequeued(p, d),
                    NEW q, NEW e \in Depths, q \in Segments, q # p, cascadeQ[<<q, e>>] > 0
             PROVE  cascadeQ'[<<q, e>>] > 0
  <2>1. <<q, e>> \in Segments \X Depths /\ <<q, e>> # <<p, d>>
    BY <1>dequeued
  <2> QED
    BY <1>dequeued, <2>1 DEF Dequeued, TypeOK
<1>1. ASSUME NEW p \in Segments, NEW d \in Depths, CascadeDrops(p, d) PROVE NoLostDrift'
  <2>1. /\ UNCHANGED <<data, mem, toPublish, changeQ, timers, immediates, hasPending,
                       stage, todo, cur, found, src>>
        /\ excused' = excused \union (Children(p) \intersect Dynamic)
        /\ cascadeQ' = Dequeued(p, d)
    BY <1>1 DEF CascadeDrops
  <2>2. ASSUME NEW s \in OutOfDate, Covered(s), s \notin Children(p) PROVE Covered(s)'
    <3>1. CASE PassIsComing \/ WillBeEvaluated(s)
      BY <2>1, <3>1 DEF Covered, PassIsComing, WillBeEvaluated
    <3>2. CASE ParentDeltaPending(s)
      <4>1. \A q \in Parents[s] : q \in Segments /\ q # p
        BY <2>2, GraphAssumption DEF OutOfDate, Children
      <4> QED
        BY <2>1, <3>2, <4>1, <1>dequeued DEF Covered, ParentDeltaPending
    <3> QED
      BY <2>2, <3>1, <3>2 DEF Covered
  <2>3. \A s \in OutOfDate : BeingFixed(s) => BeingFixed(s)'
    BY <2>1 DEF BeingFixed, Target
  <2>4. \A s \in OutOfDate : Accounted(s) => Accounted(s)'
    BY <2>1, <2>2, <2>3 DEF Accounted, OutOfDate
  <2> QED
    BY <2>1, <2>4, AccountsKept
<1>2. ASSUME NEW h \in Handlers, NEW p \in Segments, NEW d \in Depths, CascadeStarts(h, p, d)
      PROVE  NoLostDrift'
  <2>1. /\ UNCHANGED <<data, mem, toPublish, changeQ, timers, immediates, hasPending,
                       todo, cur, found, excused>>
        /\ cascadeQ' = Dequeued(p, d)
    BY <1>2 DEF CascadeStarts
  <2>2. \A b \in Actors :
          /\ b = h => stage[b] = "idle" /\ stage'[b] = "loading" /\ src'[b] = p
          /\ b # h => stage'[b] = stage[b] /\ src'[b] = src[b]
    BY <1>2 DEF CascadeStarts, TypeOK
  <2>3. h \in Actors /\ h # Pass
    BY DEF Actors, Worker
  <2>4. ASSUME NEW s \in OutOfDate, Covered(s) PROVE Covered(s)'
    <3>1. CASE PassIsComing
      BY <2>1, <2>2, <2>3, <3>1 DEF Covered, PassIsComing, Actors, Worker
    <3>2. CASE WillBeEvaluated(s)
      BY <2>1, <2>2, <3>2 DEF Covered, WillBeEvaluated, Actors
    <3>3. CASE p \in Parents[s]
      BY <2>2, <2>3, <3>3 DEF Covered, ParentDeltaPending
    <3>4. CASE p \notin Parents[s] /\ ParentDeltaPending(s)
      <4>1. \A q \in Parents[s] : q \in Segments /\ q # p
        BY <3>4, GraphAssumption DEF OutOfDate
      <4>2. CASE \E q \in Parents[s], e \in Depths : cascadeQ[<<q, e>>] > 0
        BY <2>1, <4>1, <4>2, <1>dequeued DEF Covered, ParentDeltaPending
      <4>3. CASE \E b \in Actors : stage[b] = "committed" /\ cur[b] \in Parents[s]
        BY <2>1, <2>2, <4>3 DEF Covered, ParentDeltaPending
      <4>4. CASE \E g \in Handlers : stage[g] = "loading" /\ src[g] \in Parents[s]
        BY <2>2, <2>3, <4>4 DEF Covered, ParentDeltaPending, Actors, Worker
      <4> QED
        BY <3>4, <4>2, <4>3, <4>4 DEF ParentDeltaPending
    <3> QED
      BY <2>4, <3>1, <3>2, <3>3, <3>4 DEF Covered
  <2>5. ASSUME NEW s \in OutOfDate, BeingFixed(s) PROVE BeingFixed(s)'
    BY <2>1, <2>2, <2>5 DEF BeingFixed, Target
  <2>6. \A s \in OutOfDate : Accounted(s) => Accounted(s)'
    BY <2>1, <2>4, <2>5 DEF Accounted
  <2> QED
    BY <2>1, <2>2, <2>6, AccountsKept
<1>3. ASSUME NEW h \in Handlers, CascadeLoads(h) PROVE NoLostDrift'
  <2>1. /\ UNCHANGED <<data, mem, toPublish, changeQ, cascadeQ, timers, immediates, hasPending,
                       cur, found, src, excused>>
        /\ stage[h] = "loading" /\ h \in Actors /\ h \in Worker /\ h # Pass
    BY <1>3 DEF CascadeLoads, Actors, Worker
  <2>2. \A b \in Actors :
          /\ b = h => stage'[b] = "next" /\ todo[b] = {}
                      /\ todo'[b] = Children(src[h]) \intersect Dynamic
          /\ b # h => stage'[b] = stage[b] /\ todo'[b] = todo[b]
    BY <1>3 DEF CascadeLoads, CascadeTargets, TypeOK, LoadersHaveNothingToDo
  <2>4. ASSUME NEW s \in OutOfDate, Covered(s) PROVE Covered(s)'
    <3>1. CASE PassIsComing
      BY <2>1, <2>2, <3>1 DEF Covered, PassIsComing, Actors, Worker
    <3>2. CASE WillBeEvaluated(s)
      BY <2>1, <2>2, <3>2 DEF Covered, WillBeEvaluated, Actors
    <3>3. CASE src[h] \in Parents[s]
      <4>1. s \in todo'[h]
        BY <2>1, <2>2, <3>3, GraphAssumption DEF OutOfDate, Children
      <4> QED
        BY <2>1, <4>1 DEF Covered, WillBeEvaluated
    <3>4. CASE src[h] \notin Parents[s] /\ ParentDeltaPending(s)
      BY <2>1, <2>2, <3>4 DEF Covered, ParentDeltaPending, Actors, Worker
    <3> QED
      BY <2>4, <3>1, <3>2, <3>3, <3>4 DEF Covered
  <2>5. ASSUME NEW s \in OutOfDate, BeingFixed(s) PROVE BeingFixed(s)'
    BY <2>1, <2>2, <2>5 DEF BeingFixed, Target
  <2>6. \A s \in OutOfDate : Accounted(s) => Accounted(s)'
    BY <2>1, <2>4, <2>5 DEF Accounted
  <2> QED
    BY <2>1, <2>2, <2>6, AccountsKept
<1>4. ASSUME NEW h \in Handlers, CascadeDone(h) \/ CascadeFails(h) PROVE NoLostDrift'
  <2>1. /\ UNCHANGED <<data, mem, toPublish, changeQ, cascadeQ, timers, immediates, hasPending>>
        /\ h \in Actors /\ h # Pass /\ todo[h] = {}
        /\ \/ stage[h] = "next" /\ excused' = excused
           \/ /\ stage[h] = "loading"
              /\ excused' = excused \union (Children(src[h]) \intersect Dynamic)
    BY <1>4 DEF CascadeDone, CascadeFails, Actors, Worker, LoadersHaveNothingToDo
  <2>2. \A b \in Actors :
          /\ b = h => stage'[b] = "idle"
          /\ b # h => stage'[b] = stage[b] /\ todo'[b] = todo[b] /\ cur'[b] = cur[b]
                      /\ found'[b] = found[b] /\ src'[b] = src[b]
    BY <1>4 DEF CascadeDone, CascadeFails, Rest
  <2>4. ASSUME NEW s \in OutOfDate, Covered(s), s \notin excused' PROVE Covered(s)'
    <3>1. CASE PassIsComing
      BY <2>1, <2>2, <3>1 DEF Covered, PassIsComing, Actors, Worker
    <3>2. CASE WillBeEvaluated(s)
      BY <2>1, <2>2, <3>2 DEF Covered, WillBeEvaluated, Actors
    <3>3. CASE ParentDeltaPending(s)
      <4>1. stage[h] = "loading" => src[h] \notin Parents[s]
        BY <2>1, <2>4, GraphAssumption DEF OutOfDate, Children
      <4> QED
        BY <2>1, <2>2, <3>3, <4>1 DEF Covered, ParentDeltaPending, Actors, Worker
    <3> QED
      BY <2>4, <3>1, <3>2, <3>3 DEF Covered
  <2>5. ASSUME NEW s \in OutOfDate, BeingFixed(s) PROVE BeingFixed(s)'
    BY <2>1, <2>2, <2>5 DEF BeingFixed, Target
  <2>6. \A s \in OutOfDate : Accounted(s) => Accounted(s)'
    BY <2>1, <2>4, <2>5 DEF Accounted
  <2> QED
    BY <2>1, <2>2, <2>6, AccountsKept
<1> QED
  BY <1>1, <1>2, <1>3, <1>4 DEF Consume

\* Manual refreshes and failing evaluations.
LEMMA RefreshAndFailureSteps ==
    ASSUME PipeInv,
           \/ \E r \in Requests, s \in Segments : RefreshStarts(r, s)
           \/ \E r \in Requests : RefreshDone(r)
           \/ \E a \in Actors : EvalFails(a)
    PROVE  NoLostDrift'
<1> USE ActorAssumption DEF PipeInv, ControlInv, store, queues, processor, actors
<1>1. ASSUME NEW r \in Requests,
             RefreshDone(r) \/ \E s \in Segments : RefreshStarts(r, s)
      PROVE  NoLostDrift'
  <2>1. /\ UNCHANGED <<data, mem, toPublish, changeQ, cascadeQ, timers, immediates, hasPending,
                       excused>>
        /\ r \in Actors /\ r \notin Worker
        /\ stage[r] \in {"idle", "next"} /\ stage'[r] \in {"idle", "next"}
    BY <1>1 DEF RefreshDone, RefreshStarts, Rest, Actors, Worker, TypeOK
  <2>2. \A b \in Actors \ {r} :
           /\ stage'[b] = stage[b] /\ todo'[b] = todo[b] /\ cur'[b] = cur[b]
           /\ found'[b] = found[b] /\ src'[b] = src[b]
    BY <1>1 DEF RefreshDone, RefreshStarts, Rest, TypeOK
  <2>3. ASSUME NEW s \in OutOfDate, Covered(s) PROVE Covered(s)'
    <3>1. CASE PassIsComing
      BY <2>1, <2>2, <3>1 DEF Covered, PassIsComing, Actors, Worker
    <3>2. CASE WillBeEvaluated(s)
      BY <2>1, <2>2, <3>2 DEF Covered, WillBeEvaluated, Actors
    <3>3. CASE ParentDeltaPending(s)
      BY <2>1, <2>2, <3>3 DEF Covered, ParentDeltaPending, Actors, Worker
    <3> QED
      BY <2>3, <3>1, <3>2, <3>3 DEF Covered
  <2>4. ASSUME NEW s \in OutOfDate, BeingFixed(s) PROVE BeingFixed(s)'
    BY <2>1, <2>2, <2>4 DEF BeingFixed, Target
  <2>5. \A s \in OutOfDate : Accounted(s) => Accounted(s)'
    BY <2>1, <2>3, <2>4 DEF Accounted
  <2> QED
    BY <2>1, <2>2, <2>5, AccountsKept
<1>2. ASSUME NEW a \in Actors, EvalFails(a) PROVE NoLostDrift'
  <2>1. /\ UNCHANGED <<data, mem, toPublish, changeQ, cascadeQ, timers, immediates, hasPending,
                       todo, cur, src>>
        /\ stage[a] \in {"waiting", "computed", "committed"}
        /\ excused' = excused \union ({cur[a]} \intersect Dynamic) \union Unannounced({a})
    BY <1>2 DEF EvalFails
  <2>2. /\ stage'[a] = "next"
        /\ \A b \in Actors \ {a} : stage'[b] = stage[b] /\ found'[b] = found[b]
    BY <1>2 DEF EvalFails, TypeOK
  <2>3. ASSUME NEW s \in OutOfDate, Covered(s), s \notin excused' PROVE Covered(s)'
    <3>0. s \in Dynamic /\ s \in Segments
      BY GraphAssumption DEF OutOfDate
    <3>1. CASE PassIsComing
      BY <2>1, <2>2, <3>1 DEF Covered, PassIsComing, Actors, Worker
    <3>2. CASE WillBeEvaluated(s)
      BY <2>1, <2>2, <2>3, <3>0, <3>2 DEF Covered, WillBeEvaluated, Actors
    <3>3. CASE ParentDeltaPending(s)
      <4>1. stage[a] = "committed" => cur[a] \notin Parents[s]
        BY <2>1, <2>3, <3>0 DEF Unannounced, Children
      <4> QED
        BY <2>1, <2>2, <3>3, <4>1 DEF Covered, ParentDeltaPending, Actors, Worker
    <3> QED
      BY <2>3, <3>1, <3>2, <3>3 DEF Covered
  <2>4. ASSUME NEW s \in OutOfDate, BeingFixed(s), s \notin excused' PROVE BeingFixed(s)'
    <3>1. cur[a] # s
      BY <2>1, <2>4 DEF OutOfDate
    <3> QED
      BY <2>1, <2>2, <2>4, <3>1 DEF BeingFixed, Target
  <2>5. \A s \in OutOfDate : Accounted(s) => Accounted(s)'
    BY <2>1, <2>3, <2>4 DEF Accounted
  <2> QED
    BY <2>1, <2>2, <2>5, AccountsKept
<1> QED
  BY <1>1, <1>2

\* A crash of the worker.  What a timer, a pass or an immediate would have brought
\* up to date is excused; what a handler was at comes back with its message.
LEMMA WorkerCrashStep ==
    ASSUME PipeInv, WorkerCrash
    PROVE  NoLostDrift'
<1> USE ActorAssumption DEF PipeInv, ControlInv, store, queues, processor, actors
<1> DEFINE volatile == timers # {} \/ isProcessing \/ immediates > 0
<1>1. /\ UNCHANGED <<data, mem, toPublish, changeQ>>
      /\ cascadeQ' = Redelivered
      /\ excused' = excused \union Unannounced(Worker) \union
                       (IF volatile THEN OutOfDate ELSE {})
  BY DEF WorkerCrash
<1>2. \A b \in Actors :
        /\ b \in Worker => stage'[b] = "idle"
        /\ b \notin Worker => /\ stage'[b] = stage[b] /\ todo'[b] = todo[b]
                              /\ cur'[b] = cur[b] /\ found'[b] = found[b] /\ src'[b] = src[b]
  BY DEF WorkerCrash, Stopped, Rest
<1>3. \A m \in Segments \X Depths : cascadeQ[m] > 0 => cascadeQ'[m] > 0
  <2> SUFFICES ASSUME NEW m \in Segments \X Depths, cascadeQ[m] > 0
               PROVE  cascadeQ'[m] > 0
    OBVIOUS
  <2> DEFINE hs == {h \in Handlers : stage[h] # "idle" /\ src[h] = m[1] /\ depth[h] = m[2] + 1}
  <2>1. Cardinality(hs) \in Nat
    <3>1. IsFiniteSet(hs)
      BY FS_Subset, hs \subseteq Handlers
    <3> QED
      BY <3>1, FS_CardinalityType
  <2>2. cascadeQ'[m] = cascadeQ[m] + Cardinality(hs)
    BY <1>1 DEF Redelivered
  <2>3. cascadeQ[m] \in Nat
    BY DEF TypeOK
  <2> HIDE DEF hs
  <2> QED
    BY <2>1, <2>2, <2>3
<1>4. ASSUME NEW h \in Handlers, stage[h] # "idle"
      PROVE  \E d \in Depths : cascadeQ'[<<src[h], d>>] > 0
  <2>1. src[h] \in Segments /\ depth[h] - 1 \in Depths
    BY <1>4, GraphAssumption DEF HandlersServeTheirMessage, TypeOK, Depths, Actors, Worker
  <2> DEFINE m == <<src[h], depth[h] - 1>>
             hs == {g \in Handlers : stage[g] # "idle" /\ src[g] = m[1] /\ depth[g] = m[2] + 1}
  <2>2. m \in Segments \X Depths
    BY <2>1
  <2>3. h \in hs
    <3>1. depth[h] = (depth[h] - 1) + 1
      BY <2>1, GraphAssumption DEF Depths, TypeOK, Actors, Worker
    <3> QED
      BY <1>4, <3>1
  <2>4. Cardinality(hs) \in Nat /\ Cardinality(hs) # 0
    <3>1. IsFiniteSet(hs)
      BY FS_Subset, hs \subseteq Handlers
    <3>2. hs # {}
      BY <2>3
    <3> QED
      BY <3>1, <3>2, FS_CardinalityType, FS_EmptySet
  <2>5. cascadeQ'[m] = cascadeQ[m] + Cardinality(hs)
    BY <1>1, <2>2 DEF Redelivered
  <2>6. cascadeQ[m] \in Nat
    BY <2>2 DEF TypeOK
  <2> HIDE DEF hs
  <2>7. cascadeQ'[m] > 0
    BY <2>4, <2>5, <2>6
  <2> QED
    BY <2>1, <2>7
<1>5. ASSUME NEW s \in OutOfDate, s \notin excused',
             NEW h \in Handlers, stage[h] # "idle", s \in Children(src[h])
      PROVE  Covered(s)'
  <2>1. src[h] \in Parents[s]
    BY <1>5 DEF Children
  <2> QED
    BY <1>4, <1>5, <2>1 DEF Covered, ParentDeltaPending
<1>6. ASSUME NEW s \in OutOfDate, s \notin excused', Covered(s) PROVE Covered(s)'
  <2>1. timers = {} /\ stage[Pass] = "idle" /\ ~hasPending /\ ~(immediates > 0)
    BY <1>1, <1>6 DEF FlagsFollowThePass
  <2>2. s \in Segments /\ s \in Dynamic
    BY GraphAssumption DEF OutOfDate
  <2>3. CASE PassIsComing
    BY <1>1, <2>1, <2>3 DEF Covered, PassIsComing
  <2>4. CASE WillBeEvaluated(s)
    <3>1. PICK h \in Worker : s \in todo[h] \/ (stage[h] = "waiting" /\ cur[h] = s)
      BY <2>4 DEF WillBeEvaluated
    <3>2. h \in Handlers /\ stage[h] # "idle"
      BY <2>1, <3>1 DEF LoadersHaveNothingToDo, Worker, Actors
    <3>3. s \in Children(src[h])
      BY <3>1, <3>2 DEF HandlersServeTheirMessage
    <3> QED
      BY <1>5, <1>6, <3>2, <3>3
  <2>5. CASE \E p \in Parents[s], d \in Depths : cascadeQ[<<p, d>>] > 0
    <3>1. PICK p \in Parents[s], d \in Depths : cascadeQ[<<p, d>>] > 0
      BY <2>5
    <3>2. <<p, d>> \in Segments \X Depths
      BY <2>2, <3>1, GraphAssumption
    <3>3. cascadeQ'[<<p, d>>] > 0
      BY <1>3, <3>1, <3>2
    <3> QED
      BY <3>3 DEF Covered, ParentDeltaPending
  <2>6. CASE \E a \in Actors : stage[a] = "committed" /\ cur[a] \in Parents[s]
    <3>1. PICK a \in Actors : stage[a] = "committed" /\ cur[a] \in Parents[s]
      BY <2>6
    <3>2. a \notin Worker
      BY <1>1, <1>6, <2>2, <3>1 DEF Unannounced, Children
    <3> QED
      BY <1>2, <3>1, <3>2 DEF Covered, ParentDeltaPending
  <2>7. CASE \E h \in Handlers : stage[h] = "loading" /\ src[h] \in Parents[s]
    BY <1>5, <1>6, <2>2, <2>7 DEF Children
  <2> QED
    BY <1>6, <2>3, <2>4, <2>5, <2>6, <2>7 DEF Covered, ParentDeltaPending
<1>7. ASSUME NEW s \in OutOfDate, s \notin excused', BeingFixed(s) PROVE Accounted(s)'
  <2>1. stage[Pass] = "idle"
    BY <1>1, <1>7 DEF FlagsFollowThePass
  <2>2. PICK a \in Actors : stage[a] = "computed" /\ cur[a] = s /\ found[a] = Target(s)
    BY <1>7 DEF BeingFixed
  <2>3. CASE a \in Handlers
    <3>1. Covered(s)'
      BY <1>5, <1>7, <2>2, <2>3 DEF HandlersServeTheirMessage
    <3> QED
      BY <3>1 DEF Accounted
  <2>4. CASE a \notin Handlers
    <3>1. a \notin Worker
      BY <2>1, <2>2, <2>4 DEF Worker
    <3>2. BeingFixed(s)'
      BY <1>1, <1>2, <2>2, <3>1 DEF BeingFixed, Target
    <3> QED
      BY <3>2 DEF Accounted
  <2> QED
    BY <2>3, <2>4
<1>8. ASSUME NEW s \in OutOfDate, Accounted(s) PROVE Accounted(s)'
  BY <1>1, <1>6, <1>7, <1>8 DEF Accounted
<1> QED
  BY <1>1, <1>2, <1>8, AccountsKept

\* A crash of the api takes with it events not yet published and refreshes.
LEMMA ApiCrashStep ==
    ASSUME PipeInv, ApiCrash
    PROVE  NoLostDrift'
<1> USE ActorAssumption DEF PipeInv, ControlInv, store, queues, processor, actors
<1> DEFINE unsent == \E c \in Customers : toPublish[c] > 0
           abandoned == {s \in Dynamic : \E r \in Requests : stage[r] = "computed" /\ cur[r] = s}
<1>1. /\ UNCHANGED <<data, mem, changeQ, cascadeQ, timers, immediates, hasPending>>
      /\ excused' = excused \union Unannounced(Requests) \union
                       (IF unsent THEN OutOfDate ELSE abandoned)
  BY DEF ApiCrash
<1>2. \A b \in Actors :
        /\ b \in Requests => stage'[b] = "idle"
        /\ b \notin Requests => /\ stage'[b] = stage[b] /\ todo'[b] = todo[b]
                                /\ cur'[b] = cur[b] /\ found'[b] = found[b] /\ src'[b] = src[b]
  BY DEF ApiCrash, Stopped, Rest
<1>3. ASSUME NEW s \in OutOfDate, s \notin excused', Covered(s) PROVE Covered(s)'
  <2>1. ~unsent /\ s \in Dynamic /\ s \in Segments
    BY <1>1, <1>3, GraphAssumption DEF OutOfDate
  <2>2. CASE PassIsComing
    BY <1>1, <1>2, <2>1, <2>2 DEF Covered, PassIsComing, Actors, Worker
  <2>3. CASE WillBeEvaluated(s)
    BY <1>2, <2>3 DEF Covered, WillBeEvaluated, Actors, Worker
  <2>4. CASE ParentDeltaPending(s)
    <3>1. \A r \in Requests : stage[r] = "committed" => cur[r] \notin Parents[s]
      BY <1>1, <1>3, <2>1 DEF Unannounced, Children
    <3> QED
      BY <1>1, <1>2, <2>4, <3>1 DEF Covered, ParentDeltaPending, Actors, Worker
  <2> QED
    BY <1>3, <2>2, <2>3, <2>4 DEF Covered
<1>4. ASSUME NEW s \in OutOfDate, s \notin excused', BeingFixed(s) PROVE BeingFixed(s)'
  <2>1. s \notin abandoned /\ s \in Dynamic
    BY <1>1, <1>4 DEF OutOfDate
  <2> QED
    BY <1>1, <1>2, <1>4, <2>1 DEF BeingFixed, Target
<1>5. \A s \in OutOfDate : Accounted(s) => Accounted(s)'
  BY <1>1, <1>3, <1>4 DEF Accounted
<1> QED
  BY <1>1, <1>2, <1>5, AccountsKept

\* Every action leaves each segment that is out of date accounted for.
LEMMA PipeStep == PipeInv /\ [Next]_vars => PipeInv'
<1> SUFFICES ASSUME PipeInv, [Next]_vars PROVE NoLostDrift'
  BY ControlStep DEF PipeInv
<1>1. CASE UNCHANGED vars
  <2>1. NoLostDrift
    BY DEF PipeInv
  <2> QED
    BY <1>1, <2>1
    DEF vars, store, queues, processor, actors, NoLostDrift, OutOfDate, Target, Covered,
        PassIsComing, WillBeEvaluated, ParentDeltaPending, BeingFixed
<1>2. ASSUME NEW a \in Actors, Evaluation(a) PROVE NoLostDrift'
  BY <1>2, EvaluationSteps
<1>3. CASE WorkerCrash
  BY <1>3, WorkerCrashStep
<1>4. CASE ApiCrash
  BY <1>4, ApiCrashStep
<1> QED
  BY <1>1, <1>2, <1>3, <1>4, QueueSteps, PassSteps, CascadeSteps, RefreshAndFailureSteps
  DEF Next, PassStep, HandlerStep, Actors, Worker

\* No change of customer data is lost on its way through queue, timers, flags,
\* passes, cascade and refreshes, whatever the segments' rules and dependencies,
\* the number of handlers and refreshes at work, and the crashes and failures.
THEOREM NoDriftIsLost == Spec => []NoLostDrift
<1>1. PipeInv => NoLostDrift
  BY DEF PipeInv
<1> QED
  BY PipeInit, PipeStep, <1>1, PTL DEF Spec

-----------------------------------------------------------------------------
(* The depth limit *)

\* Levels, where the graph has them.
Level ==
    CHOOSE level \in [Segments -> Depths] : \A s \in Segments : \A p \in Parents[s] : level[p] < level[s]

\* A hop of a cascade leads to a higher level.
LEMMA LevelFacts ==
    ASSUME ShallowGraph
    PROVE  /\ Level \in [Segments -> Depths]
           /\ \A s \in Segments : \A p \in Parents[s] : Level[p] < Level[s]
BY DEF ShallowGraph, Level

\* The cascadeDepth of a delta never exceeds the level of its segment: each hop leads to
\* a higher one.
DepthsFollowLevels ==
    /\ \A p \in Segments, d \in Depths : cascadeQ[<<p, d>>] > 0 => d <= Level[p]
    /\ \A a \in Actors :
        /\ \A s \in todo[a] : depth[a] <= Level[s]
        /\ stage[a] \in {"waiting", "computed", "committed"} => depth[a] <= Level[cur[a]]
    /\ \A h \in Handlers : stage[h] # "idle" => depth[h] <= Level[src[h]] + 1

DepthInv == ControlInv /\ (ShallowGraph => DepthsFollowLevels)

\* No message is queued and nobody evaluates.
LEMMA DepthInit == Init => DepthInv
<1>1. ASSUME ShallowGraph, Init PROVE DepthsFollowLevels
  BY <1>1, LevelFacts, GraphAssumption DEF DepthsFollowLevels, Init, Actors, Worker, Depths
<1> QED
  BY <1>1, ControlInit DEF DepthInv

\* Every hop of a cascade, a redelivered one too, leads to a segment of a higher level.
LEMMA DepthStep == DepthInv /\ [Next]_vars => DepthInv'
<1> SUFFICES ASSUME DepthInv, [Next]_vars, ShallowGraph PROVE DepthsFollowLevels'
  BY ControlStep DEF DepthInv
<1> ControlInv /\ DepthsFollowLevels
  BY DEF DepthInv
<1> USE ActorAssumption, GraphAssumption
    DEF ControlInv, DepthsFollowLevels, store, queues, processor, actors
<1>0. /\ \A s \in Segments : Level[s] \in Nat /\ 0 <= Level[s]
      /\ \A d \in Depths : d \in Nat
  BY LevelFacts DEF Depths
<1>keep. ASSUME UNCHANGED <<cascadeQ, todo, cur, src, depth>>,
                \A a \in Actors :
                   stage'[a] # stage[a] =>
                      /\ stage'[a] # "idle" => stage[a] # "idle" \/ a \notin Handlers
                      /\ stage'[a] \in {"waiting", "computed", "committed"} =>
                            stage[a] \in {"waiting", "computed", "committed"}
         PROVE  DepthsFollowLevels'
  BY <1>keep DEF Actors, Worker
<1>rest. ASSUME NEW as \in SUBSET Actors, Rest(as), cascadeQ' = cascadeQ
         PROVE  DepthsFollowLevels'
  <2>1. \A a \in Actors :
          /\ a \in as => stage'[a] = "idle" /\ todo'[a] = {}
          /\ a \notin as => /\ stage'[a] = stage[a] /\ todo'[a] = todo[a] /\ cur'[a] = cur[a]
                            /\ src'[a] = src[a] /\ depth'[a] = depth[a]
    BY <1>rest DEF Rest
  <2> QED
    BY <1>rest, <2>1 DEF Actors, Worker
<1>1. ASSUME NEW c \in Customers,
             (\E d \in Data : ChangeData(c, d)) \/ PublishChange(c) \/ ConsumeChange(c)
      PROVE  DepthsFollowLevels'
  BY <1>1, <1>keep DEF ChangeData, PublishChange, ConsumeChange
<1>2. CASE ImmediateFires \/ \E c \in Customers : TimerFires(c)
  <2>1. RequestPass /\ cascadeQ' = cascadeQ
    BY <1>2 DEF ImmediateFires, TimerFires
  <2> QED
    BY <1>keep, <2>1 DEF RequestPass, TypeOK
<1>3. CASE PassLoads
  <2>1. \A a \in Actors :
          /\ a = Pass => stage'[a] = "next" /\ todo'[a] = Dynamic /\ depth'[a] = 0
          /\ a # Pass => stage'[a] = stage[a] /\ todo'[a] = todo[a] /\ depth'[a] = depth[a]
    BY <1>3 DEF PassLoads, TypeOK
  <2>2. UNCHANGED <<cascadeQ, cur, src>>
    BY <1>3 DEF PassLoads
  <2> QED
    BY <1>0, <2>1, <2>2 DEF Actors, Worker
<1>4. ASSUME NEW a \in Actors, NEW s \in Segments, Begin(a, s) PROVE DepthsFollowLevels'
  BY <1>4 DEF Begin, TypeOK, Actors, Worker
<1>5. ASSUME NEW a \in Actors, Evaluate(a) \/ Commit(a) \/ EvalFails(a)
      PROVE  DepthsFollowLevels'
  BY <1>5, <1>keep DEF Evaluate, Commit, EvalFails, TypeOK
<1>6. ASSUME NEW a \in Actors, Broadcast(a) PROVE DepthsFollowLevels'
  <2>1. /\ UNCHANGED <<todo, cur, src, depth>>
        /\ stage[a] = "committed" /\ depth[a] <= Level[cur[a]]
        /\ stage' = [stage EXCEPT ![a] = "next"]
        /\ cascadeQ' = [cascadeQ EXCEPT ![<<cur[a], depth[a]>>] = @ + 1]
    BY <1>6 DEF Broadcast, Enqueued
  <2>2. ASSUME NEW p \in Segments, NEW d \in Depths, cascadeQ'[<<p, d>>] > 0
        PROVE  d <= Level[p]
    <3>1. CASE <<p, d>> = <<cur[a], depth[a]>>
      BY <2>1, <3>1
    <3>2. CASE <<p, d>> # <<cur[a], depth[a]>>
      BY <2>1, <2>2, <3>2 DEF TypeOK
    <3> QED
      BY <3>1, <3>2
  <2> QED
    BY <2>1, <2>2 DEF TypeOK, Actors, Worker
<1>7. CASE PassDone
  BY <1>7, <1>rest, {Pass} \in SUBSET Actors DEF PassDone, Actors, Worker
<1>8. ASSUME NEW p \in Segments, NEW d \in Depths, CascadeDrops(p, d)
      PROVE  DepthsFollowLevels'
  <2>1. UNCHANGED actors /\ cascadeQ' = [cascadeQ EXCEPT ![<<p, d>>] = @ - 1]
    BY <1>8 DEF CascadeDrops, Dequeued
  <2>2. \A q \in Segments, e \in Depths : cascadeQ'[<<q, e>>] > 0 => cascadeQ[<<q, e>>] > 0
    <3> TAKE q \in Segments, e \in Depths
    <3>1. <<q, e>> \in Segments \X Depths /\ cascadeQ[<<q, e>>] \in Nat
      BY DEF TypeOK
    <3>2. CASE <<q, e>> = <<p, d>>
      BY <2>1, <3>1, <3>2 DEF TypeOK
    <3>3. CASE <<q, e>> # <<p, d>>
      BY <2>1, <3>1, <3>3 DEF TypeOK
    <3> QED
      BY <3>2, <3>3
  <2> QED
    BY <2>1, <2>2 DEF Actors, Worker
<1>9. ASSUME NEW h \in Handlers, NEW p \in Segments, NEW d \in Depths, CascadeStarts(h, p, d)
      PROVE  DepthsFollowLevels'
  <2>1. /\ UNCHANGED <<todo, cur>> /\ h \in Actors
        /\ cascadeQ[<<p, d>>] > 0 /\ cascadeQ' = [cascadeQ EXCEPT ![<<p, d>>] = @ - 1]
        /\ stage[h] = "idle"
    BY <1>9 DEF CascadeStarts, Dequeued, Actors, Worker
  <2>2. \A b \in Actors :
          /\ b = h => stage'[b] = "loading" /\ src'[b] = p /\ depth'[b] = d + 1 /\ todo[b] = {}
          /\ b # h => stage'[b] = stage[b] /\ src'[b] = src[b] /\ depth'[b] = depth[b]
    BY <1>9, <2>1 DEF CascadeStarts, TypeOK, LoadersHaveNothingToDo
  <2>3. \A q \in Segments, e \in Depths : cascadeQ'[<<q, e>>] > 0 => cascadeQ[<<q, e>>] > 0
    BY <2>1 DEF TypeOK
  <2>4. d + 1 <= Level[p] + 1
    BY <1>0, <2>1
  <2> QED
    BY <2>1, <2>2, <2>3, <2>4 DEF Actors, Worker
<1>10. ASSUME NEW h \in Handlers, CascadeLoads(h) PROVE DepthsFollowLevels'
  <2>1. /\ UNCHANGED <<cascadeQ, cur, src, depth>> /\ h \in Actors /\ stage[h] = "loading"
        /\ src[h] \in Segments /\ depth[h] \in Depths
    BY <1>10 DEF CascadeLoads, Actors, Worker, HandlersServeTheirMessage, TypeOK
  <2>2. \A b \in Actors :
          /\ b = h => stage'[b] = "next" /\ todo'[b] = CascadeTargets(src[h])
          /\ b # h => stage'[b] = stage[b] /\ todo'[b] = todo[b]
    BY <1>10 DEF CascadeLoads, TypeOK
  <2>3. ASSUME NEW s \in CascadeTargets(src[h]) PROVE depth[h] <= Level[s]
    <3>1. s \in Segments /\ src[h] \in Parents[s]
      BY DEF CascadeTargets, Children
    <3>2. Level[src[h]] < Level[s] /\ depth[h] <= Level[src[h]] + 1
      BY <2>1, <3>1, LevelFacts
    <3> QED
      BY <1>0, <2>1, <3>1, <3>2
  <2> QED
    BY <2>1, <2>2, <2>3 DEF Actors, Worker
<1>11. ASSUME NEW h \in Handlers, CascadeDone(h) \/ CascadeFails(h)
       PROVE  DepthsFollowLevels'
  BY <1>11, <1>rest, {h} \in SUBSET Actors DEF CascadeDone, CascadeFails, Actors, Worker
<1>12. ASSUME NEW r \in Requests, NEW s \in Segments, RefreshStarts(r, s)
       PROVE  DepthsFollowLevels'
  <2>1. UNCHANGED <<cascadeQ, cur, src>> /\ r \in Actors /\ r \notin Handlers
    BY <1>12 DEF RefreshStarts, Actors, Worker
  <2>2. \A b \in Actors :
          /\ b = r => stage'[b] = "next" /\ todo'[b] = {s} /\ depth'[b] = 0
          /\ b # r => stage'[b] = stage[b] /\ todo'[b] = todo[b] /\ depth'[b] = depth[b]
    BY <1>12, <2>1 DEF RefreshStarts, TypeOK
  <2> QED
    BY <1>0, <2>1, <2>2 DEF Actors, Worker
<1>13. ASSUME NEW r \in Requests, RefreshDone(r) PROVE DepthsFollowLevels'
  BY <1>13, <1>rest, {r} \in SUBSET Actors DEF RefreshDone, Actors, Worker
<1>14. CASE WorkerCrash
  <2>1. Rest(Worker) /\ cascadeQ' = Redelivered
    BY <1>14 DEF WorkerCrash, Stopped
  <2>2. ASSUME NEW p \in Segments, NEW d \in Depths, cascadeQ'[<<p, d>>] > 0
        PROVE  d <= Level[p]
    <3> DEFINE m == <<p, d>>
               hs == {h \in Handlers :
                        stage[h] # "idle" /\ src[h] = m[1] /\ depth[h] = m[2] + 1}
    <3>1. m \in Segments \X Depths /\ cascadeQ[m] \in Nat
      BY DEF TypeOK
    <3>2. cascadeQ'[m] = cascadeQ[m] + Cardinality(hs)
      BY <2>1, <3>1 DEF Redelivered
    <3>3. CASE hs = {}
      <4>1. Cardinality(hs) = 0
        BY <3>3, FS_EmptySet
      <4> HIDE DEF hs
      <4>2. cascadeQ[m] > 0
        BY <2>2, <3>1, <3>2, <4>1
      <4> QED
        BY <4>2
    <3>4. CASE hs # {}
      <4>1. PICK h \in Handlers : stage[h] # "idle" /\ src[h] = p /\ depth[h] = d + 1
        BY <3>4
      <4>2. depth[h] <= Level[p] + 1
        BY <4>1
      <4> QED
        BY <1>0, <4>1, <4>2
    <3> QED
      BY <3>3, <3>4
  <2>3. \A a \in Actors :
          /\ a \in Worker => stage'[a] = "idle" /\ todo'[a] = {}
          /\ a \notin Worker => /\ stage'[a] = stage[a] /\ todo'[a] = todo[a]
                                /\ cur'[a] = cur[a] /\ depth'[a] = depth[a]
    BY <2>1 DEF Rest
  <2> QED
    BY <2>2, <2>3 DEF Actors, Worker
<1>15. CASE ApiCrash
  BY <1>15, <1>rest DEF ApiCrash, Stopped, Actors
<1>16. CASE UNCHANGED vars
  BY <1>16 DEF vars
<1> QED
  BY <1>1, <1>2, <1>3, <1>4, <1>5, <1>6, <1>7, <1>8, <1>9, <1>10, <1>11, <1>12, <1>13,
     <1>14, <1>15, <1>16
  DEF Next, PassStep, Evaluation, HandlerStep, Consume, Actors, Worker

\* In a dependency graph without chains longer than MAX_CASCADE_DEPTH, no delta that
\* has a child to cascade to is ever dropped, in whatever order passes, handlers,
\* refreshes, redeliveries and crashes interleave.
THEOREM LimitSpares == Spec => []LimitSparesShallowGraphs
<1>1. DepthInv => LimitSparesShallowGraphs
  <2> SUFFICES ASSUME DepthInv, ShallowGraph, NEW p \in Segments, NEW d \in Depths,
                      cascadeQ[<<p, d>>] > 0, NEW s \in Children(p)
               PROVE  ~Cut(d + 1)
    BY DEF LimitSparesShallowGraphs
  <2>1. s \in Segments /\ Level[p] < Level[s] /\ Level[p] \in Depths /\ Level[s] \in Depths
    BY LevelFacts DEF Children
  <2>2. d <= Level[p]
    BY DEF DepthInv, DepthsFollowLevels
  <2> QED
    BY <2>1, <2>2, GraphAssumption DEF Cut, Depths
<1> QED
  BY DepthInit, DepthStep, <1>1, PTL DEF Spec

-----------------------------------------------------------------------------
(* Static segments *)

\* Neither the pass nor a cascade handler ever has a static segment in hand.
WorkersEvaluateDynamic ==
    \A a \in Worker :
        /\ todo[a] \subseteq Dynamic
        /\ stage[a] \in {"waiting", "computed"} => cur[a] \in Dynamic

StaticInv == ControlInv /\ WorkersEvaluateDynamic

\* Nobody evaluates.
LEMMA StaticInit == Init => StaticInv
  BY ControlInit DEF StaticInv, WorkersEvaluateDynamic, Init, Actors, Worker

\* The pass loads dynamic segments only, a handler only the dynamic children.
LEMMA StaticStep == StaticInv /\ [Next]_vars => StaticInv'
<1> SUFFICES ASSUME StaticInv, [Next]_vars PROVE WorkersEvaluateDynamic'
  BY ControlStep DEF StaticInv
<1> USE ActorAssumption
    DEF StaticInv, ControlInv, WorkersEvaluateDynamic, store, queues, processor, actors
<1>keep. ASSUME UNCHANGED <<todo, cur>>,
                \A a \in Worker : stage'[a] \in {"waiting", "computed"} =>
                                     stage[a] \in {"waiting", "computed"}
         PROVE  WorkersEvaluateDynamic'
  BY <1>keep
<1>rest. ASSUME NEW as \in SUBSET Actors, Rest(as) PROVE WorkersEvaluateDynamic'
  BY <1>rest DEF Rest, Actors
<1>1. ASSUME NEW c \in Customers,
             (\E d \in Data : ChangeData(c, d)) \/ PublishChange(c) \/ ConsumeChange(c)
      PROVE  WorkersEvaluateDynamic'
  BY <1>1, <1>keep DEF ChangeData, PublishChange, ConsumeChange
<1>2. CASE ImmediateFires \/ \E c \in Customers : TimerFires(c)
  <2>1. RequestPass
    BY <1>2 DEF ImmediateFires, TimerFires
  <2> QED
    BY <1>keep, <2>1 DEF RequestPass, TypeOK, Actors
<1>3. CASE PassLoads
  BY <1>3 DEF PassLoads, TypeOK, Actors
<1>4. ASSUME NEW a \in Actors, NEW s \in Segments, Begin(a, s) PROVE WorkersEvaluateDynamic'
  BY <1>4 DEF Begin, TypeOK, Actors
<1>5. ASSUME NEW a \in Actors, Evaluate(a) \/ Commit(a) \/ Broadcast(a) \/ EvalFails(a)
      PROVE  WorkersEvaluateDynamic'
  BY <1>5, <1>keep DEF Evaluate, Commit, Broadcast, EvalFails, TypeOK, Actors
<1>6. ASSUME NEW p \in Segments, NEW d \in Depths, Consume(p, d)
      PROVE  WorkersEvaluateDynamic'
  BY <1>6, <1>keep DEF Consume, CascadeDrops, CascadeStarts, TypeOK, Actors, Worker
<1>7. ASSUME NEW h \in Handlers, CascadeLoads(h) PROVE WorkersEvaluateDynamic'
  BY <1>7 DEF CascadeLoads, CascadeTargets, TypeOK, Actors, Worker
<1>8. ASSUME NEW r \in Requests, NEW s \in Segments, RefreshStarts(r, s)
      PROVE  WorkersEvaluateDynamic'
  BY <1>8 DEF RefreshStarts, TypeOK, Actors, Worker
<1>9. CASE \/ PassDone \/ WorkerCrash \/ ApiCrash
           \/ \E h \in Handlers : CascadeDone(h) \/ CascadeFails(h)
           \/ \E r \in Requests : RefreshDone(r)
  <2>1. PICK as \in SUBSET Actors : Rest(as)
    BY <1>9 DEF PassDone, WorkerCrash, ApiCrash, CascadeDone, CascadeFails, RefreshDone,
                Stopped, Actors, Worker
  <2> QED
    BY <1>rest, <2>1
<1>10. CASE UNCHANGED vars
  BY <1>10 DEF vars
<1> QED
  BY <1>1, <1>2, <1>3, <1>4, <1>5, <1>6, <1>7, <1>8, <1>9, <1>10
  DEF Next, PassStep, Evaluation, HandlerStep, Actors, Worker

\* Nothing but a manual refresh changes the snapshot of a static segment, however a
\* static segment sits among the dynamic ones in the dependency graph.
THEOREM StaticSegmentsStay == Spec => StaticOnlyByRefresh
<1>1. ASSUME StaticInv, [Next]_vars
      PROVE  \A s \in Segments \ Dynamic :
                mem'[s] # mem[s] => \E r \in Requests : stage[r] = "computed" /\ cur[r] = s
  <2> SUFFICES ASSUME NEW s \in Segments \ Dynamic, mem'[s] # mem[s]
               PROVE  \E r \in Requests : stage[r] = "computed" /\ cur[r] = s
    OBVIOUS
  <2>1. CASE \E a \in Actors : Commit(a)
    <3>1. PICK a \in Actors : Commit(a)
      BY <2>1
    <3>2. stage[a] = "computed" /\ cur[a] = s
      BY <1>1, <3>1 DEF Commit, StaticInv, ControlInv, TypeOK
    <3> QED
      BY <1>1, <3>2 DEF StaticInv, WorkersEvaluateDynamic, Actors
  <2>2. CASE ~ \E a \in Actors : Commit(a)
    <3>1. mem' = mem
      <4> USE DEF store, queues, processor, actors
      <4>1. CASE UNCHANGED vars
        BY <4>1 DEF vars
      <4>2. ASSUME NEW a \in Actors, Evaluation(a) PROVE mem' = mem
        BY <2>2, <4>2 DEF Evaluation, Begin, Evaluate, Broadcast
      <4>3. CASE \/ \E c \in Customers, d \in Data : ChangeData(c, d)
                 \/ \E c \in Customers : PublishChange(c) \/ ConsumeChange(c) \/ TimerFires(c)
                 \/ ImmediateFires \/ PassLoads \/ PassDone
        BY <4>3 DEF ChangeData, PublishChange, ConsumeChange, TimerFires, ImmediateFires,
                    PassLoads, PassDone
      <4>4. CASE \/ \E p \in Segments, d \in Depths : Consume(p, d)
                 \/ \E h \in Handlers : CascadeLoads(h) \/ CascadeDone(h) \/ CascadeFails(h)
        BY <4>4 DEF Consume, CascadeDrops, CascadeStarts, CascadeLoads, CascadeDone,
                    CascadeFails
      <4>5. CASE \/ \E r \in Requests, t \in Segments : RefreshStarts(r, t)
                 \/ \E r \in Requests : RefreshDone(r)
                 \/ \E a \in Actors : EvalFails(a)
                 \/ WorkerCrash \/ ApiCrash
        BY <4>5 DEF RefreshStarts, RefreshDone, EvalFails, WorkerCrash, ApiCrash
      <4> QED
        BY <1>1, <4>1, <4>2, <4>3, <4>4, <4>5 DEF Next, PassStep, HandlerStep, Actors, Worker
    <3> QED
      BY <3>1
  <2> QED
    BY <2>1, <2>2
<1>2. StaticInv /\ [Next]_vars =>
        [\A s \in Segments \ Dynamic :
            mem'[s] # mem[s] => \E r \in Requests : stage[r] = "computed" /\ cur[r] = s]_vars
  BY <1>1
<1> QED
  BY StaticInit, StaticStep, <1>2, PTL DEF Spec, StaticOnlyByRefresh
=============================================================================
