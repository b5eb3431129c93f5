-------------------------- MODULE DeltaFeedProofs --------------------------
(***************************************************************************)
(* Theorems about DeltaFeed for any segments, sockets, prefetch count and  *)
(* number of deltas and faults.  A delta is handled once because it is in  *)
(* one place at a time: unsent, on a wire, in a queue, or delivered.  A    *)
(* browser receives nothing twice in the room all, and the deltas of a     *)
(* process in the order of their broadcast, because everything a live      *)
(* connection has received lies ahead of everything that is still on its   *)
(* way, and a crash of the api, which alone turns that round, cuts every   *)
(* connection.                                                             *)
(***************************************************************************)
EXTENDS DeltaFeed, SequenceTheorems, FiniteSetTheorems, TLAPS

-----------------------------------------------------------------------------
(* Sequences without duplicates *)

\* A message that is appended to others without being among them.
LEMMA AppendDistinct ==
    ASSUME NEW S, NEW s \in Seq(S), NEW e \in S
    PROVE  /\ Append(s, e) \in Seq(S)
           /\ Range(Append(s, e)) = Range(s) \union {e}
           /\ IsInjective(s) /\ e \notin Range(s) => IsInjective(Append(s, e))
<1> DEFINE t == Append(s, e)
<1>1. /\ t \in Seq(S) /\ Len(t) = Len(s) + 1 /\ Len(s) \in Nat
      /\ \A i \in 1..Len(s) : t[i] = s[i]
      /\ t[Len(s) + 1] = e /\ DOMAIN t = 1..(Len(s) + 1) /\ DOMAIN s = 1..Len(s)
  BY AppendProperties, LenProperties
<1> HIDE DEF t
<1>2. Range(t) = Range(s) \union {e}
  <2>1. ASSUME NEW x \in Range(t) PROVE x \in Range(s) \union {e}
    BY <1>1 DEF Range
  <2>2. ASSUME NEW x \in Range(s) PROVE x \in Range(t)
    BY <1>1 DEF Range
  <2>3. e \in Range(t)
    BY <1>1 DEF Range
  <2> QED
    BY <2>1, <2>2, <2>3
<1>3. ASSUME IsInjective(s), e \notin Range(s) PROVE IsInjective(t)
  BY <1>1, <1>3 DEF IsInjective, Range
<1> QED
  BY <1>1, <1>2, <1>3 DEF t

\* The first message is not among the rest of a queue without duplicates.
LEMMA TailDistinct ==
    ASSUME NEW S, NEW s \in Seq(S), s # <<>>
    PROVE  /\ Head(s) \in S /\ Tail(s) \in Seq(S)
           /\ Range(s) = Range(Tail(s)) \union {Head(s)}
           /\ IsInjective(s) => IsInjective(Tail(s)) /\ Head(s) \notin Range(Tail(s))
<1> DEFINE t == Tail(s)
<1>1. /\ Head(s) \in S /\ t \in Seq(S) /\ Len(t) = Len(s) - 1
      /\ \A i \in 1..Len(t) : t[i] = s[i + 1]
      /\ Len(s) \in Nat \ {0} /\ DOMAIN s = 1..Len(s) /\ DOMAIN t = 1..Len(t)
      /\ Head(s) = s[1]
  BY HeadTailProperties, LenProperties, EmptySeq
<1> HIDE DEF t
<1>2. Range(s) = Range(t) \union {Head(s)}
  <2>1. ASSUME NEW i \in DOMAIN s PROVE s[i] \in Range(t) \union {Head(s)}
    <3>1. CASE i = 1
      BY <3>1, <1>1
    <3>2. CASE i # 1
      <4>1. i - 1 \in 1..Len(t) /\ t[i - 1] = s[i - 1 + 1] /\ i - 1 + 1 = i
        BY <3>2, <1>1
      <4> QED
        BY <4>1, <1>1 DEF Range
    <3> QED
      BY <3>1, <3>2
  <2>2. ASSUME NEW i \in DOMAIN t PROVE t[i] \in Range(s)
    BY <1>1 DEF Range
  <2>3. Head(s) \in Range(s)
    BY <1>1 DEF Range
  <2> QED
    BY <2>1, <2>2, <2>3 DEF Range
<1>3. ASSUME IsInjective(s) PROVE IsInjective(t) /\ Head(s) \notin Range(t)
  <2>1. \A i, j \in 1..Len(s) : s[i] = s[j] => i = j
    BY <1>1, <1>3 DEF IsInjective
  <2>2. \A i \in 1..Len(t) : i + 1 \in 1..Len(s) /\ t[i] = s[i + 1]
    BY <1>1
  <2>3. \A i, j \in 1..Len(t) : t[i] = t[j] => i = j
    BY <1>1, <2>1, <2>2
  <2>4. \A i \in 1..Len(t) : t[i] # s[1]
    <3> TAKE i \in 1..Len(t)
    <3>1. i + 1 # 1 /\ 1 \in 1..Len(s)
      BY <1>1
    <3> QED
      BY <3>1, <2>1, <2>2
  <2> QED
    BY <1>1, <2>3, <2>4 DEF IsInjective, Range
<1> QED
  BY <1>1, <1>2, <1>3 DEF t

\* A message taken from the middle is not among what is left.
LEMMA RemoveDistinct ==
    ASSUME NEW S, NEW s \in Seq(S), NEW k \in DOMAIN s
    PROVE  /\ s[k] \in S /\ RemoveAt(s, k) \in Seq(S)
           /\ Range(s) = Range(RemoveAt(s, k)) \union {s[k]}
           /\ IsInjective(s) => IsInjective(RemoveAt(s, k)) /\ s[k] \notin Range(RemoveAt(s, k))
<1> DEFINE t == RemoveAt(s, k)
           a == SubSeq(s, 1, k - 1)
           b == SubSeq(s, k + 1, Len(s))
           n == Len(s)
<1>0. n \in Nat /\ DOMAIN s = 1..n /\ k \in 1..n /\ \A i \in 1..n : s[i] \in S
  BY LenProperties, ElementOfSeq
<1>1. a \in Seq(S) /\ Len(a) = k - 1 /\ \A i \in 1..(k - 1) : a[i] = s[i]
  <2>1. \A i \in 1..(k - 1) : s[i] \in S
    BY <1>0
  <2>2. a \in Seq(S) /\ Len(a) = (IF 1 <= k - 1 THEN k - 1 - 1 + 1 ELSE 0)
        /\ \A i \in 1..(k - 1 - 1 + 1) : a[i] = s[1 + i - 1]
    BY <1>0, <2>1, SubSeqProperties
  <2> QED
    BY <2>2, <1>0
<1>2. b \in Seq(S) /\ Len(b) = n - k /\ \A i \in 1..(n - k) : b[i] = s[k + i]
  <2>1. \A i \in (k + 1)..n : s[i] \in S
    BY <1>0
  <2>2. b \in Seq(S) /\ Len(b) = (IF k + 1 <= n THEN n - (k + 1) + 1 ELSE 0)
        /\ \A i \in 1..(n - (k + 1) + 1) : b[i] = s[k + 1 + i - 1]
    BY <1>0, <2>1, SubSeqProperties
  <2> QED
    BY <2>2, <1>0
<1>3. /\ t \in Seq(S) /\ Len(t) = n - 1 /\ DOMAIN t = 1..(n - 1)
      /\ \A i \in 1..(n - 1) : t[i] = IF i < k THEN s[i] ELSE s[i + 1]
  <2>1. t = a \o b
    BY DEF RemoveAt
  <2> HIDE DEF a, b, t
  <2>2. /\ t \in Seq(S) /\ Len(t) = Len(a) + Len(b)
        /\ \A i \in 1..(Len(a) + Len(b)) : t[i] = IF i <= Len(a) THEN a[i] ELSE b[i - Len(a)]
    BY <2>1, <1>1, <1>2, ConcatProperties
  <2>3. Len(a) + Len(b) = n - 1
    BY <1>0, <1>1, <1>2
  <2>4. \A i \in 1..(n - 1) : t[i] = IF i < k THEN s[i] ELSE s[i + 1]
    <3> TAKE i \in 1..(n - 1)
    <3>1. CASE i < k
      BY <3>1, <2>2, <2>3, <1>0, <1>1
    <3>2. CASE ~(i < k)
      <4>1. t[i] = b[i - (k - 1)] /\ i - (k - 1) \in 1..(n - k) /\ k + (i - (k - 1)) = i + 1
        BY <3>2, <2>2, <2>3, <1>0, <1>1
      <4> QED
        BY <4>1, <1>2, <3>2
    <3> QED
      BY <3>1, <3>2
  <2> QED
    BY <2>2, <2>3, <2>4, LenProperties
<1> HIDE DEF t, a, b
<1>4. Range(s) = Range(t) \union {s[k]}
  <2>1. ASSUME NEW i \in DOMAIN s PROVE s[i] \in Range(t) \union {s[k]}
    <3>1. CASE i = k
      BY <3>1
    <3>2. CASE i < k
      <4>1. i \in 1..(n - 1) /\ t[i] = s[i]
        BY <3>2, <1>0, <1>3
      <4> QED
        BY <4>1, <1>3 DEF Range
    <3>3. CASE i > k
      <4>1. i - 1 \in 1..(n - 1) /\ t[i - 1] = s[i - 1 + 1] /\ i - 1 + 1 = i
        BY <3>3, <1>0, <1>3
      <4> QED
        BY <4>1, <1>3 DEF Range
    <3> QED
      BY <1>0, <3>1, <3>2, <3>3
  <2>2. ASSUME NEW i \in DOMAIN t PROVE t[i] \in Range(s)
    BY <1>0, <1>3 DEF Range
  <2>3. s[k] \in Range(s)
    BY DEF Range
  <2> QED
    BY <2>1, <2>2, <2>3 DEF Range
<1>5. ASSUME IsInjective(s) PROVE IsInjective(t) /\ s[k] \notin Range(t)
  <2>1. \A i, j \in 1..n : s[i] = s[j] => i = j
    BY <1>0, <1>5 DEF IsInjective
  <2>2. \A i, j \in 1..(n - 1) : t[i] = t[j] => i = j
    BY <1>0, <1>3, <2>1
  <2>3. \A i \in 1..(n - 1) : t[i] # s[k]
    BY <1>0, <1>3, <2>1
  <2> QED
    BY <2>2, <2>3, <1>3 DEF IsInjective, Range
<1>6. s[k] \in S
  BY <1>0
<1> QED
  BY <1>3, <1>4, <1>5, <1>6 DEF t

\* Two sequences with nothing in common joined, as when deliveries return into the queue.
LEMMA ConcatDistinct ==
    ASSUME NEW S, NEW s \in Seq(S), NEW t \in Seq(S)
    PROVE  /\ s \o t \in Seq(S) /\ Range(s \o t) = Range(s) \union Range(t)
           /\ IsInjective(s) /\ IsInjective(t) /\ Range(s) \intersect Range(t) = {}
                 => IsInjective(s \o t)
<1> DEFINE u == s \o t
           m == Len(s)
<1>1. /\ u \in Seq(S) /\ Range(u) = Range(s) \union Range(t) /\ Len(u) = m + Len(t)
      /\ m \in Nat /\ Len(t) \in Nat
      /\ DOMAIN u = 1..(m + Len(t)) /\ DOMAIN s = 1..m /\ DOMAIN t = 1..Len(t)
      /\ \A i \in 1..(m + Len(t)) : u[i] = IF i <= m THEN s[i] ELSE t[i - m]
  BY ConcatProperties, RangeConcatenation, LenProperties
<1> HIDE DEF u, m
<1>2. ASSUME IsInjective(s), IsInjective(t), Range(s) \intersect Range(t) = {}
      PROVE  IsInjective(u)
  <2> SUFFICES ASSUME NEW i \in DOMAIN u, NEW j \in DOMAIN u, u[i] = u[j] PROVE i = j
    BY DEF IsInjective
  <2>1. \A k \in DOMAIN u : IF k <= m THEN k \in DOMAIN s /\ u[k] = s[k]
                                        ELSE k - m \in DOMAIN t /\ u[k] = t[k - m]
    BY <1>1
  <2>2. CASE i <= m /\ j <= m
    BY <2>1, <2>2, <1>2 DEF IsInjective
  <2>3. CASE ~(i <= m) /\ ~(j <= m)
    <3>1. i - m = j - m
      BY <2>1, <2>3, <1>2 DEF IsInjective
    <3> QED
      BY <3>1, <1>1
  <2>4. CASE i <= m /\ ~(j <= m)
    BY <2>1, <2>4, <1>2 DEF Range
  <2>5. CASE ~(i <= m) /\ j <= m
    BY <2>1, <2>5, <1>2 DEF Range
  <2> QED
    BY <2>2, <2>3, <2>4, <2>5
<1> QED
  BY <1>1, <1>2 DEF u

-----------------------------------------------------------------------------
(* The invariants *)

Delta == [segment : Segments, by : Processes]
Counters == [crashes : Nat, restarts : Nat, drops : Nat, sockets : Nat]

\* What the variables hold: a message of queue q is delivered to the handler of q only.
Types ==
    /\ log \in Seq(Delta) /\ Len(log) <= MaxDeltas
    /\ unsent \subseteq DOMAIN log
    /\ wire \in [Processes -> [Roles -> Seq(Deltas)]]
    /\ queue \in [Roles -> Seq(Deltas)]
    /\ DOMAIN taken = Roles /\ \A q \in Roles : taken[q] \in Seq({q} \X Deltas)
    /\ arrived \subseteq Roles \X Deltas
    /\ handled \in [Roles -> [Deltas -> Nat]]
    /\ used \in Counters

\* No message is twice on a wire, in a queue or among the deliveries.
NoDuplicates(q) ==
    /\ \A p \in Processes : IsInjective(wire[p][q])
    /\ IsInjective(queue[q]) /\ IsInjective(taken[q])

\* Without a crash a message that is on its way has not been handled.
Fresh(q, d) == used.crashes = 0 => handled[q][d] = 0

\* The message of delta d for q is in one place: to be sent, on the wire of the process
\* that computed it, in the queue or delivered; without a crash, or handled once.
OnePlace(q, d) ==
    /\ \A p \in Processes : d \in Range(wire[p][q]) =>
          /\ d \in DOMAIN log \ unsent /\ log[d].by = p
          /\ d \notin Range(queue[q]) /\ <<q, d>> \notin Range(taken[q]) /\ Fresh(q, d)
    /\ d \in Range(queue[q]) =>
          d \in DOMAIN log \ unsent /\ <<q, d>> \notin Range(taken[q]) /\ Fresh(q, d)
    /\ <<q, d>> \in Range(taken[q]) => d \in DOMAIN log \ unsent /\ Fresh(q, d)
    /\ used.crashes = 0 /\ handled[q][d] # 0 => d \in DOMAIN log \ unsent /\ handled[q][d] = 1

Places == \A q \in Roles : NoDuplicates(q) /\ \A d \in Deltas : OnePlace(q, d)

IInv == Types /\ KeptUntilHandled /\ Places

-----------------------------------------------------------------------------
(* The steps *)

\* The patterns differ: a message runs the handler of its own queue and no other.
LEMMA OwnHandler ==
    ASSUME NEW q \in Roles, NEW d PROVE Deliveries(q, d) = <<<<q, d>>>>
<1>1. Fires(q) = {q}
  BY DEF Fires, PatternOf
<1>2. Fires(q) \X {d} = {<<q, d>>}
  BY <1>1
<1>3. Cardinality({<<q, d>>}) = 1
  BY FS_Singleton
<1>4. SetToSeq({<<q, d>>}) = CHOOSE f \in [1..1 -> {<<q, d>>}] : IsInjective(f)
  BY <1>3 DEF SetToSeq
<1>5. \A f \in [1..1 -> {<<q, d>>}] : f = [i \in 1..1 |-> <<q, d>>]
  OBVIOUS
<1>6. [i \in 1..1 |-> <<q, d>>] \in [1..1 -> {<<q, d>>}] /\ IsInjective([i \in 1..1 |-> <<q, d>>])
  BY DEF IsInjective
<1>7. SetToSeq({<<q, d>>}) = [i \in 1..1 |-> <<q, d>>]
  BY <1>4, <1>5, <1>6
<1>8. [i \in 1..1 |-> <<q, d>>] = <<<<q, d>>>>
  OBVIOUS
<1> QED
  BY <1>2, <1>7, <1>8 DEF Deliveries

\* What a delivery adds to the deliveries of q.
LEMMA DeliveredOnce ==
    ASSUME Types, NEW q \in Roles, NEW d \in Deltas
    PROVE  LET t == taken[q] \o Deliveries(q, d)
           IN  /\ t \in Seq({q} \X Deltas)
               /\ Range(t) = Range(taken[q]) \union {<<q, d>>}
               /\ IsInjective(taken[q]) /\ <<q, d>> \notin Range(taken[q]) => IsInjective(t)
<1>1. taken[q] \in Seq({q} \X Deltas) /\ <<q, d>> \in {q} \X Deltas
  BY DEF Types
<1>2. taken[q] \o Deliveries(q, d) = Append(taken[q], <<q, d>>)
  BY <1>1, OwnHandler, AppendIsConcat
<1> QED
  BY <1>1, <1>2, AppendDistinct

\* Nothing is on its way at first.
LEMMA InitInv ==
    ASSUME MaxDeltas \in Nat, FeedInit
    PROVE  IInv
<1>1. Types
  <2>1. /\ log \in Seq(Delta) /\ Len(log) = 0 /\ unsent = {}
        /\ wire \in [Processes -> [Roles -> Seq(Deltas)]] /\ queue \in [Roles -> Seq(Deltas)]
    BY EmptySeq DEF FeedInit
  <2>2. DOMAIN taken = Roles /\ \A q \in Roles : taken[q] \in Seq({q} \X Deltas)
    BY EmptySeq DEF FeedInit
  <2>3. /\ arrived \subseteq Roles \X Deltas /\ handled \in [Roles -> [Deltas -> Nat]]
        /\ used \in Counters
    BY DEF FeedInit, Counters
  <2> QED
    BY <2>1, <2>2, <2>3 DEF Types
<1>2. \A q \in Roles : Range(queue[q]) = {} /\ Range(taken[q]) = {}
                       /\ \A p \in Processes : Range(wire[p][q]) = {}
  BY DEF FeedInit, Range
<1>3. KeptUntilHandled
  BY DEF FeedInit, KeptUntilHandled
<1>4. \A q \in Roles : NoDuplicates(q) /\ \A d \in Deltas : OnePlace(q, d)
  BY <1>2 DEF FeedInit, NoDuplicates, OnePlace, Fresh, IsInjective
<1> QED
  BY <1>1, <1>3, <1>4 DEF IInv, Places

\* A new delta has been neither sent nor handled.
LEMMA RecordStep ==
    ASSUME MaxDeltas \in Nat, IInv, NEW segment \in Segments, NEW p \in Processes, RecordDelta(segment, p)
    PROVE  IInv'
<1> DEFINE new == [segment |-> segment, by |-> p]
<1>1. log \in Seq(Delta) /\ new \in Delta /\ Len(log) < MaxDeltas /\ log' = Append(log, new)
  BY DEF IInv, Types, RecordDelta, Delta
<1>2. /\ log' \in Seq(Delta) /\ Len(log') = Len(log) + 1 /\ Len(log) \in Nat
      /\ \A d \in 1..Len(log) : log'[d] = log[d]
      /\ DOMAIN log = 1..Len(log) /\ DOMAIN log' = 1..(Len(log) + 1)
  BY <1>1, AppendProperties, LenProperties
<1>3. /\ unsent' = unsent \union {Len(log) + 1} /\ unsent \subseteq DOMAIN log
      /\ wire' = wire /\ queue' = queue /\ taken' = taken /\ arrived' = arrived
      /\ handled' = handled /\ used' = used
  BY DEF RecordDelta, IInv, Types
<1>4. Types'
  <2>1. Len(log') <= MaxDeltas /\ unsent' \subseteq DOMAIN log'
    BY <1>1, <1>2, <1>3
  <2> QED
    BY <1>2, <1>3, <2>1 DEF Types, IInv
<1>5. KeptUntilHandled'
  BY <1>3 DEF IInv, KeptUntilHandled
<1>6. Places'
  <2> SUFFICES ASSUME NEW q \in Roles
               PROVE  NoDuplicates(q)' /\ \A d \in Deltas : OnePlace(q, d)'
    BY <1>3 DEF Places
  <2>1. NoDuplicates(q)'
    BY <1>3 DEF IInv, Places, NoDuplicates
  <2>2. ASSUME NEW d \in DOMAIN log \ unsent PROVE d \in DOMAIN log' \ unsent' /\ log'[d] = log[d]
    BY <1>2, <1>3
  <2>3. ASSUME NEW d \in Deltas PROVE OnePlace(q, d)'
    <3>1. OnePlace(q, d)
      BY DEF IInv, Places
    <3> QED
      BY <3>1, <2>2, <1>3 DEF OnePlace, Fresh
  <2> QED
    BY <2>1, <2>3
<1> QED
  BY <1>4, <1>5, <1>6 DEF IInv

\* A broadcast puts the delta on the three wires of its process.
LEMMA BroadcastStep ==
    ASSUME MaxDeltas \in Nat, IInv, NEW e \in unsent, Broadcast(e)
    PROVE  IInv'
<1> DEFINE o == log[e].by
<1>1. e \in DOMAIN log /\ e \in Deltas /\ o \in Processes
  <2>1. log \in Seq(Delta) /\ Len(log) <= MaxDeltas /\ e \in DOMAIN log
    BY DEF IInv, Types
  <2>2. Len(log) \in Nat /\ e \in 1..Len(log) /\ log[e] \in Delta
    BY <2>1, LenProperties, ElementOfSeq
  <2> QED
    BY <2>1, <2>2 DEF Delta, Deltas
<1>2. /\ unsent' = unsent \ {e} /\ log' = log /\ queue' = queue /\ taken' = taken
      /\ arrived' = arrived /\ handled' = handled /\ used' = used
      /\ wire' = [wire EXCEPT ![o] = [q \in Roles |-> Append(@[q], e)]]
  BY DEF Broadcast
<1>3. /\ DOMAIN wire = Processes
      /\ \A p \in Processes, q \in Roles : wire[p][q] \in Seq(Deltas)
  BY DEF IInv, Types
<1> HIDE DEF o
<1>4. \A p \in Processes, q \in Roles :
         wire'[p][q] = IF p = o THEN Append(wire[p][q], e) ELSE wire[p][q]
  BY <1>1, <1>2, <1>3
<1>5. \A q \in Roles :
         /\ wire'[o][q] \in Seq(Deltas)
         /\ Range(wire'[o][q]) = Range(wire[o][q]) \union {e}
         /\ IsInjective(wire[o][q]) /\ e \notin Range(wire[o][q]) => IsInjective(wire'[o][q])
  <2> TAKE q \in Roles
  <2>1. wire[o][q] \in Seq(Deltas) /\ e \in Deltas /\ wire'[o][q] = Append(wire[o][q], e)
    BY <1>1, <1>3, <1>4
  <2> QED
    BY <2>1, AppendDistinct
<1>6. Types'
  <2>1. wire' \in [Processes -> [Roles -> Seq(Deltas)]]
    <3>1. wire \in [Processes -> [Roles -> Seq(Deltas)]]
      BY DEF IInv, Types
    <3>2. \A q \in Roles : Append(wire[o][q], e) \in Seq(Deltas)
      BY <1>1, <1>4, <1>5
    <3> QED
      BY <1>1, <1>2, <3>1, <3>2
  <2> QED
    BY <1>2, <2>1 DEF Types, IInv
<1>7. KeptUntilHandled'
  BY <1>2 DEF IInv, KeptUntilHandled
<1>8. Places'
  <2> SUFFICES ASSUME NEW q \in Roles
               PROVE  NoDuplicates(q)' /\ \A d \in Deltas : OnePlace(q, d)'
    BY <1>2 DEF Places
  <2>0. NoDuplicates(q) /\ \A d \in Deltas : OnePlace(q, d)
    BY DEF IInv, Places
  <2>1. /\ \A p \in Processes : e \notin Range(wire[p][q])
        /\ e \notin Range(queue[q]) /\ <<q, e>> \notin Range(taken[q]) /\ Fresh(q, e)
    BY <2>0, <1>1 DEF OnePlace, Fresh
  <2>2. NoDuplicates(q)'
    BY <1>2, <1>4, <1>5, <2>0, <2>1 DEF NoDuplicates
  <2>3. ASSUME NEW d \in Deltas PROVE OnePlace(q, d)'
    <3>1. CASE d = e
      BY <3>1, <1>1, <1>2, <1>4, <2>1 DEF OnePlace, Fresh, o
    <3>2. CASE d # e
      <4>1. \A p \in Processes : d \in Range(wire'[p][q]) <=> d \in Range(wire[p][q])
        BY <3>2, <1>4, <1>5
      <4>2. OnePlace(q, d)
        BY <2>0
      <4> QED
        BY <3>2, <4>1, <4>2, <1>2 DEF OnePlace, Fresh
    <3> QED
      BY <3>1, <3>2
  <2> QED
    BY <2>2, <2>3
<1> QED
  BY <1>6, <1>7, <1>8 DEF IInv

\* From the wire into the queue.
LEMMA ArriveStep ==
    ASSUME MaxDeltas \in Nat, IInv, NEW p \in Processes, NEW q \in Roles, Arrive(p, q)
    PROVE  IInv'
<1> DEFINE e == Head(wire[p][q])
<1>1. /\ wire \in [Processes -> [Roles -> Seq(Deltas)]] /\ wire[p][q] \in Seq(Deltas)
      /\ wire[p][q] # <<>> /\ queue \in [Roles -> Seq(Deltas)] /\ queue[q] \in Seq(Deltas)
  BY DEF IInv, Types, Arrive
<1>2. /\ e \in Deltas /\ Tail(wire[p][q]) \in Seq(Deltas)
      /\ Range(wire[p][q]) = Range(Tail(wire[p][q])) \union {e}
      /\ IsInjective(wire[p][q]) =>
            IsInjective(Tail(wire[p][q])) /\ e \notin Range(Tail(wire[p][q]))
  BY <1>1, TailDistinct
<1>3. /\ queue' = [queue EXCEPT ![q] = Append(@, e)] /\ arrived' = arrived \union {<<q, e>>}
      /\ wire' = [wire EXCEPT ![p][q] = Tail(@)]
      /\ log' = log /\ unsent' = unsent /\ taken' = taken /\ handled' = handled /\ used' = used
  BY DEF Arrive
<1> HIDE DEF e
<1>4. /\ Append(queue[q], e) \in Seq(Deltas)
      /\ Range(Append(queue[q], e)) = Range(queue[q]) \union {e}
      /\ IsInjective(queue[q]) /\ e \notin Range(queue[q]) => IsInjective(Append(queue[q], e))
  BY <1>1, <1>2, AppendDistinct
<1>5. /\ queue'[q] = Append(queue[q], e) /\ wire'[p][q] = Tail(wire[p][q])
      /\ \A r \in Roles : r # q => queue'[r] = queue[r] /\ \A o \in Processes : wire'[o][r] = wire[o][r]
      /\ \A o \in Processes : o # p => wire'[o][q] = wire[o][q]
  BY <1>1, <1>3
<1>6. Types'
  <2>1. /\ wire' \in [Processes -> [Roles -> Seq(Deltas)]]
        /\ queue' \in [Roles -> Seq(Deltas)] /\ arrived' \subseteq Roles \X Deltas
    BY <1>1, <1>2, <1>3, <1>4 DEF IInv, Types
  <2> QED
    BY <1>3, <2>1 DEF IInv, Types
<1>7. KeptUntilHandled'
  <2> SUFFICES ASSUME used.drops + used.restarts = 0, NEW m \in arrived'
               PROVE  \/ m[2] \in Range(queue'[m[1]]) \/ m \in Range(taken[m[1]])
                      \/ handled[m[1]][m[2]] > 0
    BY <1>3 DEF KeptUntilHandled
  <2>1. CASE m = <<q, e>>
    BY <2>1, <1>4, <1>5
  <2>2. CASE m \in arrived
    <3>1. m[1] \in Roles
      BY <2>2 DEF IInv, Types
    <3>2. Range(queue[m[1]]) \subseteq Range(queue'[m[1]])
      BY <3>1, <1>4, <1>5
    <3> QED
      BY <2>2, <3>2 DEF IInv, KeptUntilHandled
  <2> QED
    BY <2>1, <2>2, <1>3
<1>8. Places'
  <2> SUFFICES ASSUME NEW r \in Roles
               PROVE  NoDuplicates(r)' /\ \A d \in Deltas : OnePlace(r, d)'
    BY <1>3 DEF Places
  <2>0. NoDuplicates(r) /\ \A d \in Deltas : OnePlace(r, d)
    BY DEF IInv, Places
  <2>1. CASE r # q
    BY <2>0, <2>1, <1>3, <1>5 DEF NoDuplicates, OnePlace, Fresh
  <2>2. CASE r = q
    <3>1. /\ e \in DOMAIN log \ unsent /\ log[e].by = p
          /\ e \notin Range(queue[q]) /\ <<q, e>> \notin Range(taken[q]) /\ Fresh(q, e)
      BY <2>0, <2>2, <1>2 DEF OnePlace, Fresh
    <3>2. NoDuplicates(q)'
      BY <2>0, <2>2, <3>1, <1>2, <1>3, <1>4, <1>5 DEF NoDuplicates
    <3>3. ASSUME NEW d \in Deltas PROVE OnePlace(q, d)'
      <4>0. OnePlace(q, d) /\ NoDuplicates(q)
        BY <2>0, <2>2
      <4>1. CASE d = e
        <5>1. \A o \in Processes : e \notin Range(wire'[o][q])
          <6> TAKE o \in Processes
          <6>1. CASE o = p
            BY <6>1, <4>0, <1>2, <1>5 DEF NoDuplicates
          <6>2. CASE o # p
            BY <6>2, <4>0, <4>1, <3>1, <1>5 DEF OnePlace, Fresh
          <6> QED
            BY <6>1, <6>2
        <5> QED
          BY <4>1, <5>1, <3>1, <1>3, <1>4, <1>5 DEF OnePlace, Fresh
      <4>2. CASE d # e
        <5>1. /\ d \in Range(queue'[q]) <=> d \in Range(queue[q])
              /\ \A o \in Processes : d \in Range(wire'[o][q]) => d \in Range(wire[o][q])
          BY <4>2, <1>2, <1>4, <1>5
        <5> QED
          BY <4>0, <5>1, <1>3 DEF OnePlace, Fresh
      <4> QED
        BY <4>1, <4>2
    <3> QED
      BY <2>2, <3>2, <3>3
  <2> QED
    BY <2>1, <2>2
<1> QED
  BY <1>6, <1>7, <1>8 DEF IInv

\* A message leaves its queue for the deliveries (Deliver, Forward).
LEMMA HandOver ==
    ASSUME IInv, NEW q \in Roles, NEW e \in Deltas, NEW rest \in Seq(Deltas),
           Range(queue[q]) = Range(rest) \union {e},
           IsInjective(queue[q]) => IsInjective(rest) /\ e \notin Range(rest),
           queue' = [queue EXCEPT ![q] = rest],
           taken' = [taken EXCEPT ![q] = @ \o Deliveries(q, e)],
           UNCHANGED <<log, unsent, wire, arrived, handled, used>>
    PROVE  IInv'
<1> DEFINE t == taken[q] \o Deliveries(q, e)
<1>1. /\ t \in Seq({q} \X Deltas) /\ Range(t) = Range(taken[q]) \union {<<q, e>>}
      /\ IsInjective(taken[q]) /\ <<q, e>> \notin Range(taken[q]) => IsInjective(t)
  BY DeliveredOnce DEF IInv
<1>2. /\ queue \in [Roles -> Seq(Deltas)] /\ DOMAIN taken = Roles /\ taken' = [taken EXCEPT ![q] = t]
      /\ \A r \in Roles : taken[r] \in Seq({r} \X Deltas)
  BY DEF IInv, Types
<1> HIDE DEF t
<1>3. /\ queue'[q] = rest /\ taken'[q] = t
      /\ \A r \in Roles : r # q => queue'[r] = queue[r] /\ taken'[r] = taken[r]
  BY <1>2
<1>4. Types'
  <2>1. queue' \in [Roles -> Seq(Deltas)]
    BY <1>2
  <2>2. DOMAIN taken' = Roles /\ \A r \in Roles : taken'[r] \in Seq({r} \X Deltas)
    BY <1>1, <1>2, <1>3
  <2> QED
    BY <2>1, <2>2 DEF IInv, Types
<1>5. KeptUntilHandled'
  <2> SUFFICES ASSUME used.drops + used.restarts = 0, NEW m \in arrived
               PROVE  \/ m[2] \in Range(queue'[m[1]]) \/ m \in Range(taken'[m[1]])
                      \/ handled[m[1]][m[2]] > 0
    BY DEF KeptUntilHandled
  <2>1. m[1] \in Roles /\ m = <<m[1], m[2]>>
    BY DEF IInv, Types
  <2>2. \/ m[2] \in Range(queue[m[1]]) \/ m \in Range(taken[m[1]])
        \/ handled[m[1]][m[2]] > 0
    BY DEF IInv, KeptUntilHandled
  <2>3. CASE m[1] = q
    BY <2>1, <2>2, <2>3, <1>1, <1>3
  <2> QED
    BY <2>1, <2>2, <2>3, <1>3
<1>6. Places'
  <2> SUFFICES ASSUME NEW r \in Roles
               PROVE  NoDuplicates(r)' /\ \A d \in Deltas : OnePlace(r, d)'
    BY DEF Places
  <2>0. NoDuplicates(r) /\ \A d \in Deltas : OnePlace(r, d)
    BY DEF IInv, Places
  <2>1. CASE r # q
    BY <2>0, <2>1, <1>3 DEF NoDuplicates, OnePlace, Fresh
  <2>2. CASE r = q
    <3>1. /\ e \in DOMAIN log \ unsent /\ <<q, e>> \notin Range(taken[q]) /\ Fresh(q, e)
          /\ e \notin Range(rest) /\ \A p \in Processes : e \notin Range(wire[p][q])
      BY <2>0, <2>2 DEF OnePlace, Fresh, NoDuplicates
    <3>2. NoDuplicates(q)'
      BY <2>0, <2>2, <3>1, <1>1, <1>3 DEF NoDuplicates
    <3>3. ASSUME NEW d \in Deltas PROVE OnePlace(q, d)'
      <4>1. CASE d = e
        BY <4>1, <3>1, <1>3 DEF OnePlace, Fresh
      <4>2. CASE d # e
        <5>1. d \in Range(queue'[q]) <=> d \in Range(queue[q])
          BY <4>2, <1>3
        <5>2. <<q, d>> \in Range(taken'[q]) <=> <<q, d>> \in Range(taken[q])
          <6>1. <<q, d>> # <<q, e>>
            BY <4>2
          <6>2. Range(taken'[q]) = Range(taken[q]) \union {<<q, e>>}
            BY <1>1, <1>3
          <6> QED
            BY <6>1, <6>2
        <5> QED
          BY <2>0, <2>2, <5>1, <5>2 DEF OnePlace, Fresh
      <4> QED
        BY <4>1, <4>2
    <3> QED
      BY <2>2, <3>2, <3>3
  <2> QED
    BY <2>1, <2>2
<1> QED
  BY <1>4, <1>5, <1>6 DEF IInv

\* From the queue to the handler, up to the prefetch count.
LEMMA DeliverStep ==
    ASSUME IInv, NEW q \in Roles, Deliver(q)
    PROVE  IInv'
<1>1. queue[q] \in Seq(Deltas) /\ queue[q] # <<>>
  BY DEF IInv, Types, Deliver
<1> QED
  BY <1>1, TailDistinct, HandOver DEF Deliver

\* The gateway takes a message from its queue and emits it.
LEMMA ForwardStep ==
    ASSUME IInv, Forward
    PROVE  IInv'
<1>1. PICK i \in DOMAIN queue["ws"] :
         /\ queue' = [queue EXCEPT !["ws"] = RemoveAt(@, i)]
         /\ taken' = [taken EXCEPT !["ws"] = @ \o Deliveries("ws", queue["ws"][i])]
         /\ UNCHANGED <<log, unsent, wire, arrived, handled, used>>
  BY DEF Forward
<1>2. "ws" \in Roles /\ queue["ws"] \in Seq(Deltas) /\ queue \in [Roles -> Seq(Deltas)]
  BY DEF IInv, Types, Roles
<1> DEFINE e == queue["ws"][i]
           rest == RemoveAt(queue["ws"], i)
<1>3. /\ e \in Deltas /\ rest \in Seq(Deltas) /\ Range(queue["ws"]) = Range(rest) \union {e}
      /\ IsInjective(queue["ws"]) => IsInjective(rest) /\ e \notin Range(rest)
  BY <1>2, RemoveDistinct
<1>4. /\ queue' = [queue EXCEPT !["ws"] = rest]
      /\ taken' = [taken EXCEPT !["ws"] = @ \o Deliveries("ws", e)]
  BY <1>1
<1> HIDE DEF e, rest
<1> QED
  BY <1>1, <1>2, <1>3, <1>4, HandOver

\* Faults and steps of sockets are counted.
LEMMA Counted ==
    ASSUME IInv, NEW kind \in {"crashes", "restarts", "drops", "sockets"},
           used' = [used EXCEPT ![kind] = @ + 1]
    PROVE  /\ used' \in Counters /\ used'[kind] # 0
           /\ used'.drops \in Nat /\ used'.restarts \in Nat
           /\ kind # "crashes" => used'.crashes = used.crashes
           /\ kind # "drops" => used'.drops = used.drops
           /\ kind # "restarts" => used'.restarts = used.restarts
<1>1. used \in Counters
  BY DEF IInv, Types
<1>2. used.crashes \in Nat /\ used.restarts \in Nat /\ used.drops \in Nat /\ used.sockets \in Nat
  BY <1>1 DEF Counters
<1>3. CASE kind = "crashes"
  BY <1>1, <1>2, <1>3 DEF Counters
<1>4. CASE kind = "restarts"
  BY <1>1, <1>2, <1>4 DEF Counters
<1>5. CASE kind = "drops"
  BY <1>1, <1>2, <1>5 DEF Counters
<1>6. CASE kind = "sockets"
  BY <1>1, <1>2, <1>6 DEF Counters
<1> QED
  BY <1>3, <1>4, <1>5, <1>6

\* A delivery is acknowledged or rejected: it is gone.
LEMMA Removed ==
    ASSUME IInv, NEW q \in Roles, NEW i \in DOMAIN taken[q],
           taken' = [taken EXCEPT ![q] = RemoveAt(@, i)]
    PROVE  /\ taken[q][i] = <<q, taken[q][i][2]>> /\ taken[q][i][2] \in Deltas
           /\ DOMAIN taken' = Roles /\ \A r \in Roles : taken'[r] \in Seq({r} \X Deltas)
           /\ Range(taken[q]) = Range(taken'[q]) \union {taken[q][i]}
           /\ IsInjective(taken[q]) => IsInjective(taken'[q]) /\ taken[q][i] \notin Range(taken'[q])
           /\ \A r \in Roles : r # q => taken'[r] = taken[r]
<1>1. DOMAIN taken = Roles /\ \A r \in Roles : taken[r] \in Seq({r} \X Deltas)
  BY DEF IInv, Types
<1>2. taken'[q] = RemoveAt(taken[q], i) /\ \A r \in Roles : r # q => taken'[r] = taken[r]
  BY <1>1
<1>3. /\ taken[q][i] \in {q} \X Deltas /\ taken'[q] \in Seq({q} \X Deltas)
      /\ Range(taken[q]) = Range(taken'[q]) \union {taken[q][i]}
      /\ IsInjective(taken[q]) => IsInjective(taken'[q]) /\ taken[q][i] \notin Range(taken'[q])
  BY <1>1, <1>2, RemoveDistinct
<1>4. taken[q][i] = <<q, taken[q][i][2]>> /\ taken[q][i][2] \in Deltas
  BY <1>3
<1>5. DOMAIN taken' = Roles /\ \A r \in Roles : taken'[r] \in Seq({r} \X Deltas)
  BY <1>1, <1>2, <1>3
<1> QED
  BY <1>2, <1>3, <1>4, <1>5

\* A handler is done and acknowledges.
LEMMA FinishStep ==
    ASSUME IInv, NEW q \in Roles, NEW i \in DOMAIN taken[q], Finish(q, i)
    PROVE  IInv'
<1> DEFINE m == taken[q][i]
           e == m[2]
<1>1. /\ m = <<q, e>> /\ e \in Deltas
      /\ DOMAIN taken' = Roles /\ \A r \in Roles : taken'[r] \in Seq({r} \X Deltas)
      /\ Range(taken[q]) = Range(taken'[q]) \union {m}
      /\ IsInjective(taken[q]) => IsInjective(taken'[q]) /\ m \notin Range(taken'[q])
      /\ \A r \in Roles : r # q => taken'[r] = taken[r]
  BY Removed DEF Finish
<1>2. /\ handled' = [handled EXCEPT ![m[1]][m[2]] = @ + 1]
      /\ UNCHANGED <<log, unsent, wire, queue, arrived, used>>
  BY DEF Finish
<1>3. handled \in [Roles -> [Deltas -> Nat]]
  BY DEF IInv, Types
<1>4. handled' = [handled EXCEPT ![q][e] = @ + 1]
  <2>1. m[1] = q /\ m[2] = e
    BY <1>1
  <2> HIDE DEF m, e
  <2> QED
    BY <2>1, <1>2
<1> HIDE DEF m, e
<1>5. /\ handled' \in [Roles -> [Deltas -> Nat]] /\ handled'[q][e] = handled[q][e] + 1
      /\ \A r \in Roles, d \in Deltas : r # q \/ d # e => handled'[r][d] = handled[r][d]
  BY <1>1, <1>3, <1>4
<1>6. Types'
  BY <1>1, <1>2, <1>5 DEF IInv, Types
<1>7. KeptUntilHandled'
  <2> SUFFICES ASSUME used.drops + used.restarts = 0, NEW x \in arrived
               PROVE  \/ x[2] \in Range(queue[x[1]]) \/ x \in Range(taken'[x[1]])
                      \/ handled'[x[1]][x[2]] > 0
    BY <1>2 DEF KeptUntilHandled
  <2>1. x[1] \in Roles /\ x[2] \in Deltas /\ x = <<x[1], x[2]>>
    BY DEF IInv, Types
  <2>2. \/ x[2] \in Range(queue[x[1]]) \/ x \in Range(taken[x[1]])
        \/ handled[x[1]][x[2]] > 0
    BY DEF IInv, KeptUntilHandled
  <2>3. CASE x[1] = q /\ x[2] = e
    <3>1. handled[q][e] \in Nat
      BY <1>1, <1>3
    <3> QED
      BY <2>3, <3>1, <1>5
  <2>4. CASE ~(x[1] = q /\ x[2] = e)
    <3>1. handled'[x[1]][x[2]] = handled[x[1]][x[2]]
      BY <2>1, <2>4, <1>5
    <3>2. x # m
      BY <2>1, <2>4, <1>1
    <3>3. x \in Range(taken[x[1]]) => x \in Range(taken'[x[1]])
      BY <2>1, <3>2, <1>1
    <3> QED
      BY <2>2, <3>1, <3>3
  <2> QED
    BY <2>3, <2>4
<1>8. Places'
  <2> SUFFICES ASSUME NEW r \in Roles
               PROVE  NoDuplicates(r)' /\ \A d \in Deltas : OnePlace(r, d)'
    BY <1>2 DEF Places
  <2>0. NoDuplicates(r) /\ \A d \in Deltas : OnePlace(r, d)
    BY DEF IInv, Places
  <2>1. CASE r # q
    BY <2>0, <2>1, <1>1, <1>2, <1>5 DEF NoDuplicates, OnePlace, Fresh
  <2>2. CASE r = q
    <3>1. /\ e \in DOMAIN log \ unsent /\ Fresh(q, e) /\ e \notin Range(queue[q])
          /\ \A p \in Processes : e \notin Range(wire[p][q])
          /\ <<q, e>> \notin Range(taken'[q])
      BY <2>0, <2>2, <1>1 DEF OnePlace, Fresh, NoDuplicates
    <3>2. NoDuplicates(q)'
      BY <2>0, <2>2, <1>1, <1>2 DEF NoDuplicates
    <3>3. ASSUME NEW d \in Deltas PROVE OnePlace(q, d)'
      <4>1. CASE d = e
        <5>1. used.crashes = 0 => handled'[q][e] = 1
          BY <3>1, <1>5 DEF Fresh
        <5> QED
          BY <4>1, <5>1, <3>1, <1>2 DEF OnePlace, Fresh
      <4>2. CASE d # e
        <5>1. <<q, d>> \in Range(taken'[q]) => <<q, d>> \in Range(taken[q])
          BY <1>1
        <5>2. handled'[q][d] = handled[q][d]
          BY <4>2, <1>5
        <5> QED
          BY <2>0, <2>2, <5>1, <5>2, <1>2 DEF OnePlace, Fresh
      <4> QED
        BY <4>1, <4>2
    <3> QED
      BY <2>2, <3>2, <3>3
  <2> QED
    BY <2>1, <2>2
<1> QED
  BY <1>6, <1>7, <1>8 DEF IInv

\* A handler throws, and its message is dropped.
LEMMA ThrowStep ==
    ASSUME IInv, NEW q \in Roles, NEW i \in DOMAIN taken[q], Throw(q, i)
    PROVE  IInv'
<1>1. /\ DOMAIN taken' = Roles /\ \A r \in Roles : taken'[r] \in Seq({r} \X Deltas)
      /\ Range(taken[q]) = Range(taken'[q]) \union {taken[q][i]}
      /\ IsInjective(taken[q]) => IsInjective(taken'[q])
      /\ \A r \in Roles : r # q => taken'[r] = taken[r]
  BY Removed DEF Throw
<1>2. UNCHANGED <<log, unsent, wire, queue, arrived, handled>>
  BY DEF Throw
<1>3. /\ used' \in Counters
      /\ used'.crashes = used.crashes /\ used'.drops + used'.restarts # 0
  BY Counted DEF Throw, Fault
<1>4. Types'
  BY <1>1, <1>2, <1>3 DEF IInv, Types
<1>5. KeptUntilHandled'
  BY <1>3 DEF KeptUntilHandled
<1>6. Places'
  <2> SUFFICES ASSUME NEW r \in Roles
               PROVE  NoDuplicates(r)' /\ \A d \in Deltas : OnePlace(r, d)'
    BY <1>3 DEF Places
  <2>0. NoDuplicates(r) /\ \A d \in Deltas : OnePlace(r, d)
    BY DEF IInv, Places
  <2>1. Range(taken'[r]) \subseteq Range(taken[r]) /\ IsInjective(taken'[r])
    BY <2>0, <1>1 DEF NoDuplicates
  <2> QED
    BY <2>0, <2>1, <1>2, <1>3 DEF NoDuplicates, OnePlace, Fresh
<1> QED
  BY <1>4, <1>5, <1>6 DEF IInv

\* The queue of a process that has stopped.
LEMMA RequeuedOnce ==
    ASSUME Types, NEW q \in Roles
    PROVE  /\ Requeued(q) \in Seq(Deltas)
           /\ \A d : d \in Range(Requeued(q)) <=> d \in Range(queue[q]) \/ <<q, d>> \in Range(taken[q])
           /\ NoDuplicates(q) /\ (\A d \in Range(queue[q]) : <<q, d>> \notin Range(taken[q]))
                 => IsInjective(Requeued(q))
<1> DEFINE back == [i \in DOMAIN taken[q] |-> taken[q][i][2]]
<1>1. taken[q] \in Seq({q} \X Deltas) /\ queue[q] \in Seq(Deltas)
  BY DEF Types
<1>2. /\ Len(taken[q]) \in Nat /\ DOMAIN taken[q] = 1..Len(taken[q])
      /\ \A i \in DOMAIN taken[q] : taken[q][i] \in {q} \X Deltas
  BY <1>1, LenProperties, ElementOfSeq
<1>3. \A i \in DOMAIN taken[q] : taken[q][i] = <<q, back[i]>> /\ back[i] \in Deltas
  BY <1>2
<1>4. back \in Seq(Deltas) /\ DOMAIN back = DOMAIN taken[q]
  BY <1>2, <1>3, SeqDef
<1>5. Requeued(q) = back \o queue[q]
  BY DEF Requeued
<1> HIDE DEF back
<1>6. \A d : d \in Range(back) <=> <<q, d>> \in Range(taken[q])
  <2> TAKE d
  <2>1. ASSUME d \in Range(back) PROVE <<q, d>> \in Range(taken[q])
    BY <2>1, <1>3, <1>4 DEF Range
  <2>2. ASSUME <<q, d>> \in Range(taken[q]) PROVE d \in Range(back)
    <3>1. PICK i \in DOMAIN taken[q] : taken[q][i] = <<q, d>>
      BY <2>2 DEF Range
    <3>2. back[i] = d
      BY <3>1, <1>3
    <3> QED
      BY <3>2, <1>4 DEF Range
  <2> QED
    BY <2>1, <2>2
<1>7. ASSUME IsInjective(taken[q]) PROVE IsInjective(back)
  BY <1>7, <1>3, <1>4 DEF IsInjective
<1> QED
  <2>1. /\ Requeued(q) \in Seq(Deltas) /\ Range(Requeued(q)) = Range(back) \union Range(queue[q])
        /\ IsInjective(back) /\ IsInjective(queue[q]) /\ Range(back) \intersect Range(queue[q]) = {}
              => IsInjective(Requeued(q))
    BY <1>1, <1>4, <1>5, ConcatDistinct
  <2>2. (\A d \in Range(queue[q]) : <<q, d>> \notin Range(taken[q]))
           => Range(back) \intersect Range(queue[q]) = {}
    BY <1>6
  <2> QED
    BY <2>1, <2>2, <1>6, <1>7 DEF NoDuplicates

\* What had been delivered to a process that stops returns into the queue, and what it was to send is gone.
LEMMA CrashStep ==
    ASSUME IInv, NEW p \in Processes, Crash(p)
    PROVE  IInv'
<1>1. PICK done \in Unacknowledged(p) :
         handled' = [r \in Roles |-> [d \in Deltas |->
                        IF <<r, d>> \in done THEN handled[r][d] + 1 ELSE handled[r][d]]]
  BY DEF Crash
<1>2. /\ unsent' \subseteq unsent /\ log' = log /\ arrived' = arrived
      /\ wire' = [wire EXCEPT ![p] = [q \in Roles |-> <<>>]]
      /\ queue' = [q \in Roles |-> IF Host(q) = p THEN Requeued(q) ELSE queue[q]]
      /\ taken' = [q \in Roles |-> IF Host(q) = p THEN <<>> ELSE taken[q]]
  BY DEF Crash
<1>3. /\ used' \in Counters
      /\ used'.crashes # 0 /\ used'.drops = used.drops /\ used'.restarts = used.restarts
  BY Counted DEF Crash, Fault
<1>4. /\ handled \in [Roles -> [Deltas -> Nat]] /\ queue \in [Roles -> Seq(Deltas)]
      /\ wire \in [Processes -> [Roles -> Seq(Deltas)]]
      /\ DOMAIN taken = Roles /\ \A q \in Roles : taken[q] \in Seq({q} \X Deltas)
  BY DEF IInv, Types
<1>5. ASSUME NEW q \in Roles
      PROVE  /\ Requeued(q) \in Seq(Deltas) /\ Range(queue[q]) \subseteq Range(Requeued(q))
             /\ \A m \in Range(taken[q]) : m[2] \in Range(Requeued(q))
  <2>1. ASSUME NEW m \in Range(taken[q]) PROVE m = <<q, m[2]>>
    <3>1. taken[q] \in Seq({q} \X Deltas)
      BY <1>4
    <3>2. m \in {q} \X Deltas
      BY <3>1, RangeOfSeq
    <3> QED
      BY <3>2
  <2> QED
    BY <2>1, RequeuedOnce DEF IInv
<1>6. Types'
  <2>1. queue' \in [Roles -> Seq(Deltas)]
    BY <1>2, <1>4, <1>5
  <2>2. wire' \in [Processes -> [Roles -> Seq(Deltas)]]
    BY <1>2, <1>4, EmptySeq
  <2>3. DOMAIN taken' = Roles /\ \A q \in Roles : taken'[q] \in Seq({q} \X Deltas)
    BY <1>2, <1>4, EmptySeq
  <2>4. handled' \in [Roles -> [Deltas -> Nat]]
    BY <1>1, <1>4
  <2> QED
    BY <2>1, <2>2, <2>3, <2>4, <1>2, <1>3 DEF IInv, Types
<1>7. KeptUntilHandled'
  <2> SUFFICES ASSUME used.drops + used.restarts = 0, NEW m \in arrived
               PROVE  \/ m[2] \in Range(queue'[m[1]]) \/ m \in Range(taken'[m[1]])
                      \/ handled'[m[1]][m[2]] > 0
    BY <1>2, <1>3 DEF KeptUntilHandled
  <2>1. m[1] \in Roles /\ m[2] \in Deltas
    BY DEF IInv, Types
  <2>2. \/ m[2] \in Range(queue[m[1]]) \/ m \in Range(taken[m[1]])
        \/ handled[m[1]][m[2]] > 0
    BY DEF IInv, KeptUntilHandled
  <2>3. handled[m[1]][m[2]] > 0 => handled'[m[1]][m[2]] > 0
    BY <2>1, <1>1, <1>4
  <2>4. CASE Host(m[1]) = p
    BY <2>1, <2>2, <2>3, <2>4, <1>2, <1>5
  <2>5. CASE Host(m[1]) # p
    BY <2>1, <2>2, <2>3, <2>5, <1>2
  <2> QED
    BY <2>4, <2>5
<1>8. Places'
  <2> SUFFICES ASSUME NEW r \in Roles
               PROVE  NoDuplicates(r)' /\ \A d \in Deltas : OnePlace(r, d)'
    BY DEF Places
  <2>0. NoDuplicates(r) /\ \A d \in Deltas : OnePlace(r, d)
    BY DEF IInv, Places
  <2>1. \A o \in Processes : wire'[o][r] = IF o = p THEN <<>> ELSE wire[o][r]
    BY <1>2, <1>4
  <2>2. Range(<<>>) = {} /\ IsInjective(<<>>)
    BY DEF Range, IsInjective
  <2>3. /\ IsInjective(queue'[r]) /\ IsInjective(taken'[r])
        /\ \A d \in Range(queue'[r]) : <<r, d>> \notin Range(taken'[r])
        /\ \A d \in Deltas : d \in Range(queue'[r]) \/ <<r, d>> \in Range(taken'[r])
                                => d \in Range(queue[r]) \/ <<r, d>> \in Range(taken[r])
    <3>1. CASE Host(r) = p
      <4>1. queue'[r] = Requeued(r) /\ taken'[r] = <<>>
        BY <3>1, <1>2
      <4>2. \A d \in Range(queue[r]) : <<r, d>> \notin Range(taken[r])
        <5>1. Range(queue[r]) \subseteq Deltas
          BY <1>4, RangeOfSeq
        <5> QED
          BY <5>1, <2>0 DEF OnePlace
      <4>3. /\ \A d : d \in Range(Requeued(r)) <=> d \in Range(queue[r]) \/ <<r, d>> \in Range(taken[r])
            /\ IsInjective(Requeued(r))
        BY <4>2, <2>0, RequeuedOnce DEF IInv
      <4> QED
        BY <4>1, <4>3, <2>2
    <3>2. CASE Host(r) # p
      <4>1. queue'[r] = queue[r] /\ taken'[r] = taken[r]
        BY <3>2, <1>2
      <4>2. Range(queue[r]) \subseteq Deltas
        BY <1>4, RangeOfSeq
      <4> QED
        BY <4>1, <4>2, <2>0 DEF NoDuplicates, OnePlace
    <3> QED
      BY <3>1, <3>2
  <2>4. NoDuplicates(r)'
    BY <2>0, <2>1, <2>2, <2>3 DEF NoDuplicates
  <2>5. ASSUME NEW d \in Deltas PROVE OnePlace(r, d)'
    <3>1. OnePlace(r, d)
      BY <2>0
    <3>2. \A o \in Processes : d \in Range(wire'[o][r]) => d \in Range(wire[o][r])
      BY <2>1, <2>2
    <3> QED
      BY <3>1, <3>2, <2>3, <1>2, <1>3 DEF OnePlace, Fresh
  <2> QED
    BY <2>4, <2>5
<1> QED
  BY <1>6, <1>7, <1>8 DEF IInv

\* A restart of the broker empties the queues.
LEMMA RestartStep ==
    ASSUME IInv, BrokerRestart
    PROVE  IInv'
<1>1. /\ UNCHANGED <<log, unsent, wire, taken, arrived, handled>>
      /\ queue' = [q \in Roles |-> <<>>]
  BY DEF BrokerRestart
<1>2. /\ used' \in Counters
      /\ used'.crashes = used.crashes /\ used'.drops + used'.restarts # 0
  BY Counted DEF BrokerRestart, Fault
<1>3. Types'
  <2>1. queue' \in [Roles -> Seq(Deltas)]
    BY <1>1, EmptySeq
  <2> QED
    BY <1>1, <1>2, <2>1 DEF IInv, Types
<1>4. KeptUntilHandled'
  BY <1>2 DEF KeptUntilHandled
<1>5. Places'
  <2> SUFFICES ASSUME NEW r \in Roles
               PROVE  NoDuplicates(r)' /\ \A d \in Deltas : OnePlace(r, d)'
    BY <1>2 DEF Places
  <2>0. NoDuplicates(r) /\ \A d \in Deltas : OnePlace(r, d)
    BY DEF IInv, Places
  <2>1. Range(queue'[r]) = {} /\ IsInjective(queue'[r])
    BY <1>1 DEF Range, IsInjective
  <2> QED
    BY <2>0, <2>1, <1>1, <1>2 DEF NoDuplicates, OnePlace, Fresh
<1> QED
  BY <1>3, <1>4, <1>5 DEF IInv

\* Connections do not touch the queues.
LEMMA SocketsStep ==
    ASSUME IInv, NEW s \in Sockets, NEW in, SocketStep(s, in)
    PROVE  IInv'
<1>1. UNCHANGED <<log, unsent, wire, queue, taken, arrived, handled>>
  BY DEF SocketStep
<1>2. /\ used' \in Counters
      /\ used'.crashes = used.crashes /\ used'.drops = used.drops /\ used'.restarts = used.restarts
  BY Counted DEF SocketStep
<1>3. Types' /\ KeptUntilHandled'
  BY <1>1, <1>2 DEF IInv, Types, KeptUntilHandled
<1>4. Places'
  BY <1>1, <1>2 DEF IInv, Places, NoDuplicates, OnePlace, Fresh
<1> QED
  BY <1>3, <1>4 DEF IInv

-----------------------------------------------------------------------------
(* The theorems *)

\* Every step keeps the invariant.
LEMMA StepInv ==
    ASSUME MaxDeltas \in Nat, IInv, [FeedNext]_feedVars
    PROVE  IInv'
<1>1. CASE \E segment \in Segments, p \in Processes : RecordDelta(segment, p)
  BY <1>1, RecordStep
<1>2. CASE \E d \in unsent : Broadcast(d)
  BY <1>2, BroadcastStep
<1>3. CASE \E p \in Processes, q \in Roles : Arrive(p, q)
  BY <1>3, ArriveStep
<1>4. CASE \E q \in Roles : Deliver(q)
  BY <1>4, DeliverStep
<1>5. CASE \E q \in Roles : \E i \in DOMAIN taken[q] : Finish(q, i)
  BY <1>5, FinishStep
<1>6. CASE \E q \in Roles : \E i \in DOMAIN taken[q] : Throw(q, i)
  BY <1>6, ThrowStep
<1>7. CASE Forward
  BY <1>7, ForwardStep
<1>8. CASE \E s \in Sockets : \/ Connect(s) \/ Disconnect(s)
                              \/ \E segment \in Segments : Subscribe(s, segment) \/ Unsubscribe(s, segment)
  BY <1>8, SocketsStep DEF Connect, Disconnect, Subscribe, Unsubscribe
<1>9. CASE \E p \in Processes : Crash(p)
  BY <1>9, CrashStep
<1>10. CASE BrokerRestart
  BY <1>10, RestartStep
<1>11. CASE UNCHANGED feedVars
  BY <1>11 DEF feedVars, IInv, Types, KeptUntilHandled, Places, NoDuplicates, OnePlace, Fresh
<1> QED
  BY <1>1, <1>2, <1>3, <1>4, <1>5, <1>6, <1>7, <1>8, <1>9, <1>10, <1>11 DEF FeedNext

\* The invariant holds throughout.
LEMMA Invariance == FeedSpec => []IInv
<1>1. FeedInit => IInv
  BY InitInv, FeedAssumption
<1>2. IInv /\ [FeedNext]_feedVars => IInv'
  BY StepInv, FeedAssumption
<1> QED
  BY <1>1, <1>2, PTL DEF FeedSpec

\* Only messages of known deltas are on the wires, in the queues and in the handlers, and
\* each is delivered to the handler of its own queue (broadcast, @EventPattern).
THEOREM TypeCorrect == FeedSpec => []Types
<1>1. IInv => Types
  BY DEF IInv
<1> QED
  BY <1>1, Invariance, PTL

\* A message that has reached its queue is kept until its handler is done with it, however
\* often api and worker crash, unless a handler throws or the broker restarts (noAck: false).
THEOREM ArrivedIsKept == FeedSpec => []KeptUntilHandled
<1>1. IInv => KeptUntilHandled
  BY DEF IInv
<1> QED
  BY <1>1, Invariance, PTL

\* Without a crash no subscriber handles a delta twice: each has a queue and a pattern of
\* its own (patterns.ts, broadcast).
THEOREM NoDoubleHandling == FeedSpec => []HandledOnce
<1>1. ASSUME IInv PROVE HandledOnce
  <2> SUFFICES ASSUME used.crashes = 0, NEW r \in Roles, NEW d \in Deltas
               PROVE  handled[r][d] <= 1
    BY DEF HandledOnce
  <2>1. handled[r][d] \in Nat /\ OnePlace(r, d)
    BY <1>1 DEF IInv, Types, Places
  <2> QED
    BY <2>1 DEF OnePlace, Fresh
<1> QED
  BY <1>1, Invariance, PTL

-----------------------------------------------------------------------------
(* Sequences ordered by a relation *)

Sorted(R, s) == \A i, j \in DOMAIN s : i < j => <<s[i], s[j]>> \in R

\* The empty sequence is in order.
LEMMA SortedEmpty == \A R : Sorted(R, <<>>) /\ Range(<<>>) = {}
  BY DEF Sorted, Range

\* Two sequences in order are in order together if all of the first comes before all of the second.
LEMMA SortedConcat ==
    ASSUME NEW S, NEW s \in Seq(S), NEW t \in Seq(S), NEW R,
           Sorted(R, s), Sorted(R, t), Range(s) \X Range(t) \subseteq R
    PROVE  Sorted(R, s \o t)
<1> DEFINE u == s \o t
           m == Len(s)
<1>1. /\ m \in Nat /\ Len(t) \in Nat
      /\ DOMAIN u = 1..(m + Len(t)) /\ DOMAIN s = 1..m /\ DOMAIN t = 1..Len(t)
      /\ \A i \in 1..(m + Len(t)) : u[i] = IF i <= m THEN s[i] ELSE t[i - m]
  <2>1. u \in Seq(S) /\ Len(u) = m + Len(t)
        /\ \A i \in 1..(m + Len(t)) : u[i] = IF i <= m THEN s[i] ELSE t[i - m]
    BY ConcatProperties
  <2> HIDE DEF u
  <2> QED
    BY <2>1, LenProperties
<1> HIDE DEF u, m
<1>2. \A k \in DOMAIN u : IF k <= m THEN k \in DOMAIN s /\ u[k] = s[k]
                                    ELSE k - m \in DOMAIN t /\ u[k] = t[k - m]
  BY <1>1
<1>3. ASSUME NEW i \in DOMAIN u, NEW j \in DOMAIN u, i < j PROVE <<u[i], u[j]>> \in R
  <2>0. i \in Int /\ j \in Int /\ m \in Int
    BY <1>1
  <2>1. CASE j <= m
    <3>1. i <= m
      BY <2>0, <2>1, <1>3
    <3> QED
      BY <3>1, <2>1, <1>2, <1>3 DEF Sorted
  <2>2. CASE ~(i <= m)
    <3>1. ~(j <= m) /\ i - m < j - m
      BY <2>0, <2>2, <1>3
    <3> QED
      BY <3>1, <2>2, <1>2 DEF Sorted
  <2>3. CASE i <= m /\ ~(j <= m)
    <3>1. u[i] \in Range(s) /\ u[j] \in Range(t)
      BY <2>3, <1>2 DEF Range
    <3> QED
      BY <3>1
  <2> QED
    BY <2>1, <2>2, <2>3
<1> QED
  BY <1>3 DEF Sorted, u

\* A message that comes after all others is in order behind them.
LEMMA SortedAppend ==
    ASSUME NEW S, NEW s \in Seq(S), NEW e \in S, NEW R,
           Sorted(R, s), \A x \in Range(s) : <<x, e>> \in R
    PROVE  Sorted(R, Append(s, e))
<1>1. /\ Append(s, e) \in Seq(S) /\ Len(Append(s, e)) = Len(s) + 1
      /\ \A i \in 1..Len(s) : Append(s, e)[i] = s[i]
      /\ Append(s, e)[Len(s) + 1] = e /\ Len(s) \in Nat
      /\ DOMAIN s = 1..Len(s) /\ DOMAIN Append(s, e) = 1..(Len(s) + 1)
  BY AppendProperties, LenProperties
<1>2. ASSUME NEW i \in 1..(Len(s) + 1), NEW j \in 1..(Len(s) + 1), i < j
      PROVE  <<Append(s, e)[i], Append(s, e)[j]>> \in R
  <2>1. i \in 1..Len(s) /\ Append(s, e)[i] = s[i] /\ s[i] \in Range(s)
    BY <1>1, <1>2 DEF Range
  <2>2. CASE j = Len(s) + 1
    BY <2>1, <2>2, <1>1
  <2>3. CASE j # Len(s) + 1
    <3>1. j \in 1..Len(s) /\ Append(s, e)[j] = s[j]
      BY <2>3, <1>1
    <3> QED
      BY <2>1, <3>1, <1>1, <1>2 DEF Sorted
  <2> QED
    BY <2>2, <2>3
<1> QED
  BY <1>1, <1>2 DEF Sorted

\* A sequence in order stays so without its first message, which comes before the rest.
LEMMA SortedTail ==
    ASSUME NEW S, NEW s \in Seq(S), s # <<>>, NEW R, Sorted(R, s)
    PROVE  Sorted(R, Tail(s)) /\ \A x \in Range(Tail(s)) : <<Head(s), x>> \in R
<1> DEFINE t == Tail(s)
<1>1. /\ t \in Seq(S) /\ Len(t) = Len(s) - 1
      /\ \A i \in 1..Len(t) : t[i] = s[i + 1]
      /\ Len(s) \in Nat \ {0} /\ DOMAIN s = 1..Len(s) /\ DOMAIN t = 1..Len(t)
      /\ Head(s) = s[1]
  BY HeadTailProperties, LenProperties, EmptySeq
<1> HIDE DEF t
<1>2. \A i \in 1..Len(t) : i + 1 \in DOMAIN s /\ t[i] = s[i + 1] /\ 1 \in DOMAIN s /\ 1 < i + 1
  BY <1>1
<1>3. \A x \in Range(t) : <<Head(s), x>> \in R
  BY <1>1, <1>2 DEF Range, Sorted
<1>4. ASSUME NEW i \in DOMAIN t, NEW j \in DOMAIN t, i < j PROVE <<t[i], t[j]>> \in R
  <2>1. i + 1 < j + 1
    BY <1>1, <1>4
  <2> QED
    BY <2>1, <1>1, <1>2 DEF Sorted
<1> QED
  BY <1>3, <1>4 DEF Sorted, t

\* A sequence in order stays so without one of its messages.
LEMMA SortedRemove ==
    ASSUME NEW S, NEW s \in Seq(S), NEW k \in DOMAIN s, NEW R, Sorted(R, s)
    PROVE  Sorted(R, RemoveAt(s, k))
<1> DEFINE a == SubSeq(s, 1, k - 1)
           b == SubSeq(s, k + 1, Len(s))
           n == Len(s)
<1>0. n \in Nat /\ DOMAIN s = 1..n /\ k \in 1..n /\ \A i \in 1..n : s[i] \in S
  BY LenProperties, ElementOfSeq
<1>1. /\ a \in Seq(S) /\ DOMAIN a = 1..(k - 1) /\ \A i \in 1..(k - 1) : a[i] = s[i]
  <2>1. \A i \in 1..(k - 1) : s[i] \in S
    BY <1>0
  <2>2. /\ a \in Seq(S) /\ Len(a) = (IF 1 <= k - 1 THEN k - 1 - 1 + 1 ELSE 0)
        /\ \A i \in 1..(k - 1 - 1 + 1) : a[i] = s[1 + i - 1]
    BY <1>0, <2>1, SubSeqProperties
  <2>3. Len(a) = k - 1
    BY <2>2, <1>0
  <2> HIDE DEF a
  <2> QED
    BY <2>2, <2>3, <1>0, LenProperties
<1>2. /\ b \in Seq(S) /\ DOMAIN b = 1..(n - k) /\ \A i \in 1..(n - k) : b[i] = s[k + i]
  <2>1. \A i \in (k + 1)..n : s[i] \in S
    BY <1>0
  <2>2. /\ b \in Seq(S) /\ Len(b) = (IF k + 1 <= n THEN n - (k + 1) + 1 ELSE 0)
        /\ \A i \in 1..(n - (k + 1) + 1) : b[i] = s[k + 1 + i - 1]
    BY <1>0, <2>1, SubSeqProperties
  <2> HIDE DEF b, n
  <2>3. Len(b) = n - k
    BY <2>2, <1>0
  <2>4. DOMAIN b = 1..(n - k)
    BY <2>2, <2>3, LenProperties
  <2>5. \A i \in 1..(n - k) : i \in 1..(n - (k + 1) + 1) /\ k + 1 + i - 1 = k + i
    BY <1>0
  <2> QED
    BY <2>2, <2>4, <2>5
<1> HIDE DEF a, b, n
<1>3. Sorted(R, a)
  BY <1>0, <1>1 DEF Sorted
<1>4. Sorted(R, b)
  <2>1. \A i, j \in 1..(n - k) : i < j => k + i \in 1..n /\ k + j \in 1..n /\ k + i < k + j
    BY <1>0
  <2> QED
    BY <2>1, <1>0, <1>2 DEF Sorted
<1>5. Range(a) \X Range(b) \subseteq R
  <2> SUFFICES ASSUME NEW i \in 1..(k - 1), NEW j \in 1..(n - k) PROVE <<s[i], s[k + j]>> \in R
    BY <1>1, <1>2 DEF Range
  <2>1. i \in 1..n /\ k + j \in 1..n /\ i < k + j
    BY <1>0
  <2> QED
    BY <2>1, <1>0 DEF Sorted
<1>6. RemoveAt(s, k) = a \o b
  BY DEF RemoveAt, a, b, n
<1> QED
  BY <1>1, <1>2, <1>3, <1>4, <1>5, <1>6, SortedConcat

\* The first message is what Forward takes.
LEMMA RemoveFirstIsTail ==
    ASSUME NEW S, NEW s \in Seq(S), 1 \in DOMAIN s
    PROVE  s # <<>> /\ RemoveAt(s, 1) = Tail(s) /\ s[1] = Head(s)
<1>1. s # <<>> /\ DOMAIN s = 1..Len(s) /\ Len(s) \in Nat
  BY LenProperties
<1>2. Tail(s) = SubSeq(s, 2, Len(s)) /\ Tail(s) \in Seq(S)
  BY <1>1, TailIsSubSeq, HeadTailProperties
<1>3. SubSeq(s, 1, 1 - 1) = <<>>
  BY SubSeqEmpty
<1>4. <<>> \o Tail(s) = Tail(s)
  BY <1>2, ConcatEmptySeq
<1>5. RemoveAt(s, 1) = Tail(s)
  BY <1>2, <1>3, <1>4 DEF RemoveAt
<1> QED
  BY <1>1, <1>5

-----------------------------------------------------------------------------
(* The invariants *)

\* What is still on its way to the gateway.
OnWires == UNION {Range(wire[p]["ws"]) : p \in Processes}
InTaken == {m[2] : m \in Range(taken["ws"])}

\* Connections and the deltas they have received, which have all been broadcast.
SocketTypes ==
    /\ rooms \in [Sockets -> SUBSET ({"all"} \union Segments)]
    /\ DOMAIN joined = Sockets
    /\ inbox \in [Sockets -> Seq(Deltas)]
    /\ \A s \in Sockets : Range(inbox[s]) \subseteq DOMAIN log \ unsent

\* A live connection has no delta that is still to come.
NothingTwice ==
    \A s \in Sockets : Connected(s) =>
        /\ rooms[s] \ {"all"} \subseteq joined[s]
        /\ \A d \in Range(inbox[s]) : d \notin Range(queue["ws"]) /\ d \notin OnWires

\* A delta is received twice only through a room of its segment.
TwiceByRoom ==
    \A s \in Sockets : \A i, j \in DOMAIN inbox[s] :
        inbox[s][i] = inbox[s][j] /\ log[inbox[s][i]].segment \notin joined[s] => i = j

\* e is not broadcast before d by p.
InOrder(p) ==
    {x \in Deltas \X Deltas :
        \A k, l \in DOMAIN sent[p] : x[1] = sent[p][k] /\ x[2] = sent[p][l] => k <= l}
DeliveredInOrder(p) ==
    {x \in ({"ws"} \X Deltas) \X ({"ws"} \X Deltas) : <<x[1][2], x[2][2]>> \in InOrder(p)}

\* What a process has broadcast is in the order of the broadcasts everywhere, and what is
\* further on its way was broadcast earlier.
Ordered(p) ==
    /\ sent[p] \in Seq(Deltas) /\ IsInjective(sent[p])
    /\ \A d \in Range(sent[p]) : d \in DOMAIN log \ unsent /\ log[d].by = p
    /\ Range(wire[p]["ws"]) \subseteq Range(sent[p])
    /\ Sorted(InOrder(p), wire[p]["ws"])
    /\ Sorted(InOrder(p), queue["ws"])
    /\ Sorted(DeliveredInOrder(p), taken["ws"])
    /\ Range(queue["ws"]) \X Range(wire[p]["ws"]) \subseteq InOrder(p)
    /\ InTaken \X Range(wire[p]["ws"]) \subseteq InOrder(p)
    /\ InTaken \X Range(queue["ws"]) \subseteq InOrder(p)

Received(p, s) ==
    /\ Sorted(InOrder(p), inbox[s])
    /\ Connected(s) => /\ Range(inbox[s]) \X Range(wire[p]["ws"]) \subseteq InOrder(p)
                       /\ Range(inbox[s]) \X Range(queue["ws"]) \subseteq InOrder(p)

BrowserInv ==
    /\ SocketTypes /\ NothingTwice /\ TwiceByRoom
    /\ DOMAIN sent = Processes
    /\ \A p \in Processes : Ordered(p) /\ \A s \in Sockets : Received(p, s)

-----------------------------------------------------------------------------
(* The steps *)

\* The messages for the gateway.
LEMMA WsTypes ==
    ASSUME IInv
    PROVE  /\ "ws" \in Roles /\ Host("ws") = "api"
           /\ queue["ws"] \in Seq(Deltas) /\ Range(queue["ws"]) \subseteq Deltas
           /\ taken["ws"] \in Seq({"ws"} \X Deltas) /\ Range(taken["ws"]) \subseteq {"ws"} \X Deltas
           /\ InTaken \subseteq Deltas
           /\ \A p \in Processes : wire[p]["ws"] \in Seq(Deltas) /\ Range(wire[p]["ws"]) \subseteq Deltas
<1>1. "ws" \in Roles /\ Host("ws") = "api"
  BY DEF Roles, Host
<1>2. queue["ws"] \in Seq(Deltas) /\ taken["ws"] \in Seq({"ws"} \X Deltas)
  BY <1>1 DEF IInv, Types
<1>3. \A p \in Processes : wire[p]["ws"] \in Seq(Deltas)
  BY <1>1 DEF IInv, Types
<1>4. Range(taken["ws"]) \subseteq {"ws"} \X Deltas
  BY <1>2, RangeOfSeq
<1>5. InTaken \subseteq Deltas
  BY <1>4 DEF InTaken
<1> QED
  BY <1>1, <1>2, <1>3, <1>4, <1>5, RangeOfSeq

\* Deltas of which p has not broadcast both are in any order, and a delta is in order
\* with itself.
LEMMA OthersInOrder ==
    ASSUME NEW p \in Processes, NEW d \in Deltas, NEW e \in Deltas,
           d \notin Range(sent[p]) \/ e \notin Range(sent[p])
    PROVE  <<d, e>> \in InOrder(p)
  BY DEF InOrder, Range

\* A delta that is delivered again is in order with itself.
LEMMA SameInOrder ==
    ASSUME BrowserInv, NEW p \in Processes, NEW d \in Deltas
    PROVE  <<d, d>> \in InOrder(p)
<1>1. sent[p] \in Seq(Deltas) /\ IsInjective(sent[p])
  BY DEF BrowserInv, Ordered
<1>2. DOMAIN sent[p] \subseteq Nat
  BY <1>1, LenProperties
<1> QED
  BY <1>1, <1>2 DEF InOrder, IsInjective

\* No socket has received anything at first.
LEMMA BrowserInit ==
    ASSUME MaxDeltas \in Nat, FeedInit
    PROVE  BrowserInv
<1>0. "ws" \in Roles
  BY DEF Roles
<1>1. /\ queue["ws"] = <<>> /\ taken["ws"] = <<>> /\ log = <<>> /\ unsent = {} /\ DOMAIN sent = Processes
      /\ \A p \in Processes : sent[p] = <<>> /\ wire[p]["ws"] = <<>>
      /\ \A s \in Sockets : inbox[s] = <<>> /\ joined[s] = rooms[s] \ {"all"}
  BY <1>0 DEF FeedInit
<1>2. \A S : <<>> \in Seq(S) /\ Range(<<>>) = {} /\ DOMAIN <<>> = {} /\ IsInjective(<<>>)
  BY EmptySeq DEF Range, IsInjective
<1>3. OnWires = {} /\ InTaken = {}
  BY <1>1, <1>2 DEF OnWires, InTaken
<1>4. SocketTypes
  <2>1. rooms \in [Sockets -> SUBSET ({"all"} \union Segments)]
    BY DEF FeedInit
  <2>2. inbox \in [Sockets -> Seq(Deltas)] /\ DOMAIN joined = Sockets
    BY <1>2 DEF FeedInit
  <2> QED
    BY <2>1, <2>2, <1>1, <1>2 DEF SocketTypes
<1>5. NothingTwice /\ TwiceByRoom
  BY <1>1, <1>2 DEF NothingTwice, TwiceByRoom
<1>6. \A p \in Processes : Ordered(p) /\ \A s \in Sockets : Received(p, s)
  BY <1>1, <1>2, <1>3, SortedEmpty DEF Ordered, Received
<1> QED
  BY <1>1, <1>4, <1>5, <1>6 DEF BrowserInv

\* A delta that is recorded is on no wire.
LEMMA RecordOrder ==
    ASSUME MaxDeltas \in Nat, IInv, BrowserInv,
           NEW segment \in Segments, NEW p \in Processes, RecordDelta(segment, p)
    PROVE  BrowserInv'
<1> DEFINE new == [segment |-> segment, by |-> p]
<1>1. log \in Seq(Delta) /\ new \in Delta /\ log' = Append(log, new)
  BY DEF IInv, Types, RecordDelta, Delta
<1>2. /\ Len(log) \in Nat /\ \A d \in 1..Len(log) : log'[d] = log[d]
      /\ DOMAIN log = 1..Len(log) /\ DOMAIN log' = 1..(Len(log) + 1)
  BY <1>1, AppendProperties, LenProperties
<1>3. /\ unsent' = unsent \union {Len(log) + 1}
      /\ sent' = sent /\ wire' = wire /\ queue' = queue /\ taken' = taken
      /\ rooms' = rooms /\ joined' = joined /\ inbox' = inbox
  BY DEF RecordDelta
<1>4. \A d \in DOMAIN log \ unsent : d \in DOMAIN log' \ unsent' /\ log'[d] = log[d]
  BY <1>2, <1>3
<1>5. OnWires' = OnWires /\ InTaken' = InTaken
  BY <1>3 DEF OnWires, InTaken
<1>6. \A o \in Processes : InOrder(o)' = InOrder(o) /\ DeliveredInOrder(o)' = DeliveredInOrder(o)
  BY <1>3 DEF InOrder, DeliveredInOrder
<1>7. SocketTypes'
  BY <1>3, <1>4 DEF BrowserInv, SocketTypes
<1>8. NothingTwice'
  BY <1>3, <1>5 DEF BrowserInv, NothingTwice, Connected
<1>9. TwiceByRoom'
  <2> SUFFICES ASSUME NEW s \in Sockets, NEW i \in DOMAIN inbox[s], NEW j \in DOMAIN inbox[s],
                      inbox[s][i] = inbox[s][j], log'[inbox[s][i]].segment \notin joined[s]
               PROVE  i = j
    BY <1>3 DEF TwiceByRoom
  <2>1. inbox[s][i] \in DOMAIN log \ unsent
    BY DEF BrowserInv, SocketTypes, Range
  <2> QED
    BY <2>1, <1>4 DEF BrowserInv, TwiceByRoom
<1>10. ASSUME NEW o \in Processes PROVE Ordered(o)' /\ \A s \in Sockets : Received(o, s)'
  <2>1. Ordered(o) /\ \A s \in Sockets : Received(o, s)
    BY DEF BrowserInv
  <2>2. Ordered(o)'
    BY <2>1, <1>3, <1>4, <1>5, <1>6 DEF Ordered
  <2>3. \A s \in Sockets : Received(o, s)'
    BY <2>1, <1>3, <1>6 DEF Received, Connected
  <2> QED
    BY <2>2, <2>3
<1> QED
  BY <1>3, <1>7, <1>8, <1>9, <1>10 DEF BrowserInv

\* The delta broadcast last comes after everything on its way.
LEMMA BroadcastOrder ==
    ASSUME MaxDeltas \in Nat, IInv, BrowserInv, NEW e \in unsent, Broadcast(e)
    PROVE  BrowserInv'
<1>0. e \in DOMAIN log /\ e \in Deltas /\ log[e].by \in Processes
  <2>1. log \in Seq(Delta) /\ Len(log) <= MaxDeltas /\ e \in DOMAIN log
    BY DEF IInv, Types
  <2>2. Len(log) \in Nat /\ e \in 1..Len(log) /\ log[e] \in Delta
    BY <2>1, LenProperties, ElementOfSeq
  <2> QED
    BY <2>1, <2>2 DEF Delta, Deltas
<1>1. PICK o \in Processes : o = log[e].by /\ e \in DOMAIN log /\ e \in Deltas
  BY <1>0
<1>2. /\ unsent' = unsent \ {e} /\ log' = log /\ queue' = queue /\ taken' = taken
      /\ rooms' = rooms /\ joined' = joined /\ inbox' = inbox
      /\ sent' = [sent EXCEPT ![o] = Append(@, e)]
      /\ wire' = [wire EXCEPT ![o] = [q \in Roles |-> Append(@[q], e)]]
  BY <1>1 DEF Broadcast
<1>3. /\ DOMAIN sent = Processes /\ DOMAIN wire = Processes /\ "ws" \in Roles
      /\ \A p \in Processes : sent[p] \in Seq(Deltas) /\ wire[p]["ws"] \in Seq(Deltas)
  BY WsTypes DEF BrowserInv, Ordered, IInv, Types
<1>4. /\ sent'[o] = Append(sent[o], e) /\ wire'[o]["ws"] = Append(wire[o]["ws"], e)
      /\ \A p \in Processes : p # o => sent'[p] = sent[p] /\ wire'[p] = wire[p]
      /\ DOMAIN sent' = Processes
  BY <1>1, <1>2, <1>3
<1>5. /\ e \notin Range(queue["ws"]) /\ e \notin InTaken
      /\ \A p \in Processes : e \notin Range(wire[p]["ws"]) /\ e \notin Range(sent[p])
      /\ \A s \in Sockets : e \notin Range(inbox[s])
  <2>1. OnePlace("ws", e)
    BY <1>1, <1>3 DEF IInv, Places
  <2>2. e \notin InTaken
    <3>1. SUFFICES ASSUME NEW m \in Range(taken["ws"]), m[2] = e PROVE FALSE
      BY DEF InTaken
    <3>2. m = <<"ws", m[2]>>
      BY WsTypes
    <3> QED
      BY <3>1, <3>2, <2>1 DEF OnePlace
  <2> QED
    BY <2>1, <2>2 DEF OnePlace, BrowserInv, Ordered, SocketTypes
<1>6. /\ Append(sent[o], e) \in Seq(Deltas) /\ Range(Append(sent[o], e)) = Range(sent[o]) \union {e}
      /\ IsInjective(Append(sent[o], e))
      /\ Append(wire[o]["ws"], e) \in Seq(Deltas)
      /\ Range(Append(wire[o]["ws"], e)) = Range(wire[o]["ws"]) \union {e}
  <2>1. IsInjective(sent[o])
    BY <1>1 DEF BrowserInv, Ordered
  <2> QED
    BY <2>1, <1>1, <1>3, <1>5, AppendDistinct
<1>7. /\ \A d \in Deltas : <<d, e>> \in InOrder(o)'
      /\ \A d, f \in Deltas : f # e /\ d # e /\ <<d, f>> \in InOrder(o) => <<d, f>> \in InOrder(o)'
  <2>1. /\ Len(sent[o]) \in Nat /\ DOMAIN sent[o] = 1..Len(sent[o])
        /\ DOMAIN sent'[o] = 1..(Len(sent[o]) + 1)
        /\ \A k \in 1..Len(sent[o]) : sent'[o][k] = sent[o][k]
        /\ sent'[o][Len(sent[o]) + 1] = e
    BY <1>1, <1>3, <1>4, <1>6, AppendProperties, LenProperties
  <2>2. \A l \in DOMAIN sent'[o] : sent'[o][l] = e => l = Len(sent[o]) + 1
    BY <2>1, <1>5, <1>1 DEF Range
  <2>3. \A l \in DOMAIN sent'[o] : sent'[o][l] # e => l \in DOMAIN sent[o] /\ sent'[o][l] = sent[o][l]
    BY <2>1
  <2>4. ASSUME NEW d \in Deltas PROVE <<d, e>> \in InOrder(o)'
    BY <2>1, <2>2, <1>1 DEF InOrder
  <2>5. ASSUME NEW d \in Deltas, NEW f \in Deltas, f # e, d # e, <<d, f>> \in InOrder(o)
        PROVE  <<d, f>> \in InOrder(o)'
    BY <2>3, <2>5 DEF InOrder
  <2> QED
    BY <2>4, <2>5
<1>8. OnWires' = OnWires \union {e} /\ InTaken' = InTaken
  <2>1. \A p \in Processes : Range(wire'[p]["ws"]) = Range(wire[p]["ws"]) \union (IF p = o THEN {e} ELSE {})
    BY <1>4, <1>6
  <2>2. ASSUME NEW x \in OnWires' PROVE x \in OnWires \union {e}
    <3>1. PICK p \in Processes : x \in Range(wire'[p]["ws"])
      BY <2>2 DEF OnWires
    <3> QED
      BY <3>1, <2>1 DEF OnWires
  <2>3. ASSUME NEW x \in OnWires PROVE x \in OnWires'
    <3>1. PICK p \in Processes : x \in Range(wire[p]["ws"])
      BY <2>3 DEF OnWires
    <3> QED
      BY <3>1, <2>1 DEF OnWires
  <2>4. e \in OnWires'
    BY <2>1 DEF OnWires
  <2>5. InTaken' = InTaken
    BY <1>2 DEF InTaken
  <2> QED
    BY <2>2, <2>3, <2>4, <2>5
<1>9. SocketTypes' /\ TwiceByRoom'
  BY <1>2, <1>5 DEF BrowserInv, SocketTypes, TwiceByRoom
<1>10. NothingTwice'
  BY <1>2, <1>5, <1>8 DEF BrowserInv, NothingTwice, Connected
<1>11. ASSUME NEW p \in Processes, p # o PROVE Ordered(p)' /\ \A s \in Sockets : Received(p, s)'
  <2>0. Ordered(p) /\ \A s \in Sockets : Received(p, s)
    BY DEF BrowserInv
  <2>1. InOrder(p)' = InOrder(p) /\ DeliveredInOrder(p)' = DeliveredInOrder(p)
    BY <1>4, <1>11 DEF InOrder, DeliveredInOrder
  <2>2. sent'[p] = sent[p] /\ wire'[p] = wire[p]
    BY <1>4, <1>11
  <2>3. Ordered(p)'
    BY <2>0, <2>1, <2>2, <1>2, <1>5, <1>8 DEF Ordered
  <2>4. \A s \in Sockets : Received(p, s)'
    BY <2>0, <2>1, <2>2, <1>2 DEF Received, Connected
  <2> QED
    BY <2>3, <2>4
<1>12. Ordered(o)' /\ \A s \in Sockets : Received(o, s)'
  <2>0. Ordered(o) /\ \A s \in Sockets : Received(o, s)
    BY <1>1 DEF BrowserInv
  <2>1. \A D, E \in SUBSET Deltas : e \notin D /\ e \notin E /\ D \X E \subseteq InOrder(o)
                                     => D \X (E \union {e}) \subseteq InOrder(o)' /\ D \X E \subseteq InOrder(o)'
    BY <1>7
  <2>2. ASSUME NEW s \in Seq(Deltas), e \notin Range(s), Sorted(InOrder(o), s)
        PROVE  Sorted(InOrder(o)', s)
    <3>1. \A i \in DOMAIN s : s[i] \in Deltas /\ s[i] # e
      BY <2>2, LenProperties, ElementOfSeq DEF Range
    <3> QED
      BY <3>1, <2>2, <1>7 DEF Sorted
  <2>3. Sorted(InOrder(o)', wire'[o]["ws"])
    <3>1. Sorted(InOrder(o)', wire[o]["ws"])
      BY <2>0, <2>2, <1>1, <1>3, <1>5 DEF Ordered
    <3>2. \A x \in Range(wire[o]["ws"]) : <<x, e>> \in InOrder(o)'
      BY <1>1, <1>7, WsTypes
    <3> QED
      BY <3>1, <3>2, <1>1, <1>3, <1>4, SortedAppend
  <2>4. Sorted(InOrder(o)', queue["ws"])
    BY <2>0, <2>2, <1>5, WsTypes DEF Ordered
  <2>5. Sorted(DeliveredInOrder(o)', taken["ws"])
    <3> SUFFICES ASSUME NEW i \in DOMAIN taken["ws"], NEW j \in DOMAIN taken["ws"], i < j
                 PROVE  <<taken["ws"][i], taken["ws"][j]>> \in DeliveredInOrder(o)'
      BY DEF Sorted
    <3>1. /\ taken["ws"][i] \in {"ws"} \X Deltas /\ taken["ws"][j] \in {"ws"} \X Deltas
          /\ taken["ws"][i][2] \in InTaken /\ taken["ws"][j][2] \in InTaken
      BY WsTypes DEF Range, InTaken
    <3>2. <<taken["ws"][i], taken["ws"][j]>> \in DeliveredInOrder(o)
      BY <2>0 DEF Ordered, Sorted
    <3>3. <<taken["ws"][i][2], taken["ws"][j][2]>> \in InOrder(o)
      BY <3>2 DEF DeliveredInOrder
    <3>4. <<taken["ws"][i][2], taken["ws"][j][2]>> \in InOrder(o)'
      BY <3>1, <3>3, <1>5, <1>7, WsTypes
    <3> QED
      BY <3>1, <3>4 DEF DeliveredInOrder
  <2>6. /\ Range(queue["ws"]) \X Range(wire'[o]["ws"]) \subseteq InOrder(o)'
        /\ InTaken \X Range(wire'[o]["ws"]) \subseteq InOrder(o)'
        /\ InTaken \X Range(queue["ws"]) \subseteq InOrder(o)'
    <3>1. /\ Range(queue["ws"]) \in SUBSET Deltas /\ InTaken \in SUBSET Deltas
          /\ Range(wire[o]["ws"]) \in SUBSET Deltas
          /\ Range(wire'[o]["ws"]) = Range(wire[o]["ws"]) \union {e}
      BY <1>4, <1>6, WsTypes
    <3>2. /\ Range(queue["ws"]) \X Range(wire[o]["ws"]) \subseteq InOrder(o)
          /\ InTaken \X Range(wire[o]["ws"]) \subseteq InOrder(o)
          /\ InTaken \X Range(queue["ws"]) \subseteq InOrder(o)
      BY <2>0 DEF Ordered
    <3>3. e \notin Range(queue["ws"]) /\ e \notin InTaken /\ e \notin Range(wire[o]["ws"])
      BY <1>5
    <3>4. Range(queue["ws"]) \X Range(wire'[o]["ws"]) \subseteq InOrder(o)'
      BY <3>1, <3>2, <3>3, <2>1
    <3>5. InTaken \X Range(wire'[o]["ws"]) \subseteq InOrder(o)'
      BY <3>1, <3>2, <3>3, <2>1
    <3>6. InTaken \X Range(queue["ws"]) \subseteq InOrder(o)'
      BY <3>1, <3>2, <3>3, <2>1
    <3> QED
      BY <3>4, <3>5, <3>6
  <2>7. Ordered(o)'
    <3>1. \A d \in Range(sent'[o]) : d \in DOMAIN log' \ unsent' /\ log'[d].by = o
      BY <2>0, <1>1, <1>2, <1>4, <1>6 DEF Ordered
    <3>2. /\ sent'[o] \in Seq(Deltas) /\ IsInjective(sent'[o])
          /\ Range(wire'[o]["ws"]) \subseteq Range(sent'[o])
      BY <2>0, <1>4, <1>6 DEF Ordered
    <3> QED
      BY <3>1, <3>2, <2>3, <2>4, <2>5, <2>6, <1>2, <1>8 DEF Ordered
  <2>8. ASSUME NEW s \in Sockets PROVE Received(o, s)'
    <3>1. inbox[s] \in Seq(Deltas) /\ Range(inbox[s]) \subseteq Deltas /\ e \notin Range(inbox[s])
      BY <1>5, RangeOfSeq DEF BrowserInv, SocketTypes
    <3>2. Sorted(InOrder(o)', inbox[s])
      BY <3>1, <2>0, <2>2 DEF Received
    <3>3. ASSUME Connected(s)
          PROVE  /\ Range(inbox[s]) \X Range(wire'[o]["ws"]) \subseteq InOrder(o)'
                 /\ Range(inbox[s]) \X Range(queue["ws"]) \subseteq InOrder(o)'
      <4>1. /\ Range(inbox[s]) \in SUBSET Deltas /\ Range(queue["ws"]) \in SUBSET Deltas
            /\ Range(wire[o]["ws"]) \in SUBSET Deltas
            /\ Range(wire'[o]["ws"]) = Range(wire[o]["ws"]) \union {e}
        BY <3>1, <1>4, <1>6, WsTypes
      <4>2. /\ Range(inbox[s]) \X Range(wire[o]["ws"]) \subseteq InOrder(o)
            /\ Range(inbox[s]) \X Range(queue["ws"]) \subseteq InOrder(o)
        BY <3>3, <2>0 DEF Received
      <4>3. e \notin Range(inbox[s]) /\ e \notin Range(queue["ws"]) /\ e \notin Range(wire[o]["ws"])
        BY <1>5
      <4>4. Range(inbox[s]) \X Range(wire'[o]["ws"]) \subseteq InOrder(o)'
        BY <4>1, <4>2, <4>3, <2>1
      <4>5. Range(inbox[s]) \X Range(queue["ws"]) \subseteq InOrder(o)'
        BY <4>1, <4>2, <4>3, <2>1
      <4> QED
        BY <4>4, <4>5
    <3> QED
      BY <3>2, <3>3, <1>2 DEF Received, Connected
  <2> QED
    BY <2>7, <2>8
<1>13. \A p \in Processes : Ordered(p)' /\ \A s \in Sockets : Received(p, s)'
  BY <1>11, <1>12
<1> QED
  BY <1>4, <1>9, <1>10, <1>13 DEF BrowserInv

\* A step that brings the gateway nothing: messages are lost, acknowledged, or put back
\* while no connection is left.
LEMMA Loses ==
    ASSUME IInv, BrowserInv,
           UNCHANGED <<log, sent, joined, inbox>>, unsent' \subseteq unsent,
           rooms' \in {rooms, [s \in Sockets |-> {}]},
           \A p \in Processes : wire'[p]["ws"] = wire[p]["ws"] \/ wire'[p]["ws"] = <<>>,
           InTaken' \subseteq InTaken,
           Range(queue'["ws"]) \subseteq Range(queue["ws"]) \union InTaken,
           \/ rooms' = [s \in Sockets |-> {}] /\ InTaken' = {}
           \/ Range(queue'["ws"]) \subseteq Range(queue["ws"]),
           \A p \in Processes : Sorted(InOrder(p), queue'["ws"])
                                /\ Sorted(DeliveredInOrder(p), taken'["ws"])
    PROVE  BrowserInv'
<1>1. \A p \in Processes : Range(wire'[p]["ws"]) \subseteq Range(wire[p]["ws"])
                           /\ \A R : Sorted(R, wire[p]["ws"]) => Sorted(R, wire'[p]["ws"])
  BY SortedEmpty
<1>2. OnWires' \subseteq OnWires
  BY <1>1 DEF OnWires
<1>3. \A p \in Processes : InOrder(p)' = InOrder(p) /\ DeliveredInOrder(p)' = DeliveredInOrder(p)
  BY DEF InOrder, DeliveredInOrder
<1>4. \A s \in Sockets : Connected(s)' => Connected(s) /\ rooms'[s] = rooms[s]
                                          /\ Range(queue'["ws"]) \subseteq Range(queue["ws"])
  BY DEF Connected
<1>5. SocketTypes'
  <2>1. rooms' \in [Sockets -> SUBSET ({"all"} \union Segments)]
    BY DEF BrowserInv, SocketTypes
  <2> QED
    BY <2>1 DEF BrowserInv, SocketTypes
<1>6. NothingTwice'
  BY <1>2, <1>4 DEF BrowserInv, NothingTwice
<1>7. TwiceByRoom'
  BY DEF BrowserInv, TwiceByRoom
<1>8. ASSUME NEW p \in Processes PROVE Ordered(p)' /\ \A s \in Sockets : Received(p, s)'
  <2>0. Ordered(p) /\ \A s \in Sockets : Received(p, s)
    BY DEF BrowserInv
  <2>1. /\ sent'[p] \in Seq(Deltas) /\ IsInjective(sent'[p])
        /\ \A d \in Range(sent'[p]) : d \in DOMAIN log' \ unsent' /\ log'[d].by = p
        /\ Range(wire'[p]["ws"]) \subseteq Range(sent'[p])
    BY <2>0, <1>1 DEF Ordered
  <2>2. Sorted(InOrder(p), wire'[p]["ws"])
    BY <2>0, <1>1 DEF Ordered
  <2>3. Range(queue'["ws"]) \X Range(wire'[p]["ws"]) \subseteq InOrder(p)
    BY <2>0, <1>1 DEF Ordered
  <2>4. InTaken' \X Range(wire'[p]["ws"]) \subseteq InOrder(p)
    BY <2>0, <1>1 DEF Ordered
  <2>5. InTaken' \X Range(queue'["ws"]) \subseteq InOrder(p)
    BY <2>0 DEF Ordered
  <2>6. Ordered(p)'
    BY <2>1, <2>2, <2>3, <2>4, <2>5, <1>3 DEF Ordered
  <2>7. \A s \in Sockets : Received(p, s)'
    BY <2>0, <1>1, <1>3, <1>4 DEF Received
  <2> QED
    BY <2>6, <2>7
<1> QED
  BY <1>5, <1>6, <1>7, <1>8 DEF BrowserInv

\* A step that leaves alone what is for the gateway.
LEMMA ElsewhereOrder ==
    ASSUME IInv, BrowserInv, UNCHANGED <<log, unsent, sent, rooms, joined, inbox>>,
           queue'["ws"] = queue["ws"], taken'["ws"] = taken["ws"],
           \A p \in Processes : wire'[p]["ws"] = wire[p]["ws"]
    PROVE  BrowserInv'
<1>1. InTaken' = InTaken
  BY DEF InTaken
<1>2. \A p \in Processes : Sorted(InOrder(p), queue'["ws"])
                           /\ Sorted(DeliveredInOrder(p), taken'["ws"])
  BY DEF BrowserInv, Ordered
<1>3. /\ UNCHANGED <<log, sent, joined, inbox>> /\ unsent' \subseteq unsent
      /\ rooms' \in {rooms, [s \in Sockets |-> {}]}
      /\ InTaken' \subseteq InTaken /\ Range(queue'["ws"]) \subseteq Range(queue["ws"])
      /\ Range(queue'["ws"]) \subseteq Range(queue["ws"]) \union InTaken
  BY <1>1
<1>4. \A p \in Processes : wire'[p]["ws"] = wire[p]["ws"] \/ wire'[p]["ws"] = <<>>
  OBVIOUS
<1> QED
  BY <1>2, <1>3, <1>4, Loses

\* What arrives comes after what the same process has in the queue.
LEMMA ArriveOrder ==
    ASSUME IInv, BrowserInv, NEW o \in Processes, NEW q \in Roles, Arrive(o, q)
    PROVE  BrowserInv'
<1>0. /\ DOMAIN queue = Roles /\ DOMAIN wire = Processes /\ \A p \in Processes : DOMAIN wire[p] = Roles
      /\ "ws" \in Roles
  BY WsTypes DEF IInv, Types
<1>1. CASE q # "ws"
  BY <1>0, <1>1, ElsewhereOrder DEF Arrive
<1>2. CASE q = "ws"
  <2> DEFINE w == wire[o]["ws"]
  <2>1. w \in Seq(Deltas) /\ w # <<>> /\ queue["ws"] \in Seq(Deltas)
    BY <1>2, WsTypes DEF Arrive
  <2>2. PICK e \in Deltas : e = Head(w)
    BY <2>1, HeadTailProperties
  <2>3. /\ queue'["ws"] = Append(queue["ws"], e) /\ wire'[o]["ws"] = Tail(w)
        /\ \A p \in Processes : p # o => wire'[p]["ws"] = wire[p]["ws"]
        /\ UNCHANGED <<log, unsent, sent, taken, rooms, joined, inbox>>
    BY <1>0, <1>2, <2>2 DEF Arrive
  <2>4. /\ Range(w) = Range(Tail(w)) \union {e} /\ e \notin Range(Tail(w))
        /\ Range(queue'["ws"]) = Range(queue["ws"]) \union {e}
        /\ Tail(w) \in Seq(Deltas)
    <3>1. IsInjective(w)
      BY <1>0 DEF IInv, Places, NoDuplicates
    <3> QED
      BY <3>1, <2>1, <2>2, <2>3, TailDistinct, AppendDistinct
  <2>5. /\ e \in Range(sent[o])
        /\ \A p \in Processes : p # o => e \notin Range(sent[p])
    BY <2>4 DEF BrowserInv, Ordered
  <2>6. \A p \in Processes : p # o => e \notin Range(wire[p]["ws"])
    BY <2>5 DEF BrowserInv, Ordered
  <2>7. OnWires' \subseteq OnWires /\ e \in OnWires /\ e \notin OnWires' /\ InTaken' = InTaken
    <3>1. \A p \in Processes : Range(wire'[p]["ws"]) \subseteq Range(wire[p]["ws"])
                               /\ e \notin Range(wire'[p]["ws"])
      BY <2>3, <2>4, <2>6
    <3> QED
      BY <3>1, <2>3, <2>4 DEF OnWires, InTaken
  <2> HIDE DEF w
  <2>8. \A p \in Processes : InOrder(p)' = InOrder(p) /\ DeliveredInOrder(p)' = DeliveredInOrder(p)
    BY <2>3 DEF InOrder, DeliveredInOrder
  <2>9. SocketTypes' /\ TwiceByRoom'
    BY <2>3 DEF BrowserInv, SocketTypes, TwiceByRoom
  <2>10. NothingTwice'
    BY <2>3, <2>4, <2>7 DEF BrowserInv, NothingTwice, Connected
  <2>11. ASSUME NEW p \in Processes PROVE Ordered(p)' /\ \A s \in Sockets : Received(p, s)'
    <3>0. Ordered(p) /\ \A s \in Sockets : Received(p, s)
      BY DEF BrowserInv
    \* What has been on its way before e.
    <3>1. /\ \A d \in Range(queue["ws"]) \union InTaken : <<d, e>> \in InOrder(p)
          /\ \A s \in Sockets : Connected(s) => \A d \in Range(inbox[s]) : <<d, e>> \in InOrder(p)
      <4>0. \A s \in Sockets : Range(inbox[s]) \subseteq Deltas
        BY RangeOfSeq DEF BrowserInv, SocketTypes
      <4>1. CASE p = o
        <5>1. e \in Range(wire[p]["ws"])
          BY <4>1, <2>4 DEF w
        <5> QED
          BY <5>1, <3>0 DEF Ordered, Received
      <4>2. CASE p # o
        BY <4>0, <4>2, <2>5, OthersInOrder, WsTypes
      <4> QED
        BY <4>1, <4>2
    \* What comes after e.
    <3>2. \A d \in Range(wire'[p]["ws"]) : <<e, d>> \in InOrder(p)
      <4>1. CASE p = o
        BY <4>1, <3>0, <2>1, <2>2, <2>3, SortedTail DEF Ordered, w
      <4>2. CASE p # o
        BY <4>2, <2>3, <2>5, OthersInOrder, WsTypes
      <4> QED
        BY <4>1, <4>2
    <3>3. Range(wire'[p]["ws"]) \subseteq Range(wire[p]["ws"]) /\ Sorted(InOrder(p), wire'[p]["ws"])
      <4>1. CASE p = o
        BY <4>1, <3>0, <2>1, <2>3, <2>4, SortedTail DEF Ordered, w
      <4>2. CASE p # o
        BY <4>2, <3>0, <2>3 DEF Ordered
      <4> QED
        BY <4>1, <4>2
    <3>4. Sorted(InOrder(p), queue'["ws"])
      BY <3>0, <3>1, <2>1, <2>3, SortedAppend DEF Ordered
    <3>5. /\ Range(queue'["ws"]) \X Range(wire'[p]["ws"]) \subseteq InOrder(p)
          /\ InTaken \X Range(wire'[p]["ws"]) \subseteq InOrder(p)
          /\ InTaken \X Range(queue'["ws"]) \subseteq InOrder(p)
      <4>1. Range(queue'["ws"]) \X Range(wire'[p]["ws"]) \subseteq InOrder(p)
        BY <3>0, <3>2, <3>3, <2>4 DEF Ordered
      <4>2. InTaken \X Range(wire'[p]["ws"]) \subseteq InOrder(p)
        BY <3>0, <3>3 DEF Ordered
      <4>3. InTaken \X Range(queue'["ws"]) \subseteq InOrder(p)
        BY <3>0, <3>1, <2>4 DEF Ordered
      <4> QED
        BY <4>1, <4>2, <4>3
    <3>6. Ordered(p)'
      BY <3>0, <3>3, <3>4, <3>5, <2>3, <2>7, <2>8 DEF Ordered
    <3>7. ASSUME NEW s \in Sockets PROVE Received(p, s)'
      <4>1. ASSUME Connected(s)
            PROVE  /\ Range(inbox[s]) \X Range(wire'[p]["ws"]) \subseteq InOrder(p)
                   /\ Range(inbox[s]) \X Range(queue'["ws"]) \subseteq InOrder(p)
        <5>1. Range(inbox[s]) \X Range(wire'[p]["ws"]) \subseteq InOrder(p)
          BY <4>1, <3>0, <3>3 DEF Received
        <5>2. Range(inbox[s]) \X Range(queue'["ws"]) \subseteq InOrder(p)
          BY <4>1, <3>0, <3>1, <2>4 DEF Received
        <5> QED
          BY <5>1, <5>2
      <4> QED
        BY <4>1, <3>0, <2>3, <2>8 DEF Received, Connected
    <3> QED
      BY <3>6, <3>7
  <2> QED
    BY <2>3, <2>9, <2>10, <2>11 DEF BrowserInv
<1> QED
  BY <1>1, <1>2

\* An acknowledged or rejected delivery.
LEMMA RemovedOrder ==
    ASSUME IInv, BrowserInv, NEW q \in Roles, NEW i \in DOMAIN taken[q],
           taken' = [taken EXCEPT ![q] = RemoveAt(@, i)],
           UNCHANGED <<log, unsent, sent, wire, queue, rooms, joined, inbox>>
    PROVE  BrowserInv'
<1>0. DOMAIN taken = Roles /\ "ws" \in Roles
  BY WsTypes DEF IInv, Types
<1>1. CASE q # "ws"
  BY <1>0, <1>1, ElsewhereOrder
<1>2. CASE q = "ws"
  <2>1. taken'["ws"] = RemoveAt(taken["ws"], i) /\ i \in DOMAIN taken["ws"]
    BY <1>0, <1>2
  <2>2. Range(taken'["ws"]) \subseteq Range(taken["ws"])
    BY <2>1, WsTypes, RemoveDistinct
  <2>3. InTaken' \subseteq InTaken
    BY <2>2 DEF InTaken
  <2>4. \A p \in Processes : Sorted(InOrder(p), queue'["ws"])
                             /\ Sorted(DeliveredInOrder(p), taken'["ws"])
    <3> TAKE p \in Processes
    <3>1. Sorted(InOrder(p), queue["ws"]) /\ Sorted(DeliveredInOrder(p), taken["ws"])
      BY DEF BrowserInv, Ordered
    <3> QED
      BY <3>1, <2>1, WsTypes, SortedRemove
  <2>5. /\ UNCHANGED <<log, sent, joined, inbox>> /\ unsent' \subseteq unsent
        /\ rooms' \in {rooms, [s \in Sockets |-> {}]}
        /\ Range(queue'["ws"]) \subseteq Range(queue["ws"])
        /\ Range(queue'["ws"]) \subseteq Range(queue["ws"]) \union InTaken
    OBVIOUS
  <2>6. \A p \in Processes : wire'[p]["ws"] = wire[p]["ws"] \/ wire'[p]["ws"] = <<>>
    OBVIOUS
  <2> QED
    BY <2>3, <2>4, <2>5, <2>6, Loses
<1> QED
  BY <1>1, <1>2

\* A restart of the broker only takes messages away.
LEMMA RestartOrder ==
    ASSUME IInv, BrowserInv, BrokerRestart
    PROVE  BrowserInv'
<1>1. queue'["ws"] = <<>> /\ Range(queue'["ws"]) = {} /\ InTaken' = InTaken
  BY WsTypes, SortedEmpty DEF BrokerRestart, InTaken
<1>2. \A p \in Processes : Sorted(InOrder(p), queue'["ws"])
                           /\ Sorted(DeliveredInOrder(p), taken'["ws"])
  BY <1>1, SortedEmpty DEF BrokerRestart, BrowserInv, Ordered
<1>3. /\ UNCHANGED <<log, sent, joined, inbox>> /\ unsent' \subseteq unsent
      /\ rooms' \in {rooms, [s \in Sockets |-> {}]}
      /\ InTaken' \subseteq InTaken /\ Range(queue'["ws"]) \subseteq Range(queue["ws"])
      /\ Range(queue'["ws"]) \subseteq Range(queue["ws"]) \union InTaken
  BY <1>1 DEF BrokerRestart
<1>4. \A p \in Processes : wire'[p]["ws"] = wire[p]["ws"] \/ wire'[p]["ws"] = <<>>
  BY DEF BrokerRestart
<1> QED
  BY <1>2, <1>3, <1>4, Loses

\* A crash of the api cuts every connection, so that what is delivered again is new to all of them.
LEMMA CrashOrder ==
    ASSUME IInv, BrowserInv, NEW p \in Processes, Crash(p)
    PROVE  BrowserInv'
<1>0. /\ DOMAIN wire = Processes /\ \A o \in Processes : DOMAIN wire[o] = Roles
      /\ "ws" \in Roles /\ Host("ws") = "api"
  BY WsTypes DEF IInv, Types
<1>1. /\ UNCHANGED <<log, sent, joined, inbox>> /\ unsent' \subseteq unsent
      /\ wire' = [wire EXCEPT ![p] = [q \in Roles |-> <<>>]]
      /\ queue'["ws"] = IF p = "api" THEN Requeued("ws") ELSE queue["ws"]
      /\ taken'["ws"] = IF p = "api" THEN <<>> ELSE taken["ws"]
      /\ rooms' = IF p = "api" THEN [s \in Sockets |-> {}] ELSE rooms
  BY <1>0 DEF Crash
<1>2. \A o \in Processes : wire'[o]["ws"] = wire[o]["ws"] \/ wire'[o]["ws"] = <<>>
  BY <1>0, <1>1
<1>3. CASE p # "api"
  <2>1. InTaken' \subseteq InTaken /\ Range(queue'["ws"]) \subseteq Range(queue["ws"])
        /\ Range(queue'["ws"]) \subseteq Range(queue["ws"]) \union InTaken
        /\ rooms' \in {rooms, [s \in Sockets |-> {}]}
    BY <1>1, <1>3 DEF InTaken
  <2>2. \A o \in Processes : Sorted(InOrder(o), queue'["ws"])
                             /\ Sorted(DeliveredInOrder(o), taken'["ws"])
    BY <1>1, <1>3 DEF BrowserInv, Ordered
  <2> QED
    BY <2>1, <2>2, <1>1, <1>2, Loses
<1>4. CASE p = "api"
  <2> DEFINE t == taken["ws"]
             back == [i \in DOMAIN t |-> t[i][2]]
  <2>1. queue'["ws"] = back \o queue["ws"] /\ taken'["ws"] = <<>> /\ rooms' = [s \in Sockets |-> {}]
    BY <1>1, <1>4 DEF Requeued
  <2>2. /\ Len(t) \in Nat /\ DOMAIN t = 1..Len(t)
        /\ \A i \in DOMAIN t : t[i] \in {"ws"} \X Deltas /\ t[i] \in Range(t)
    BY WsTypes, LenProperties, ElementOfSeq DEF Range
  <2>3. back \in Seq(Deltas) /\ DOMAIN back = DOMAIN t
    BY <2>2, SeqDef
  <2>4. Range(back) = InTaken
    BY DEF Range, InTaken
  <2>5. Range(queue'["ws"]) = InTaken \union Range(queue["ws"]) /\ InTaken' = {}
    <3>1. Range(back \o queue["ws"]) = Range(back) \union Range(queue["ws"])
      BY <2>3, WsTypes, RangeConcatenation
    <3>2. InTaken' = {}
      BY <2>1, SortedEmpty DEF InTaken
    <3> QED
      BY <2>1, <2>4, <3>1, <3>2
  <2>6. ASSUME NEW o \in Processes
        PROVE  Sorted(InOrder(o), queue'["ws"]) /\ Sorted(DeliveredInOrder(o), taken'["ws"])
    <3>0. Ordered(o)
      BY DEF BrowserInv
    <3>1. Sorted(InOrder(o), back)
      <4> SUFFICES ASSUME NEW i \in DOMAIN t, NEW j \in DOMAIN t, i < j
                   PROVE  <<t[i][2], t[j][2]>> \in InOrder(o)
        BY <2>3 DEF Sorted
      <4>1. <<t[i], t[j]>> \in DeliveredInOrder(o)
        BY <3>0 DEF Ordered, Sorted
      <4> QED
        BY <4>1 DEF DeliveredInOrder
    <3>2. Range(back) \X Range(queue["ws"]) \subseteq InOrder(o) /\ Sorted(InOrder(o), queue["ws"])
      BY <3>0, <2>4 DEF Ordered
    <3> HIDE DEF back
    <3>3. Sorted(InOrder(o), back \o queue["ws"])
      BY <3>1, <3>2, <2>3, WsTypes, SortedConcat
    <3> QED
      BY <3>3, <2>1, SortedEmpty
  <2>7. /\ InTaken' \subseteq InTaken
        /\ Range(queue'["ws"]) \subseteq Range(queue["ws"]) \union InTaken
    BY <2>5
  <2> QED
    BY <2>1, <2>5, <2>6, <2>7, <1>1, <1>2, Loses
<1> QED
  BY <1>3, <1>4

\* Deliveries in the worker leave the queue of the gateway alone.
LEMMA DeliverOrder ==
    ASSUME IInv, BrowserInv, NEW q \in Roles, Deliver(q)
    PROVE  BrowserInv'
<1>1. q # "ws" /\ DOMAIN taken = Roles /\ DOMAIN queue = Roles
  BY DEF Deliver, Host, IInv, Types
<1>2. queue'["ws"] = queue["ws"] /\ taken'["ws"] = taken["ws"]
  BY <1>1, WsTypes DEF Deliver
<1> QED
  BY <1>2, ElsewhereOrder DEF Deliver

\* A connection in the rooms in receives at most two copies, and at most one unless it
\* is in the room of the segment.
LEMMA CopiesOfOne ==
    ASSUME NEW d \in Deltas, NEW in
    PROVE  /\ Copies(d, in) \in Seq({d}) /\ Range(Copies(d, in)) \subseteq {d}
           /\ in = {} => Copies(d, in) = <<>>
           /\ log[d].segment \notin in => DOMAIN Copies(d, in) \subseteq {1}
<1> DEFINE room == RoomsOf(d)
           hits == {k \in DOMAIN room : room[k] \in in}
           n == Cardinality(hits)
<1>1. DOMAIN room = 1..2 /\ room[1] = "all" /\ room[2] = log[d].segment
  BY DEF RoomsOf
<1>2. hits \subseteq {1, 2} /\ IsFiniteSet({1, 2}) /\ IsFiniteSet(hits) /\ n \in Nat
  <2>1. hits \subseteq {1, 2}
    BY <1>1
  <2>2. IsFiniteSet({1} \union {2}) /\ {1, 2} = {1} \union {2}
    BY FS_Singleton, FS_Union
  <2> QED
    BY <2>1, <2>2, FS_Subset, FS_CardinalityType
<1>3. Copies(d, in) = [i \in 1..n |-> d]
  BY DEF Copies
<1>4. in = {} => n = 0
  BY FS_EmptySet
<1>5. log[d].segment \notin in => n <= 1
  <2> SUFFICES ASSUME log[d].segment \notin in PROVE n <= 1
    OBVIOUS
  <2>1. hits \in SUBSET {1}
    BY <1>1
  <2> QED
    <3>1. IsFiniteSet({1}) /\ Cardinality({1}) = 1
      BY FS_Singleton
    <3> QED
      BY <2>1, <3>1, FS_Subset
<1> HIDE DEF n
<1>6. Copies(d, in) \in Seq({d}) /\ DOMAIN Copies(d, in) = 1..n
  BY <1>2, <1>3, SeqDef
<1>7. in = {} => Copies(d, in) = <<>>
  BY <1>3, <1>4
<1>8. log[d].segment \notin in => DOMAIN Copies(d, in) \subseteq {1}
  BY <1>2, <1>5, <1>6
<1> QED
  BY <1>6, <1>7, <1>8, RangeOfSeq

\* The gateway takes the first message of its queue, which comes after all that was received.
LEMMA ForwardOrder ==
    ASSUME IInv, BrowserInv, "all" \notin Segments, Forward
    PROVE  BrowserInv'
<1>0. DOMAIN queue = Roles /\ DOMAIN taken = Roles /\ "ws" \in Roles
  BY WsTypes DEF IInv, Types
<1>1. 1 \in DOMAIN queue["ws"] /\ queue["ws"] \in Seq(Deltas)
  BY WsTypes DEF Forward, Publishing
<1> DEFINE old == queue["ws"]
<1>2. old # <<>> /\ RemoveAt(old, 1) = Tail(old) /\ old[1] = Head(old) /\ Head(old) \in Deltas
  BY <1>1, RemoveFirstIsTail, HeadTailProperties
<1>3. PICK d \in Deltas : d = Head(old)
  BY <1>2
<1>4. /\ UNCHANGED <<log, unsent, sent, wire, rooms, joined>>
      /\ queue'["ws"] = Tail(old) /\ taken'["ws"] = Append(taken["ws"], <<"ws", d>>)
      /\ inbox' = [s \in Sockets |-> inbox[s] \o Copies(d, rooms[s])]
  <2>1. PICK i \in Publishing \intersect DOMAIN queue["ws"] :
           /\ queue' = [queue EXCEPT !["ws"] = RemoveAt(@, i)]
           /\ taken' = [taken EXCEPT !["ws"] = @ \o Deliveries("ws", queue["ws"][i])]
           /\ inbox' = [s \in Sockets |-> inbox[s] \o Copies(queue["ws"][i], rooms[s])]
           /\ UNCHANGED <<log, unsent, sent, wire, rooms, joined>>
    BY DEF Forward
  <2>2. i = 1
    BY <2>1 DEF Publishing
  <2>3. taken["ws"] \o <<<<"ws", d>>>> = Append(taken["ws"], <<"ws", d>>)
    BY WsTypes, AppendIsConcat
  <2>4. Deliveries("ws", d) = <<<<"ws", d>>>>
    BY <1>0, OwnHandler
  <2> QED
    BY <2>1, <2>2, <2>3, <2>4, <1>0, <1>2, <1>3
<1>5. /\ Tail(old) \in Seq(Deltas) /\ Range(old) = Range(Tail(old)) \union {d}
      /\ d \notin Range(Tail(old)) /\ d \notin OnWires
      /\ d \in DOMAIN log \ unsent
  <2>1. /\ IsInjective(old) /\ OnePlace("ws", d) /\ d \in Range(old)
        /\ Tail(old) \in Seq(Deltas) /\ Range(old) = Range(Tail(old)) \union {d}
        /\ d \notin Range(Tail(old))
    BY <1>0, <1>1, <1>2, <1>3, TailDistinct DEF IInv, Places, NoDuplicates
  <2> QED
    BY <2>1 DEF OnePlace, OnWires
<1>6. InTaken' = InTaken \union {d} /\ OnWires' = OnWires
  <2>1. Range(taken'["ws"]) = Range(taken["ws"]) \union {<<"ws", d>>}
    <3>1. taken["ws"] \in Seq({"ws"} \X Deltas) /\ <<"ws", d>> \in {"ws"} \X Deltas
      BY WsTypes
    <3>2. Range(Append(taken["ws"], <<"ws", d>>)) = Range(taken["ws"]) \union {<<"ws", d>>}
      BY <3>1, AppendDistinct
    <3> QED
      BY <3>2, <1>4
  <2>2. <<"ws", d>>[2] = d
    OBVIOUS
  <2>3. {m[2] : m \in Range(taken["ws"]) \union {<<"ws", d>>}} = InTaken \union {d}
    BY <2>2 DEF InTaken
  <2> QED
    BY <2>1, <2>3, <1>4 DEF InTaken, OnWires
<1> HIDE DEF old
<1>7. \A p \in Processes : InOrder(p)' = InOrder(p) /\ DeliveredInOrder(p)' = DeliveredInOrder(p)
  BY <1>4 DEF InOrder, DeliveredInOrder
<1>8. ASSUME NEW s \in Sockets
      PROVE  /\ inbox[s] \in Seq(Deltas) /\ Range(inbox[s]) \subseteq Deltas
             /\ Copies(d, rooms[s]) \in Seq(Deltas) /\ inbox'[s] = inbox[s] \o Copies(d, rooms[s])
             /\ inbox'[s] \in Seq(Deltas)
             /\ Range(inbox'[s]) = Range(inbox[s]) \union Range(Copies(d, rooms[s]))
             /\ Range(Copies(d, rooms[s])) \subseteq {d}
  <2>1. inbox[s] \in Seq(Deltas)
    BY DEF BrowserInv, SocketTypes
  <2>2. Copies(d, rooms[s]) \in Seq(Deltas) /\ Range(Copies(d, rooms[s])) \subseteq {d}
    <3>1. Copies(d, rooms[s]) \in Seq({d}) /\ Range(Copies(d, rooms[s])) \subseteq {d}
      BY CopiesOfOne
    <3>2. {d} \subseteq Deltas
      OBVIOUS
    <3> QED
      BY <3>1, <3>2, SeqMonotonic
  <2> QED
    <3>1. inbox'[s] = inbox[s] \o Copies(d, rooms[s])
      BY <1>4
    <3>2. /\ inbox[s] \o Copies(d, rooms[s]) \in Seq(Deltas)
          /\ Range(inbox[s] \o Copies(d, rooms[s])) = Range(inbox[s]) \union Range(Copies(d, rooms[s]))
      BY <2>1, <2>2, ConcatProperties, RangeConcatenation
    <3> QED
      BY <3>1, <3>2, <2>1, <2>2, RangeOfSeq
<1>9. \A s \in Sockets : ~Connected(s) => inbox'[s] = inbox[s]
  BY <1>8, CopiesOfOne, ConcatEmptySeq DEF Connected
<1>10. SocketTypes'
  <2>1. inbox' \in [Sockets -> Seq(Deltas)]
    BY <1>4, <1>8
  <2>2. \A s \in Sockets : Range(inbox'[s]) \subseteq DOMAIN log \ unsent
    BY <1>5, <1>8 DEF BrowserInv, SocketTypes
  <2> QED
    BY <2>1, <2>2, <1>4 DEF BrowserInv, SocketTypes
<1>11. NothingTwice'
  <2> SUFFICES ASSUME NEW s \in Sockets, Connected(s)
               PROVE  /\ rooms[s] \ {"all"} \subseteq joined[s]
                      /\ \A e \in Range(inbox'[s]) : e \notin Range(Tail(old)) /\ e \notin OnWires
    BY <1>4, <1>6 DEF NothingTwice, Connected
  <2> QED
    BY <1>5, <1>8 DEF BrowserInv, NothingTwice, old
<1>12. TwiceByRoom'
  <2> SUFFICES ASSUME NEW s \in Sockets, NEW i \in DOMAIN inbox'[s], NEW j \in DOMAIN inbox'[s],
                      inbox'[s][i] = inbox'[s][j], log[inbox'[s][i]].segment \notin joined[s]
               PROVE  i = j
    <3>1. log' = log /\ joined' = joined
      BY <1>4
    <3> QED
      BY <3>1 DEF TwiceByRoom
  <2>0. \A a, b \in DOMAIN inbox[s] :
           inbox[s][a] = inbox[s][b] /\ log[inbox[s][a]].segment \notin joined[s] => a = b
    BY DEF BrowserInv, TwiceByRoom
  <2>1. CASE ~Connected(s)
    BY <2>0, <2>1, <1>9
  <2>2. CASE Connected(s)
    <3> DEFINE m == Len(inbox[s])
               c == Copies(d, rooms[s])
    <3>1. /\ m \in Nat /\ Len(c) \in Nat /\ DOMAIN inbox'[s] = 1..(m + Len(c))
          /\ DOMAIN inbox[s] = 1..m /\ DOMAIN c = 1..Len(c)
          /\ \A k \in 1..(m + Len(c)) : inbox'[s][k] = IF k <= m THEN inbox[s][k] ELSE c[k - m]
      <4>1. /\ inbox[s] \in Seq(Deltas) /\ c \in Seq(Deltas) /\ inbox'[s] = inbox[s] \o c
            /\ inbox'[s] \in Seq(Deltas)
        BY <1>8
      <4> HIDE DEF c
      <4>2. /\ Len(inbox'[s]) = m + Len(c)
            /\ \A k \in 1..(m + Len(c)) : inbox'[s][k] = IF k <= m THEN inbox[s][k] ELSE c[k - m]
        BY <4>1, ConcatProperties
      <4> QED
        BY <4>1, <4>2, LenProperties
    <3>11. Range(c) \subseteq {d} /\ (log[d].segment \notin rooms[s] => DOMAIN c \subseteq {1})
      BY <1>8, CopiesOfOne
    <3> HIDE DEF m, c
    <3>2. \A k \in 1..(m + Len(c)) :
             IF k <= m THEN k \in DOMAIN inbox[s] /\ inbox'[s][k] = inbox[s][k]
                            /\ inbox'[s][k] \in Range(inbox[s])
                       ELSE k - m \in DOMAIN c /\ inbox'[s][k] = d
      <4> TAKE k \in 1..(m + Len(c))
      <4>1. CASE k <= m
        BY <4>1, <3>1 DEF Range
      <4>2. CASE ~(k <= m)
        <5>1. k - m \in DOMAIN c /\ inbox'[s][k] = c[k - m]
          BY <4>2, <3>1
        <5> QED
          BY <4>2, <5>1, <3>11 DEF Range
      <4> QED
        BY <4>1, <4>2
    <3>3. d \notin Range(inbox[s])
      BY <2>2, <1>5 DEF BrowserInv, NothingTwice, old
    <3>4. CASE i <= m
      <4>1. j <= m
        BY <3>1, <3>2, <3>3, <3>4
      <4> QED
        BY <4>1, <3>1, <3>2, <3>4, <2>0
    <3>5. CASE ~(i <= m)
      <4>1. ~(j <= m) /\ inbox'[s][i] = d
        BY <3>1, <3>2, <3>3, <3>5
      <4>2. log[d].segment \notin rooms[s]
        <5>1. log[d] \in Delta
          BY <1>5, LenProperties, ElementOfSeq DEF IInv, Types
        <5>2. log[d].segment # "all"
          BY <5>1 DEF Delta
        <5> QED
          BY <4>1, <5>2, <2>2 DEF BrowserInv, NothingTwice
      <4>3. i - m \in {1} /\ j - m \in {1}
        BY <4>1, <4>2, <3>1, <3>11, <3>2, <3>5
      <4> QED
        BY <4>3, <3>1
    <3> QED
      BY <3>4, <3>5
  <2> QED
    BY <2>1, <2>2
<1>13. ASSUME NEW p \in Processes PROVE Ordered(p)' /\ \A s \in Sockets : Received(p, s)'
  <2>0. Ordered(p) /\ \A s \in Sockets : Received(p, s)
    BY DEF BrowserInv
  <2>1. /\ \A x \in Range(Tail(old)) : <<d, x>> \in InOrder(p)
        /\ Sorted(InOrder(p), Tail(old))
    BY <2>0, <1>1, <1>2, <1>3, SortedTail DEF Ordered, old
  <2>2. Sorted(DeliveredInOrder(p), taken'["ws"])
    <3>1. \A x \in Range(taken["ws"]) : <<x, <<"ws", d>>>> \in DeliveredInOrder(p)
      <4> TAKE x \in Range(taken["ws"])
      <4>1. x \in {"ws"} \X Deltas /\ x[2] \in InTaken
        BY WsTypes DEF InTaken
      <4>2. <<x[2], d>> \in InOrder(p)
        BY <4>1, <2>0, <1>5 DEF Ordered, old
      <4> QED
        BY <4>1, <4>2 DEF DeliveredInOrder
    <3>2. Sorted(DeliveredInOrder(p), taken["ws"]) /\ <<"ws", d>> \in {"ws"} \X Deltas
      BY <2>0 DEF Ordered
    <3> QED
      BY <3>1, <3>2, <1>4, WsTypes, SortedAppend
  <2>3. \A x \in Range(wire[p]["ws"]) : <<d, x>> \in InOrder(p)
    BY <2>0, <1>5 DEF Ordered, old
  <2>4. Range(Tail(old)) \X Range(wire[p]["ws"]) \subseteq InOrder(p)
    BY <2>0, <1>5 DEF Ordered, old
  <2>5. InTaken' \X Range(wire[p]["ws"]) \subseteq InOrder(p)
    BY <2>0, <2>3, <1>6 DEF Ordered
  <2>6. InTaken' \X Range(Tail(old)) \subseteq InOrder(p)
    BY <2>0, <2>1, <1>5, <1>6 DEF Ordered, old
  <2>7. Ordered(p)'
    BY <2>0, <2>1, <2>2, <2>4, <2>5, <2>6, <1>4, <1>7 DEF Ordered
  <2>8. ASSUME NEW s \in Sockets PROVE Received(p, s)'
    <3>1. CASE ~Connected(s)
      BY <3>1, <2>0, <1>4, <1>7, <1>9 DEF Received, Connected
    <3>2. CASE Connected(s)
      <4>0. Range(inbox'[s]) \subseteq Range(inbox[s]) \union {d}
        BY <1>8
      <4>1. Sorted(InOrder(p), inbox'[s])
        <5>1. Sorted(InOrder(p), Copies(d, rooms[s]))
          <6>1. \A i \in DOMAIN Copies(d, rooms[s]) : Copies(d, rooms[s])[i] = d
            BY <1>8 DEF Range
          <6> QED
            BY <6>1, SameInOrder DEF Sorted
        <5>2. Range(inbox[s]) \X Range(Copies(d, rooms[s])) \subseteq InOrder(p)
          BY <3>2, <2>0, <1>5, <1>8 DEF Received, old
        <5>3. Sorted(InOrder(p), inbox[s])
          BY <2>0 DEF Received
        <5> QED
          BY <5>1, <5>2, <5>3, <1>8, SortedConcat
      <4>2. Range(inbox'[s]) \X Range(wire[p]["ws"]) \subseteq InOrder(p)
        <5>1. Range(inbox[s]) \X Range(wire[p]["ws"]) \subseteq InOrder(p)
          BY <3>2, <2>0 DEF Received
        <5> QED
          BY <5>1, <4>0, <2>3
      <4>3. Range(inbox'[s]) \X Range(Tail(old)) \subseteq InOrder(p)
        <5>1. Range(inbox[s]) \X Range(Tail(old)) \subseteq InOrder(p)
          BY <3>2, <2>0, <1>5 DEF Received, old
        <5> QED
          BY <5>1, <4>0, <2>1
      <4> QED
        BY <4>1, <4>2, <4>3, <1>4, <1>7 DEF Received
    <3> QED
      BY <3>1, <3>2
  <2> QED
    BY <2>7, <2>8
<1>14. DOMAIN sent' = Processes
  BY <1>4 DEF BrowserInv
<1> QED
  BY <1>10, <1>11, <1>12, <1>13, <1>14 DEF BrowserInv

\* A connection that is opened has received nothing.
LEMMA SocketOrder ==
    ASSUME IInv, BrowserInv, NEW s \in Sockets, NEW in \in SUBSET ({"all"} \union Segments),
           SocketStep(s, in)
    PROVE  BrowserInv'
<1>1. /\ UNCHANGED <<log, unsent, sent, wire, queue, taken>>
      /\ rooms' = [rooms EXCEPT ![s] = in]
      /\ joined' = [joined EXCEPT ![s] = (IF Connected(s) THEN @ ELSE {}) \union (in \ {"all"})]
      /\ inbox' = [inbox EXCEPT ![s] = IF Connected(s) THEN @ ELSE <<>>]
  BY DEF SocketStep
<1>2. /\ rooms \in [Sockets -> SUBSET ({"all"} \union Segments)] /\ DOMAIN joined = Sockets
      /\ inbox \in [Sockets -> Seq(Deltas)]
  BY DEF BrowserInv, SocketTypes
<1>3. /\ rooms'[s] = in /\ joined'[s] = (IF Connected(s) THEN joined[s] ELSE {}) \union (in \ {"all"})
      /\ inbox'[s] = IF Connected(s) THEN inbox[s] ELSE <<>>
      /\ \A t \in Sockets : t # s => rooms'[t] = rooms[t] /\ joined'[t] = joined[t] /\ inbox'[t] = inbox[t]
  BY <1>1, <1>2
<1>4. \A t \in Sockets : inbox'[t] = inbox[t] \/ inbox'[t] = <<>>
  BY <1>3
<1>5. \A S : <<>> \in Seq(S) /\ Range(<<>>) = {} /\ DOMAIN <<>> = {}
  BY EmptySeq, SortedEmpty
<1>6. OnWires' = OnWires /\ InTaken' = InTaken
  BY <1>1 DEF OnWires, InTaken
<1>7. \A p \in Processes : InOrder(p)' = InOrder(p) /\ DeliveredInOrder(p)' = DeliveredInOrder(p)
  BY <1>1 DEF InOrder, DeliveredInOrder
<1>8. SocketTypes'
  <2>1. rooms' \in [Sockets -> SUBSET ({"all"} \union Segments)] /\ DOMAIN joined' = Sockets
    BY <1>1, <1>2
  <2>2. inbox' \in [Sockets -> Seq(Deltas)]
    BY <1>1, <1>2, <1>5
  <2>3. \A t \in Sockets : Range(inbox'[t]) \subseteq DOMAIN log \ unsent
    BY <1>4, <1>5 DEF BrowserInv, SocketTypes
  <2> QED
    BY <2>1, <2>2, <2>3, <1>1 DEF SocketTypes
\* A connection that lives on keeps what it has joined and received.
<1>9. NothingTwice'
  <2> SUFFICES ASSUME NEW t \in Sockets, rooms'[t] # {}
               PROVE  /\ rooms'[t] \ {"all"} \subseteq joined'[t]
                      /\ \A d \in Range(inbox'[t]) : d \notin Range(queue["ws"]) /\ d \notin OnWires
    BY <1>1, <1>6 DEF NothingTwice, Connected
  <2>1. CASE t # s
    BY <2>1, <1>3 DEF BrowserInv, NothingTwice, Connected
  <2>2. CASE t = s
    BY <2>2, <1>3, <1>5 DEF BrowserInv, NothingTwice
  <2> QED
    BY <2>1, <2>2
<1>10. TwiceByRoom'
  <2> SUFFICES ASSUME NEW t \in Sockets, NEW i \in DOMAIN inbox'[t], NEW j \in DOMAIN inbox'[t],
                      inbox'[t][i] = inbox'[t][j], log[inbox'[t][i]].segment \notin joined'[t]
               PROVE  i = j
    BY <1>1 DEF TwiceByRoom
  <2>1. inbox'[t] = inbox[t] /\ joined[t] \subseteq joined'[t]
    BY <1>3, <1>5
  <2> QED
    BY <2>1 DEF BrowserInv, TwiceByRoom
<1>11. ASSUME NEW p \in Processes PROVE Ordered(p)' /\ \A t \in Sockets : Received(p, t)'
  <2>0. Ordered(p) /\ \A t \in Sockets : Received(p, t)
    BY DEF BrowserInv
  <2>1. Ordered(p)'
    BY <2>0, <1>1, <1>6, <1>7 DEF Ordered
  <2>2. ASSUME NEW t \in Sockets PROVE Received(p, t)'
    <3>1. CASE inbox'[t] = <<>>
      BY <3>1, <1>5, <1>7, SortedEmpty DEF Received
    <3>2. CASE inbox'[t] # <<>>
      <4>1. inbox'[t] = inbox[t] /\ (rooms'[t] # {} => Connected(t))
        BY <3>2, <1>3 DEF Connected
      <4> QED
        BY <4>1, <2>0, <1>1, <1>7 DEF Received, Connected
    <3> QED
      BY <3>1, <3>2
  <2> QED
    BY <2>1, <2>2
<1> QED
  BY <1>1, <1>8, <1>9, <1>10, <1>11 DEF BrowserInv

-----------------------------------------------------------------------------
(* The theorems *)

\* Every step keeps the order.
LEMMA BrowserStep ==
    ASSUME MaxDeltas \in Nat, "all" \notin Segments, IInv, BrowserInv, [FeedNext]_feedVars
    PROVE  BrowserInv'
<1>1. CASE \E segment \in Segments, p \in Processes : RecordDelta(segment, p)
  BY <1>1, RecordOrder
<1>2. CASE \E d \in unsent : Broadcast(d)
  BY <1>2, BroadcastOrder
<1>3. CASE \E p \in Processes, q \in Roles : Arrive(p, q)
  BY <1>3, ArriveOrder
<1>4. CASE \E q \in Roles : Deliver(q)
  BY <1>4, DeliverOrder
<1>5. CASE \E q \in Roles : \E i \in DOMAIN taken[q] : Finish(q, i)
  BY <1>5, RemovedOrder DEF Finish
<1>6. CASE \E q \in Roles : \E i \in DOMAIN taken[q] : Throw(q, i)
  BY <1>6, RemovedOrder DEF Throw
<1>7. CASE Forward
  BY <1>7, ForwardOrder
<1>8. CASE \E s \in Sockets : \/ Connect(s) \/ Disconnect(s)
                              \/ \E segment \in Segments : Subscribe(s, segment) \/ Unsubscribe(s, segment)
  <2>1. PICK s \in Sockets : \/ Connect(s) \/ Disconnect(s)
                             \/ \E segment \in Segments : Subscribe(s, segment) \/ Unsubscribe(s, segment)
    BY <1>8
  <2>2. rooms[s] \subseteq {"all"} \union Segments
    BY DEF BrowserInv, SocketTypes
  <2>3. \E in \in SUBSET ({"all"} \union Segments) : SocketStep(s, in)
    BY <2>1, <2>2 DEF Connect, Disconnect, Subscribe, Unsubscribe
  <2> QED
    BY <2>3, SocketOrder
<1>9. CASE \E p \in Processes : Crash(p)
  BY <1>9, CrashOrder
<1>10. CASE BrokerRestart
  BY <1>10, RestartOrder
<1>11. CASE UNCHANGED feedVars
  <2>1. InTaken' = InTaken /\ \A p \in Processes : DeliveredInOrder(p)' = DeliveredInOrder(p)
    BY <1>11 DEF feedVars, InTaken, DeliveredInOrder, InOrder
  <2> QED
    BY <1>11, ElsewhereOrder DEF feedVars
<1> QED
  BY <1>1, <1>2, <1>3, <1>4, <1>5, <1>6, <1>7, <1>8, <1>9, <1>10, <1>11 DEF FeedNext

\* The order holds throughout.
LEMMA BrowserInvariance == FeedSpec => []BrowserInv
<1>1. FeedInit => BrowserInv
  BY BrowserInit, FeedAssumption
<1>2. IInv /\ BrowserInv /\ [FeedNext]_feedVars => BrowserInv'
  BY BrowserStep, FeedAssumption
<1> QED
  BY <1>1, <1>2, Invariance, PTL DEF FeedSpec

\* Whatever crashes or restarts and however requests of the browser interleave, two deltas of
\* one process reach a connection in the order of their broadcasts (broadcast, Transport.RMQ).
THEOREM BroadcastsStayInOrder == FeedSpec => []InBroadcastOrder
<1>1. ASSUME BrowserInv PROVE InBroadcastOrder
  <2> SUFFICES ASSUME NEW s \in Sockets, NEW p \in Processes,
                      NEW i \in DOMAIN inbox[s], NEW j \in DOMAIN inbox[s],
                      NEW k \in DOMAIN sent[p], NEW l \in DOMAIN sent[p],
                      i < j, inbox[s][i] = sent[p][k], inbox[s][j] = sent[p][l]
               PROVE  k <= l
    BY DEF InBroadcastOrder
  <2>1. <<inbox[s][i], inbox[s][j]>> \in InOrder(p)
    BY <1>1 DEF BrowserInv, Received, Sorted
  <2> QED
    BY <2>1 DEF InOrder
<1> QED
  BY <1>1, BrowserInvariance, PTL

\* A browser that only listens to the room all receives no delta twice, also when the api
\* crashes and the broker delivers again (services/deltas.service.ts:47-51).
THEOREM RoomAllHasNoCopies == FeedSpec => []OnceInRoomAll
<1>1. ASSUME BrowserInv PROVE OnceInRoomAll
  <2> SUFFICES ASSUME NEW s \in Sockets, NEW d \in DOMAIN log, log[d].segment \notin joined[s]
               PROVE  Times(d, inbox[s]) <= 1
    BY DEF OnceInRoomAll
  <2> DEFINE at == {i \in DOMAIN inbox[s] : inbox[s][i] = d}
  <2>1. \A i, j \in at : i = j
    BY <1>1 DEF BrowserInv, TwiceByRoom
  <2>2. at = {} \/ \E i \in at : at = {i}
    BY <2>1
  <2>3. Cardinality(at) <= 1
    <3>1. \A x : Cardinality({x}) = 1
      BY FS_Singleton
    <3>2. Cardinality({}) = 0
      BY FS_EmptySet
    <3> HIDE DEF at
    <3>3. CASE at = {}
      BY <3>2, <3>3
    <3>4. CASE \E i \in at : at = {i}
      <4>1. PICK i \in at : at = {i}
        BY <3>4
      <4>2. Cardinality(at) = 1
        BY <3>1, <4>1
      <4> QED
        BY <4>2
    <3> QED
      BY <2>2, <3>3, <3>4
  <2> QED
    BY <2>3 DEF Times
<1> QED
  BY <1>1, BrowserInvariance, PTL
=============================================================================
