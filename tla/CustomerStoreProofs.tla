------------------------ MODULE CustomerStoreProofs ------------------------
(***************************************************************************)
(* CustomerStore for any customers, requests, chunk size and number of     *)
(* faults: row locks exclude each other, events name the customers that    *)
(* have changed, and counters and profiles agree with what requests have   *)
(* recorded as long as no save was stale.                                  *)
(***************************************************************************)
EXTENDS CustomerStore, FiniteSetTheorems, SequenceTheorems, TLAPS

-----------------------------------------------------------------------------
(* Sums over finite sets *)

\* A nonempty set of subsets of a finite set has a smallest member.
LEMMA SmallestSet ==
    ASSUME NEW S, IsFiniteSet(S), NEW B \in SUBSET SUBSET S, B # {}
    PROVE  \E T \in B : \A U \in B : U \subseteq T => U = T
<1>1. IsWellFoundedOn(StrictSubsetOrdering(S), FiniteSubsetsOf(S))
  BY FS_StrictSubsetOrderingWellFounded
<1>2. FiniteSubsetsOf(S) = SUBSET S
  BY FS_FiniteSubsetsOfFinite
<1>3. \E T \in B : \A U \in B : ~(<<U, T>> \in StrictSubsetOrdering(S))
  BY <1>1, <1>2, WFMin, Zenon
<1>4. PICK T \in B : \A U \in B : ~(<<U, T>> \in StrictSubsetOrdering(S))
  BY <1>3
<1> QED
  BY <1>4 DEF StrictSubsetOrdering

\* g is the sum of f over each subset of S.
IsSum(g, f, S) ==
    /\ g \in [SUBSET S -> Int]
    /\ g[{}] = 0
    /\ \A T \in SUBSET S : \A x \in T : g[T] = f[x] + g[T \ {x}]

\* A sum over a finite set is defined: otherwise there is a smallest set without one.
LEMMA SumExists ==
    ASSUME NEW S, IsFiniteSet(S), NEW f \in [S -> Int]
    PROVE  \E g : IsSum(g, f, S)
<1> DEFINE B == {T \in SUBSET S : ~ \E g : IsSum(g, f, T)}
<1> SUFFICES ASSUME B # {} PROVE FALSE
  OBVIOUS
<1>0. B \in SUBSET SUBSET S
  OBVIOUS
<1>1. PICK T \in B : \A U \in B : U \subseteq T => U = T
  <2> HIDE DEF B
  <2> QED
    BY <1>0, SmallestSet
<1>2. CASE T = {}
  <2> DEFINE g == [s \in SUBSET T |-> 0]
  <2>1. IsSum(g, f, T)
    BY <1>2 DEF IsSum
  <2> QED
    BY <2>1, <1>1
<1>3. CASE T # {}
  <2>1. PICK x \in T : TRUE
    BY <1>3
  <2> DEFINE R == T \ {x}
  <2>2. R \in SUBSET S /\ R \subseteq T /\ R # T /\ f[x] \in Int
    BY <2>1, <1>1
  <2>3. PICK h : IsSum(h, f, R)
    BY <2>2, <1>1
  <2> DEFINE g == [s \in SUBSET T |-> IF x \in s THEN f[x] + h[s \ {x}] ELSE h[s]]
  <2>4. g \in [SUBSET T -> Int]
    BY <2>2, <2>3 DEF IsSum
  <2>5. g[{}] = 0
    BY <2>3 DEF IsSum
  <2>6. ASSUME NEW U \in SUBSET T, NEW y \in U PROVE g[U] = f[y] + g[U \ {y}]
    <3>0. f[y] \in Int
      BY <1>1
    <3>1. CASE y = x
      BY <3>1, <2>3 DEF IsSum
    <3>2. CASE y # x /\ x \in U
      <4>1. U \ {x} \in SUBSET R /\ y \in U \ {x}
        BY <3>2
      <4>2. h[U \ {x}] = f[y] + h[(U \ {x}) \ {y}]
        BY <4>1, <2>3 DEF IsSum
      <4>3. (U \ {x}) \ {y} = (U \ {y}) \ {x}
        OBVIOUS
      <4>4. h[(U \ {x}) \ {y}] \in Int
        BY <4>1, <2>3 DEF IsSum
      <4>5. g[U] = f[x] + h[U \ {x}] /\ g[U \ {y}] = f[x] + h[(U \ {y}) \ {x}]
        BY <3>2
      <4>6. g[U] = f[x] + (f[y] + h[(U \ {x}) \ {y}])
        BY <4>2, <4>5
      <4>7. g[U \ {y}] = f[x] + h[(U \ {x}) \ {y}]
        BY <4>3, <4>5
      <4> HIDE DEF g
      <4> QED
        BY <4>4, <4>6, <4>7, <3>0, <2>2
    <3>3. CASE x \notin U
      <4>1. U \in SUBSET R
        BY <3>3
      <4>2. h[U] = f[y] + h[U \ {y}]
        BY <4>1, <2>3 DEF IsSum
      <4> QED
        BY <4>1, <4>2, <3>3
    <3> QED
      BY <3>1, <3>2, <3>3
  <2>7. IsSum(g, f, T)
    BY <2>4, <2>5, <2>6 DEF IsSum
  <2> QED
    BY <2>7, <1>1
<1> QED
  BY <1>2, <1>3

\* SumIn picks the members in some order; any order gives the same sum.
LEMMA SumInIsSum ==
    ASSUME NEW rows, NEW S, IsFiniteSet(S), \A x \in S : rows[x].amount \in Int,
           NEW g, IsSum(g, [x \in S |-> rows[x].amount], S)
    PROVE  SumIn(rows, S) = g[S]
<1> DEFINE Some(s) == CHOOSE x \in s : TRUE
           Step(h) == [s \in SUBSET S |->
                         IF s = {} THEN 0 ELSE rows[Some(s)].amount + h[s \ {Some(s)}]]
           iter == CHOOSE h : h = Step(h)
<1>1. SumIn(rows, S) = iter[S]
  BY Zenon DEF SumIn, MapThenSumSet, MapThenFoldSet
<1>2. \A T \in SUBSET S : T # {} => Some(T) \in T
  OBVIOUS
<1>3. g = Step(g)
  <2>1. ASSUME NEW s \in SUBSET S
        PROVE  g[s] = IF s = {} THEN 0 ELSE rows[Some(s)].amount + g[s \ {Some(s)}]
    BY <1>2 DEF IsSum
  <2> QED
    BY <2>1 DEF IsSum
<1>4. iter = Step(iter)
  BY <1>3
<1> HIDE DEF iter
<1> DEFINE B == {s \in SUBSET S : iter[s] # g[s]}
<1>5. B \in SUBSET SUBSET S
  OBVIOUS
<1> SUFFICES ASSUME B # {} PROVE FALSE
  BY <1>1, Zenon
<1>6. PICK T \in B : \A U \in B : U \subseteq T => U = T
  <2> HIDE DEF B
  <2> QED
    BY <1>5, SmallestSet
<1>7. T # {}
  <2>1. g[{}] = 0
    BY DEF IsSum
  <2>2. iter[{}] = 0
    BY <1>4
  <2> QED
    BY <1>6, <2>1, <2>2
<1>8. Some(T) \in T
  BY <1>7
<1>9. iter[T] = rows[Some(T)].amount + iter[T \ {Some(T)}]
  BY <1>4, <1>6, <1>7
<1>10. T \ {Some(T)} \notin B /\ T \ {Some(T)} \in SUBSET S
  BY <1>6, <1>8
<1> QED
  BY <1>6, <1>8, <1>9, <1>10 DEF IsSum

\* The sums of all subsets of a set of rows.
LEMMA SumsOf ==
    ASSUME NEW rows, NEW S, IsFiniteSet(S), \A x \in S : rows[x].amount \in Int
    PROVE  \E g : /\ IsSum(g, [x \in S |-> rows[x].amount], S)
                  /\ \A T \in SUBSET S : SumIn(rows, T) = g[T]
<1> DEFINE f == [x \in S |-> rows[x].amount]
<1>1. PICK g : IsSum(g, f, S)
  <2>1. f \in [S -> Int]
    OBVIOUS
  <2> HIDE DEF f
  <2> QED
    BY <2>1, SumExists
<1>2. ASSUME NEW T \in SUBSET S PROVE SumIn(rows, T) = g[T]
  <2> DEFINE h == [U \in SUBSET T |-> g[U]]
  <2>1. IsSum(h, [x \in T |-> rows[x].amount], T)
    <3>1. h \in [SUBSET T -> Int] /\ h[{}] = 0
      BY <1>1 DEF IsSum
    <3>2. ASSUME NEW U \in SUBSET T, NEW x \in U PROVE h[U] = rows[x].amount + h[U \ {x}]
      BY <1>1 DEF IsSum
    <3> QED
      BY <3>1, <3>2 DEF IsSum
  <2>2. IsFiniteSet(T)
    BY FS_Subset
  <2>3. SumIn(rows, T) = h[T]
    <3> HIDE DEF h
    <3> QED
      BY <2>1, <2>2, SumInIsSum
  <2> QED
    BY <2>3
<1> QED
  BY <1>1, <1>2

\* Nothing sums to 0.
LEMMA SumEmpty ==
    ASSUME NEW rows
    PROVE  SumIn(rows, {}) = 0
<1>1. PICK g : /\ IsSum(g, [x \in {} |-> rows[x].amount], {})
               /\ \A T \in SUBSET {} : SumIn(rows, T) = g[T]
  BY SumsOf, FS_EmptySet
<1> QED
  BY <1>1 DEF IsSum

\* The sum over two sets with nothing in common is the sum of theirs.
LEMMA SumUnion ==
    ASSUME NEW rows, NEW S, NEW V, IsFiniteSet(S), IsFiniteSet(V), S \intersect V = {},
           \A x \in S \union V : rows[x].amount \in Int
    PROVE  SumIn(rows, S \union V) = SumIn(rows, S) + SumIn(rows, V)
<1>0. IsFiniteSet(S \union V)
  BY FS_Union
<1>1. PICK g : /\ IsSum(g, [x \in S \union V |-> rows[x].amount], S \union V)
               /\ \A T \in SUBSET (S \union V) : SumIn(rows, T) = g[T]
  BY <1>0, SumsOf
<1> DEFINE B == {T \in SUBSET V : g[S \union T] # g[S] + g[T]}
<1>2. B \in SUBSET SUBSET V
  OBVIOUS
<1> SUFFICES ASSUME B # {} PROVE FALSE
  BY <1>1
<1>3. PICK T \in B : \A U \in B : U \subseteq T => U = T
  <2> HIDE DEF B
  <2> QED
    BY <1>2, SmallestSet
<1>4. \A U \in SUBSET (S \union V) :
        g[U] \in Int /\ \A y \in U : g[U] = rows[y].amount + g[U \ {y}]
  BY <1>1 DEF IsSum
<1>5. T # {}
  <2>1. g[{}] = 0 /\ S \union {} = S /\ g[S] \in Int
    BY <1>1, <1>4 DEF IsSum
  <2>2. g[S \union {}] = g[S] + g[{}]
    BY <2>1
  <2> QED
    BY <1>3, <2>2
<1>6. PICK x \in T : TRUE
  BY <1>5
<1>7. x \in V /\ x \notin S /\ T \ {x} \in SUBSET V /\ T \ {x} \notin B
  BY <1>3, <1>6
<1>8. g[S \union (T \ {x})] = g[S] + g[T \ {x}]
  BY <1>7
<1>9. g[T] = rows[x].amount + g[T \ {x}]
  BY <1>3, <1>4, <1>6
<1>10. g[S \union T] = rows[x].amount + g[S \union (T \ {x})]
  <2>1. (S \union T) \ {x} = S \union (T \ {x}) /\ x \in S \union T /\ S \union T \in SUBSET (S \union V)
    BY <1>3, <1>6, <1>7
  <2>2. g[S \union T] = rows[x].amount + g[(S \union T) \ {x}]
    BY <1>4, <2>1
  <2> QED
    BY <2>1, <2>2
<1>11. /\ rows[x].amount \in Int /\ g[S] \in Int /\ g[T \ {x}] \in Int
       /\ g[S \union T] # g[S] + g[T]
  BY <1>3, <1>4, <1>7
<1> QED
  BY <1>8, <1>9, <1>10, <1>11

\* Rows with the same amounts have the same sum.
LEMMA SumSame ==
    ASSUME NEW rows, NEW others, NEW S, IsFiniteSet(S),
           \A x \in S : rows[x].amount \in Int /\ rows[x].amount = others[x].amount
    PROVE  SumIn(rows, S) = SumIn(others, S)
<1>1. PICK g : /\ IsSum(g, [x \in S |-> rows[x].amount], S)
               /\ \A T \in SUBSET S : SumIn(rows, T) = g[T]
  BY SumsOf
<1>2. [x \in S |-> rows[x].amount] = [x \in S |-> others[x].amount]
  OBVIOUS
<1>3. SumIn(others, S) = g[S]
  BY <1>1, <1>2, SumInIsSum
<1> QED
  BY <1>1, <1>3

\* The rows of an import have all the same amount.
LEMMA SumUniform ==
    ASSUME NEW rows, NEW S, IsFiniteSet(S), NEW a \in Int, \A x \in S : rows[x].amount = a
    PROVE  SumIn(rows, S) = Cardinality(S) * a
<1>1. PICK g : /\ IsSum(g, [x \in S |-> rows[x].amount], S)
               /\ \A T \in SUBSET S : SumIn(rows, T) = g[T]
  BY SumsOf
<1> DEFINE B == {T \in SUBSET S : g[T] # Cardinality(T) * a}
<1>2. B \in SUBSET SUBSET S
  OBVIOUS
<1> SUFFICES ASSUME B # {} PROVE FALSE
  BY <1>1
<1>3. PICK T \in B : \A U \in B : U \subseteq T => U = T
  <2> HIDE DEF B
  <2> QED
    BY <1>2, SmallestSet
<1>4. IsFiniteSet(T)
  BY <1>3, FS_Subset
<1>5. T # {}
  <2>1. g[{}] = 0 /\ Cardinality({}) = 0
    BY <1>1, FS_EmptySet DEF IsSum
  <2>2. g[{}] = Cardinality({}) * a
    BY <2>1
  <2> QED
    BY <1>3, <2>2
<1>6. PICK x \in T : TRUE
  BY <1>5
<1>7. g[T] = a + g[T \ {x}]
  BY <1>1, <1>3, <1>6 DEF IsSum
<1>8. g[T \ {x}] = Cardinality(T \ {x}) * a
  BY <1>3, <1>6
<1>9. Cardinality(T \ {x}) = Cardinality(T) - 1 /\ Cardinality(T) \in Nat
  BY <1>4, <1>6, FS_RemoveElement, FS_CardinalityType
<1>10. g[T] # Cardinality(T) * a
  BY <1>3
<1> HIDE DEF B
<1> DEFINE n == Cardinality(T)
<1> HIDE DEF n
<1>11. n \in Nat /\ g[T] = a + (n - 1) * a /\ g[T] # n * a
  BY <1>7, <1>8, <1>9, <1>10 DEF n
<1>12. \A m \in Nat : a + (m - 1) * a = m * a
  OBVIOUS
<1> QED
  BY <1>11, <1>12

-----------------------------------------------------------------------------
(* Sequences of customers *)

\* The first of a list without duplicates is not among the rest.
LEMMA TailOfDistinct ==
    ASSUME NEW S, NEW s \in Seq(S), s # <<>>, IsInjective(s)
    PROVE  /\ Head(s) \in S /\ Head(s) \in Range(s)
           /\ Tail(s) \in Seq(S) /\ IsInjective(Tail(s))
           /\ Range(Tail(s)) = Range(s) \ {Head(s)}
<1>1. /\ Len(s) \in Nat \ {0} /\ DOMAIN s = 1..Len(s) /\ s[1] = Head(s) /\ s[1] \in S
      /\ Tail(s) \in Seq(S) /\ Len(Tail(s)) = Len(s) - 1
      /\ DOMAIN Tail(s) = 1..(Len(s) - 1)
      /\ \A i \in 1..(Len(s) - 1) : Tail(s)[i] = s[i + 1]
  BY HeadTailProperties, EmptySeq, LenProperties, ElementOfSeq
<1>2. \A i, j \in DOMAIN s : s[i] = s[j] => i = j
  BY DEF IsInjective
<1>3. IsInjective(Tail(s))
  BY <1>1, <1>2 DEF IsInjective
<1>4. ASSUME NEW x \in Range(Tail(s)) PROVE x \in Range(s) \ {Head(s)}
  <2>1. PICK i \in 1..(Len(s) - 1) : x = s[i + 1]
    BY <1>1 DEF Range
  <2>2. i + 1 \in DOMAIN s /\ 1 \in DOMAIN s /\ i + 1 # 1
    BY <1>1
  <2> QED
    BY <1>1, <1>2, <2>1, <2>2 DEF Range
<1>5. ASSUME NEW x \in Range(s) \ {Head(s)} PROVE x \in Range(Tail(s))
  <2>1. PICK i \in 1..Len(s) : x = s[i]
    BY <1>1 DEF Range
  <2>2. i - 1 \in 1..(Len(s) - 1) /\ (i - 1) + 1 = i
    BY <1>1, <1>5, <2>1
  <2> QED
    BY <1>1, <2>1, <2>2 DEF Range
<1>6. Head(s) \in Range(s)
  BY <1>1 DEF Range
<1> QED
  BY <1>1, <1>3, <1>4, <1>5, <1>6

\* The smaller of two numbers, for the last chunk of an import.
LEMMA MinOfTwo ==
    ASSUME NEW a \in Int, NEW b \in Int
    PROVE  Min({a, b}) = IF a <= b THEN a ELSE b
BY DEF Min

\* Row i goes to a place of the list that is at most i.
LEMMA Turn ==
    ASSUME NEW n \in Nat \ {0}, NEW i \in Nat \ {0}
    PROVE  /\ ((i - 1) % n) + 1 \in 1..n
           /\ ((i - 1) % n) + 1 <= i
<1> DEFINE m == (i - 1) % n
           d == (i - 1) \div n
<1>1. m \in 0..(n - 1) /\ d \in Nat /\ i - 1 = d * n + m
  OBVIOUS
<1>2. d * n \in Nat
  BY <1>1
<1> QED
  BY <1>1, <1>2
-----------------------------------------------------------------------------
(* The inductive invariant *)

Entries == {None} \union {j.entry : j \in {i \in Jobs : i.kind = "profile"}}
CustomerRow ==
    [balance : Nat, txCount : Nat, lastTxAt : Int \union {None}, profile : [Keys -> Entries]]

Own(r) == {id \in DOMAIN transactions : id[1] = r}

\* A request that saves the entity of one customer.
Saves(r) == pc[r] = "writing" /\ job[r].kind \in {"transaction", "profile"}
Changes(r) == {col \in Columns : Modified(job[r], entity[r])[col] # entity[r][col]}

Types ==
    /\ customers \in [Customers -> CustomerRow]
    /\ IsFiniteSet(DOMAIN transactions) /\ DOMAIN transactions \subseteq Ids
    /\ transactions \in [DOMAIN transactions -> [customer : Customers, amount : Nat, at : Int]]
    /\ job \in [Requests -> Jobs \union {None}] /\ pc \in [Requests -> Stages]
    /\ entity \in [Requests -> CustomerRow] /\ dirty \in [Requests -> SUBSET Columns]
    /\ todo \in [Requests -> Seq(Customers)] /\ DOMAIN staged = Requests
    /\ \A r \in Requests :
        DOMAIN staged[r] \subseteq Customers /\ staged[r] \in [DOMAIN staged[r] -> CustomerRow]
    /\ updated \in [Requests -> SUBSET Customers] /\ DOMAIN announced = Requests

\* Where a handler of each kind can be.
Stage(r) ==
    /\ job[r] = None <=> pc[r] = "unsent"
    /\ pc[r] \notin {"unsent", "failed"} => Valid(job[r])
    /\ pc[r] = "loaded" => job[r].kind \in {"transaction", "profile"}
    /\ pc[r] = "inserting" => job[r].kind = "bulk"
    /\ pc[r] \in {"shifting", "shifted"} => job[r].kind = "advance"
    /\ pc[r] = "writing" => job[r].kind # "change"

\* The rows a transaction has updated, and those it is going to.
Rows(r) ==
    /\ pc[r] # "writing" => staged[r] = <<>> /\ todo[r] = <<>>
    /\ IsInjective(todo[r]) /\ Range(todo[r]) \intersect DOMAIN staged[r] = {}
    /\ Saves(r) => Range(todo[r]) \union DOMAIN staged[r] =
                       IF dirty[r] = {} THEN {} ELSE {job[r].customer}
    /\ pc[r] = "writing" /\ job[r].kind = "bulk" =>
        Range(todo[r]) \union DOMAIN staged[r] = Range(Dealt(job[r]))
    /\ \A c \in DOMAIN staged[r] : staged[r][c] = NewRow(r, c)

Apart == \A q, r \in Requests : q # r => DOMAIN staged[q] \intersect DOMAIN staged[r] = {}

\* The rows of the table transactions that a request has inserted.
Records(r) ==
    CASE pc[r] # "unsent" /\ job[r].kind = "bulk" /\ Valid(job[r]) ->
           \E n \in 0..job[r].count :
               /\ Own(r) = {r} \X (1..n)
               /\ pc[r] \in {"writing", "committed", "answered", "silent"} => n = job[r].count
               /\ \A i \in 1..n : /\ transactions[<<r, i>>].customer = BulkRow(job[r], i).customer
                                  /\ transactions[<<r, i>>].amount = job[r].amount
      [] r \in Finished /\ job[r].kind = "transaction" ->
           /\ Own(r) = {<<r, 1>>}
           /\ transactions[<<r, 1>>].customer = job[r].customer
           /\ transactions[<<r, 1>>].amount = job[r].amount
      [] OTHER -> Own(r) = {}

\* What a request has changed, and whom it has announced.
Events(r) ==
    /\ r \notin Finished => updated[r] = {}
    /\ r \in Finished /\ job[r].kind = "bulk" => updated[r] = Range(Dealt(job[r]))
    /\ r \in Finished /\ job[r].kind \in {"transaction", "profile"} => updated[r] \subseteq {job[r].customer}
    /\ r \in Finished /\ job[r].kind = "change" => updated[r] = {}
    /\ pc[r] = "answered" => announced[r] = Concerned(r)

\* Unless a save was stale, what a request saves is the row with its change, and a patch
\* that need not be saved is in the profile.
FreshSave(r) ==
    Saves(r) =>
        /\ dirty[r] = Changes(r)
        /\ job[r].customer \in DOMAIN staged[r] => customers[job[r].customer] = entity[r]
        /\ dirty[r] = {} =>
            \E q \in Patches(job[r].customer, job[r].key) \union {r} :
                customers[job[r].customer].profile[job[r].key] = job[q].entry

StoreInv ==
    /\ Types /\ Apart
    /\ \A r \in Requests : Stage(r) /\ Rows(r) /\ Records(r) /\ Events(r)
    /\ ~stale => CountedRows /\ PatchesKept /\ \A r \in Requests : FreshSave(r)

-----------------------------------------------------------------------------
(* What the assumption says of a valid job *)

\* What is known of a request that is not rejected.
LEMMA JobFacts ==
    ASSUME NEW j \in Jobs, Valid(j)
    PROVE  /\ j.kind \in {"transaction", "profile", "advance", "bulk", "change"}
           /\ j.kind \in {"transaction", "profile"} => j.customer \in Customers /\ Named(j) = {j.customer}
           /\ j.kind = "transaction" => j.amount \in Nat /\ j.at \in Int
           /\ j.kind = "profile" => j.key \in Keys /\ j.entry \in Entries
           /\ j.kind = "bulk" =>
               /\ j.order \in Seq(Customers) /\ Len(j.order) \in Nat \ {0} /\ IsInjective(j.order)
               /\ j.count \in Nat /\ j.amount \in Nat
<1>1. j.kind \in {"transaction", "profile"} => j.customer \in Customers /\ Named(j) = {j.customer}
  BY DEF Valid, Named
<1>2. j.kind = "profile" => j.entry \in Entries
  BY DEF Entries
<1>3. ASSUME j.kind = "bulk"
      PROVE  /\ j.order \in Seq(Customers) /\ Len(j.order) \in Nat \ {0} /\ IsInjective(j.order)
             /\ j.count \in Nat /\ j.amount \in Nat
  <2>1. j.order \in Seq(Range(j.order)) /\ j.order # <<>> /\ j.count \in Nat /\ j.amount \in Nat
    BY <1>3, JobAssumption
  <2>2. Range(j.order) \subseteq Customers /\ IsInjective(j.order)
    BY <1>3 DEF Valid, Named
  <2>3. Len(j.order) \in Nat /\ DOMAIN j.order = 1..Len(j.order) /\ (Len(j.order) = 0 => j.order = <<>>)
    BY <2>1, LenProperties, EmptySeq
  <2>4. j.order \in [1..Len(j.order) -> Customers]
    BY <2>1, <2>2, <2>3, SeqDef DEF Range
  <2> QED
    BY <2>1, <2>2, <2>3, <2>4, SeqDef
<1> QED
  BY <1>1, <1>2, <1>3, JobAssumption DEF Valid

\* The customers a bulk import deals rows to.
LEMMA DealtFacts ==
    ASSUME NEW j \in Jobs, Valid(j), j.kind = "bulk"
    PROVE  /\ Dealt(j) \in Seq(Customers) /\ IsInjective(Dealt(j))
           /\ \A i \in 1..j.count : BulkRow(j, i).customer \in Range(Dealt(j)) \intersect Customers
<1> DEFINE n == Len(j.order)
           m == Min({j.count, n})
<1>1. /\ j.order \in Seq(Customers) /\ n \in Nat \ {0} /\ IsInjective(j.order) /\ j.count \in Nat
  BY JobFacts
<1>2. m \in Nat /\ m <= n /\ m <= j.count /\ (m = n \/ m = j.count)
  BY <1>1, MinOfTwo
<1>3. DOMAIN j.order = 1..n /\ \A i \in 1..n : j.order[i] \in Customers
  BY <1>1, LenProperties, ElementOfSeq
<1>4. /\ Dealt(j) \in Seq(Customers) /\ DOMAIN Dealt(j) = 1..m
      /\ \A i \in 1..m : Dealt(j)[i] = j.order[i]
  <2> HIDE DEF m
  <2>1. \A i \in 1..m : j.order[i] \in Customers
    BY <1>2, <1>3
  <2>2. /\ SubSeq(j.order, 1, m) \in Seq(Customers)
        /\ Len(SubSeq(j.order, 1, m)) = IF 1 <= m THEN m - 1 + 1 ELSE 0
        /\ \A i \in 1..(m - 1 + 1) : SubSeq(j.order, 1, m)[i] = j.order[1 + i - 1]
    BY <2>1, <1>2, SubSeqProperties
  <2>3. m - 1 + 1 = m /\ \A i \in 1..m : 1 + i - 1 = i
    BY <1>2
  <2>4. Len(SubSeq(j.order, 1, m)) = m
    BY <2>2, <2>3, <1>2
  <2> QED
    BY <2>2, <2>3, <2>4, LenProperties DEF Dealt, m
<1> HIDE DEF m
<1>5. IsInjective(Dealt(j))
  <2>1. ASSUME NEW a \in 1..m, NEW b \in 1..m, Dealt(j)[a] = Dealt(j)[b] PROVE a = b
    <3>1. a \in 1..n /\ b \in 1..n /\ j.order[a] = j.order[b]
      BY <2>1, <1>1, <1>2, <1>4
    <3> QED
      BY <3>1, <1>1, <1>3 DEF IsInjective
  <2> QED
    BY <2>1, <1>4 DEF IsInjective
<1>6. ASSUME NEW i \in 1..j.count PROVE BulkRow(j, i).customer \in Range(Dealt(j)) \intersect Customers
  <2> DEFINE p == ((i - 1) % n) + 1
  <2>1. i \in Nat \ {0} /\ i <= j.count
    BY <1>1
  <2>2. p \in 1..m /\ p \in 1..n
    <3>1. p \in 1..n /\ p <= i
      BY <2>1, <1>1, Turn
    <3> HIDE DEF p
    <3> QED
      BY <3>1, <2>1, <1>1, <1>2
  <2>3. BulkRow(j, i).customer = j.order[p]
    BY DEF BulkRow
  <2> HIDE DEF p
  <2> QED
    BY <2>2, <2>3, <1>3, <1>4 DEF Range
<1> QED
  BY <1>4, <1>5, <1>6

\* Share counts the rows dealt to a customer.
LEMMA ShareFacts ==
    ASSUME NEW j \in Jobs, Valid(j), j.kind = "bulk", NEW c, NEW r
    PROVE  /\ Share(j, c) \in Nat
           /\ c \notin Range(Dealt(j)) => Share(j, c) = 0
           /\ LET rows == {<<r, i>> : i \in {k \in 1..j.count : BulkRow(j, k).customer = c}}
              IN  IsFiniteSet(rows) /\ Cardinality(rows) = Share(j, c)
<1> DEFINE S == {i \in 1..j.count : BulkRow(j, i).customer = c}
           T == {<<r, i>> : i \in S}
           f == [i \in S |-> <<r, i>>]
<1>1. Share(j, c) = Cardinality(S)
  BY DEF Share, BulkRow
<1>2. j.count \in Nat
  BY JobFacts
<1>3. IsFiniteSet(S)
  <2>1. IsFiniteSet(1..j.count) /\ S \in SUBSET (1..j.count)
    BY <1>2, FS_Interval
  <2> HIDE DEF S
  <2> QED
    BY <2>1, FS_Subset
<1>4. Share(j, c) \in Nat
  BY <1>1, <1>3, FS_CardinalityType
<1>5. ASSUME c \notin Range(Dealt(j)) PROVE Share(j, c) = 0
  <2>1. S = {}
    BY <1>5, DealtFacts
  <2> QED
    BY <2>1, <1>1, FS_EmptySet
<1>6. f \in Bijection(S, T)
  <2> HIDE DEF S
  <2>1. f \in [S -> T] /\ \A a, b \in S : f[a] = f[b] => a = b
    OBVIOUS
  <2>2. \A t \in T : \E s \in S : f[s] = t
    OBVIOUS
  <2> HIDE DEF T, f
  <2> QED
    BY <2>1, <2>2 DEF Bijection, Injection, Surjection, IsInjective
<1>7. IsFiniteSet(T) /\ Cardinality(T) = Cardinality(S)
  <2> HIDE DEF S, T, f
  <2> QED
    BY <1>3, <1>6, FS_Bijection DEF ExistsBijection
<1> QED
  BY <1>1, <1>4, <1>5, <1>7

\* A block of row numbers of a request.
LEMMA Pairs ==
    ASSUME NEW r, NEW a \in Int, NEW b \in Int
    PROVE  /\ IsFiniteSet({r} \X (a..b))
           /\ Cardinality({r} \X (a..b)) = IF a > b THEN 0 ELSE b - a + 1
<1> DEFINE f == [i \in a..b |-> <<r, i>>]
<1>1. f \in [a..b -> {r} \X (a..b)] /\ \A x, y \in a..b : f[x] = f[y] => x = y
  OBVIOUS
<1>2. \A t \in {r} \X (a..b) : \E x \in a..b : f[x] = t
  OBVIOUS
<1> HIDE DEF f
<1>3. f \in Bijection(a..b, {r} \X (a..b))
  BY <1>1, <1>2 DEF Bijection, Injection, Surjection, IsInjective
<1>4. IsFiniteSet(a..b) /\ Cardinality(a..b) = IF a > b THEN 0 ELSE b - a + 1
  BY FS_Interval
<1> QED
  BY <1>3, <1>4, FS_Bijection DEF ExistsBijection

\* The customers that ShiftCustomers scans, in some order.
LEMMA Scans ==
    ASSUME NEW S \in SUBSET Customers, NEW s \in SetToSeqs(S)
    PROVE  s \in Seq(Customers) /\ IsInjective(s)
<1>1. IsFiniteSet(S)
  BY JobAssumption, FS_Subset
<1>2. Cardinality(S) \in Nat /\ s \in [1..Cardinality(S) -> S]
  BY <1>1, FS_CardinalityType DEF SetToSeqs
<1>3. \A a, b \in 1..Cardinality(S) : a # b => s[a] # s[b]
  BY DEF SetToSeqs
<1>4. s \in [1..Cardinality(S) -> Customers]
  BY <1>2
<1> QED
  BY <1>2, <1>3, <1>4, SeqDef DEF IsInjective

\* A product of amounts and counts is not negative.
LEMMA Products ==
    ASSUME NEW a \in Nat, NEW b \in Nat
    PROVE  a * b \in Nat
OBVIOUS

-----------------------------------------------------------------------------
(* What a step leaves alone *)

\* A step of another request, seen from q.
Untouched(q) ==
    /\ job'[q] = job[q] /\ pc'[q] = pc[q] /\ entity'[q] = entity[q] /\ dirty'[q] = dirty[q]
    /\ todo'[q] = todo[q] /\ staged'[q] = staged[q]
    /\ updated'[q] = updated[q] /\ announced'[q] = announced[q]
    /\ \A c \in DOMAIN staged[q] : customers'[c] = customers[c]
    /\ Own(q)' = Own(q)
    /\ \A id \in Own(q) : /\ transactions'[id].customer = transactions[id].customer
                          /\ transactions'[id].amount = transactions[id].amount

\* What was patched stays patched; a field changes only to what a patch says.
PatchStep ==
    \A c \in Customers, k \in Keys :
        /\ \A p \in Patches(c, k) : p \in Patches(c, k)' /\ job'[p] = job[p]
        /\ \/ customers'[c].profile[k] = customers[c].profile[k]
           \/ \E p \in Patches(c, k)' : customers'[c].profile[k] = job'[p].entry

\* What is said of a request stays true while others leave its rows alone.
LEMMA RequestFrame ==
    ASSUME NEW q \in Requests, Untouched(q), Stage(q), Rows(q), Records(q), Events(q)
    PROVE  Stage(q)' /\ Rows(q)' /\ Records(q)' /\ Events(q)'
<1>1. /\ job'[q] = job[q] /\ pc'[q] = pc[q] /\ entity'[q] = entity[q] /\ dirty'[q] = dirty[q]
      /\ todo'[q] = todo[q] /\ staged'[q] = staged[q]
      /\ updated'[q] = updated[q] /\ announced'[q] = announced[q]
  BY DEF Untouched
<1>2. Stage(q)'
  BY <1>1 DEF Stage
<1>3. \A c \in DOMAIN staged[q] : NewRow(q, c)' = NewRow(q, c)
  BY <1>1 DEF NewRow, Untouched
<1>4. Rows(q)'
  BY <1>1, <1>3 DEF Rows, Saves
<1>5. (q \in Finished)' <=> q \in Finished
  BY <1>1 DEF Finished
<1>6. Records(q)'
  <2>1. Own(q)' = Own(q) /\ \A id \in Own(q) : /\ transactions'[id].customer = transactions[id].customer
                                               /\ transactions'[id].amount = transactions[id].amount
    BY DEF Untouched
  <2>2. CASE pc[q] # "unsent" /\ job[q].kind = "bulk" /\ Valid(job[q])
    <3>1. PICK n \in 0..job[q].count :
            /\ Own(q) = {q} \X (1..n)
            /\ pc[q] \in {"writing", "committed", "answered", "silent"} => n = job[q].count
            /\ \A i \in 1..n : /\ transactions[<<q, i>>].customer = BulkRow(job[q], i).customer
                               /\ transactions[<<q, i>>].amount = job[q].amount
      BY <2>2 DEF Records
    <3>2. \A i \in 1..n : /\ transactions'[<<q, i>>].customer = BulkRow(job[q], i).customer
                          /\ transactions'[<<q, i>>].amount = job[q].amount
      BY <3>1, <2>1
    <3> QED
      BY <3>1, <3>2, <2>1, <2>2, <1>1 DEF Records
  <2>3. CASE ~(pc[q] # "unsent" /\ job[q].kind = "bulk" /\ Valid(job[q])) /\ q \in Finished /\ job[q].kind = "transaction"
    BY <2>1, <2>3, <1>1, <1>5 DEF Records
  <2>4. CASE ~(pc[q] # "unsent" /\ job[q].kind = "bulk" /\ Valid(job[q])) /\ ~(q \in Finished /\ job[q].kind = "transaction")
    BY <2>1, <2>4, <1>1, <1>5 DEF Records
  <2> QED
    BY <2>2, <2>3, <2>4
<1>7. Events(q)'
  BY <1>1, <1>5 DEF Events, Concerned
<1> QED
  BY <1>2, <1>4, <1>6, <1>7

\* Recording a transaction changes its counter.
LEMMA CountsItself ==
    ASSUME NEW r \in Requests, entity[r] \in CustomerRow, job[r].kind = "transaction"
    PROVE  "txCount" \in Changes(r)
<1>1. entity[r].txCount \in Nat /\ "txCount" \in DOMAIN entity[r]
  BY DEF CustomerRow
<1>2. Modified(job[r], entity[r])["txCount"] = entity[r]["txCount"] + 1
  BY <1>1 DEF Modified
<1> QED
  BY <1>1, <1>2 DEF Changes, Columns

\* An entity stays fresh as long as nobody changes its row.
LEMMA SaveFrame ==
    ASSUME Types, NEW q \in Requests, Stage(q), Untouched(q), FreshSave(q), PatchStep
    PROVE  FreshSave(q)'
<1> SUFFICES ASSUME Saves(q)' PROVE FreshSave(q)!2'
  BY DEF FreshSave
<1>1. /\ job'[q] = job[q] /\ pc'[q] = pc[q] /\ entity'[q] = entity[q] /\ dirty'[q] = dirty[q]
      /\ staged'[q] = staged[q] /\ \A c \in DOMAIN staged[q] : customers'[c] = customers[c]
  BY DEF Untouched
<1>2. Saves(q)
  BY <1>1 DEF Saves
<1>3. dirty'[q] = Changes(q)'
  BY <1>1, <1>2 DEF FreshSave, Changes
<1>4. job'[q].customer \in DOMAIN staged'[q] => customers'[job'[q].customer] = entity'[q]
  BY <1>1, <1>2 DEF FreshSave
<1>5. ASSUME dirty[q] = {}
      PROVE  \E p \in Patches(job[q].customer, job[q].key)' \union {q} :
                customers'[job[q].customer].profile[job[q].key] = job'[p].entry
  <2>1. entity[q] \in CustomerRow /\ job[q] \in Jobs \union {None}
    BY DEF Types
  <2>2. job[q].kind = "profile"
    BY <2>1, <1>2, <1>5, CountsItself DEF FreshSave, Saves
  <2>3. job[q].customer \in Customers /\ job[q].key \in Keys
    BY <2>1, <2>2, <1>2, JobFacts DEF Stage, Saves
  <2> DEFINE c == job[q].customer
             k == job[q].key
  <2>4. PICK p \in Patches(c, k) \union {q} : customers[c].profile[k] = job[p].entry
    BY <1>2, <1>5 DEF FreshSave
  <2>5. p \in Patches(c, k)' \union {q} /\ job'[p] = job[p]
    BY <2>3, <2>4, <1>1 DEF PatchStep
  <2>6. \/ customers'[c].profile[k] = customers[c].profile[k]
        \/ \E p1 \in Patches(c, k)' : customers'[c].profile[k] = job'[p1].entry
    BY <2>3, <1>1 DEF PatchStep
  <2> HIDE DEF c, k
  <2>7. \E p1 \in Patches(c, k)' \union {q} : customers'[c].profile[k] = job'[p1].entry
    BY <2>4, <2>5, <2>6
  <2> QED
    BY <2>7 DEF c, k
<1> QED
  BY <1>1, <1>3, <1>4, <1>5

\* A step of the requests in rs keeps the invariant when it does so for them.
LEMMA StepOf ==
    ASSUME StoreInv, NEW rs \in SUBSET Requests, Types', Apart',
           \A q \in Requests \ rs : Untouched(q),
           \A r \in rs : Stage(r)' /\ Rows(r)' /\ Records(r)' /\ Events(r)',
           ~stale' => ~stale /\ CountedRows' /\ PatchesKept' /\ PatchStep /\ \A r \in rs : FreshSave(r)'
    PROVE  StoreInv'
<1>1. \A r \in Requests : Stage(r)' /\ Rows(r)' /\ Records(r)' /\ Events(r)'
  BY RequestFrame DEF StoreInv
<1>2. ~stale' => \A r \in Requests : FreshSave(r)'
  BY SaveFrame DEF StoreInv
<1> QED
  BY <1>1, <1>2 DEF StoreInv

\* A step of one request keeps the invariant if it keeps what is said of that request and of the tables.
LEMMA StepOfOne ==
    ASSUME StoreInv, NEW r \in Requests, Types', Apart',
           \A q \in Requests \ {r} : Untouched(q),
           Stage(r)', Rows(r)', Records(r)', Events(r)',
           ~stale' => ~stale /\ CountedRows' /\ PatchesKept' /\ PatchStep /\ FreshSave(r)'
    PROVE  StoreInv'
<1> DEFINE rs == {r}
<1>1. rs \in SUBSET Requests /\ \A q \in Requests \ rs : Untouched(q)
  OBVIOUS
<1>2. \A q \in rs : Stage(q)' /\ Rows(q)' /\ Records(q)' /\ Events(q)'
  OBVIOUS
<1>3. ~stale' => ~stale /\ CountedRows' /\ PatchesKept' /\ PatchStep /\ \A q \in rs : FreshSave(q)'
  OBVIOUS
<1> HIDE DEF rs
<1> QED
  BY <1>1, <1>2, <1>3, StepOf

\* Steps that change no customer and finish nothing but events without a change.
LEMMA QuietStep ==
    ASSUME customers' = customers, transactions' = transactions,
           \A q \in Finished : q \in Finished' /\ job'[q] = job[q],
           \A q \in Finished' : q \notin Finished => job'[q].kind = "change" /\ Own(q) = {}
    PROVE  (CountedRows => CountedRows') /\ (PatchesKept => PatchesKept') /\ PatchStep
<1>1. \A c : RowsOf(c, Finished)' = RowsOf(c, Finished)
  BY DEF RowsOf, Own
<1>2. \A c, k : Patches(c, k)' = Patches(c, k) /\ \A p \in Patches(c, k) : job'[p] = job[p]
  BY DEF Patches
<1>3. CountedRows => CountedRows'
  BY <1>1 DEF CountedRows
<1>4. PatchesKept => PatchesKept'
  BY <1>2 DEF PatchesKept
<1>5. PatchStep
  BY <1>2 DEF PatchStep
<1> QED
  BY <1>3, <1>4, <1>5

-----------------------------------------------------------------------------
(* The steps of a request *)

\* Facts about the empty list.
LEMMA EmptyList ==
    /\ DOMAIN <<>> = {} /\ Range(<<>>) = {} /\ IsInjective(<<>>) /\ \A S : <<>> \in Seq(S)
    /\ \A S : <<>> \in [{} -> S]
<1>1. DOMAIN <<>> = {}
  OBVIOUS
<1> QED
  BY <1>1, EmptySeq DEF Range, IsInjective

\* A request that is not sent has done nothing.
LEMMA Unsent ==
    ASSUME StoreInv, NEW r \in Requests, pc[r] = "unsent"
    PROVE  staged[r] = <<>> /\ todo[r] = <<>> /\ Own(r) = {} /\ updated[r] = {} /\ r \notin Finished
BY DEF StoreInv, Rows, Records, Events, Finished

\* A request arrives and loads its customer, or is rejected.
LEMMA ReceiveStep ==
    ASSUME StoreInv, NEW r \in Requests, NEW j \in Jobs, Receive(r, j)
    PROVE  StoreInv'
<1>1. /\ pc[r] = "unsent" /\ job' = [job EXCEPT ![r] = j]
      /\ UNCHANGED <<customers, transactions, dirty, todo, staged, updated, announced, stale>>
  BY DEF Receive, Load, BeginBulk, BeginAdvance, EmitOnly, Reject
<1>2. PICK p \in {"loaded", "inserting", "shifting", "committed", "failed"} :
        /\ pc' = [pc EXCEPT ![r] = p]
        /\ p = "loaded" => j.kind \in {"transaction", "profile"} /\ Valid(j)
        /\ p = "inserting" => j.kind = "bulk" /\ Valid(j)
        /\ p = "shifting" => j.kind = "advance" /\ Valid(j)
        /\ p = "committed" => j.kind = "change" /\ Valid(j)
        /\ p = "failed" => ~Valid(j)
  BY DEF Receive, Load, BeginBulk, BeginAdvance, EmitOnly, Reject, Valid
<1>3. staged[r] = <<>> /\ todo[r] = <<>> /\ Own(r) = {} /\ updated[r] = {} /\ r \notin Finished
  BY <1>1, Unsent
<1>4. Types /\ Stage(r) /\ Rows(r) /\ Events(r)
  BY DEF StoreInv
<1>5. job'[r] = j /\ pc'[r] = p /\ j # None
  BY <1>1, <1>2, <1>4, JobAssumption DEF Types
<1>6. entity' \in [Requests -> CustomerRow]
  <2>1. CASE Load(r, j)
    <3>1. j.customer \in Customers
      BY <2>1, JobFacts DEF Load
    <3> QED
      BY <2>1, <3>1, <1>4 DEF Load, Types
  <2>2. CASE ~Load(r, j)
    <3>1. entity' = entity
      BY <2>2 DEF Receive, BeginBulk, BeginAdvance, EmitOnly, Reject
    <3> QED
      BY <3>1, <1>4 DEF Types
  <2> QED
    BY <2>1, <2>2
<1>7. Types'
  <2>1. job' \in [Requests -> Jobs \union {None}] /\ pc' \in [Requests -> Stages]
    BY <1>1, <1>2, <1>4 DEF Types, Stages
  <2> QED
    BY <1>1, <1>4, <1>6, <2>1 DEF Types
<1>8. Apart'
  BY <1>1 DEF StoreInv, Apart
<1>9. ASSUME NEW q \in Requests \ {r} PROVE Untouched(q)
  <2>1. entity'[q] = entity[q]
    BY <1>4 DEF Receive, Load, BeginBulk, BeginAdvance, EmitOnly, Reject, Types
  <2>2. job'[q] = job[q] /\ pc'[q] = pc[q]
    BY <1>1, <1>2, <1>4 DEF Types
  <2> QED
    BY <2>1, <2>2, <1>1 DEF Untouched, Own
<1>10. Stage(r)'
  BY <1>2, <1>5 DEF Stage
<1>11. Rows(r)'
  BY <1>1, <1>2, <1>3, <1>5, EmptyList DEF Rows, Saves
<1>12. (r \in Finished)' <=> p = "committed"
  BY <1>2, <1>5 DEF Finished
<1>13. Records(r)'
  <2>1. Own(r)' = {}
    BY <1>1, <1>3 DEF Own
  <2>2. CASE j.kind = "bulk" /\ Valid(j)
    <3>1. p = "inserting"
      BY <2>2, <1>2
    <3>2. j.count \in Nat
      BY <2>2, JobFacts
    <3>3. 0 \in 0..j.count /\ {r} \X (1..0) = {} /\ \A i \in 1..0 : FALSE
      BY <3>2
    <3> QED
      BY <2>1, <2>2, <3>1, <3>3, <1>5 DEF Records
  <2>3. CASE ~(j.kind = "bulk" /\ Valid(j))
    BY <2>1, <2>3, <1>2, <1>5, <1>12 DEF Records
  <2> QED
    BY <2>2, <2>3
<1>14. Events(r)'
  BY <1>1, <1>2, <1>3, <1>5, <1>12 DEF Events
<1>15. /\ CountedRows => CountedRows'
       /\ PatchesKept => PatchesKept'
       /\ PatchStep
  <2>1. ASSUME NEW q \in Finished PROVE q \in Finished' /\ job'[q] = job[q]
    BY <1>3, <1>9 DEF Untouched, Finished
  <2>2. ASSUME NEW q \in Finished', q \notin Finished PROVE job'[q].kind = "change" /\ Own(q) = {}
    <3>1. q = r
      BY <2>2, <1>9 DEF Untouched, Finished
    <3> QED
      BY <3>1, <2>2, <1>2, <1>3, <1>5, <1>12
  <2> QED
    BY <2>1, <2>2, <1>1, QuietStep
<1>16. FreshSave(r)'
  BY <1>2, <1>5 DEF FreshSave, Saves
<1>17. ~stale' => ~stale /\ CountedRows' /\ PatchesKept' /\ PatchStep /\ FreshSave(r)'
  BY <1>1, <1>15, <1>16 DEF StoreInv
<1> QED
  BY <1>7, <1>8, <1>9, <1>10, <1>11, <1>13, <1>14, <1>17, StepOfOne

\* A request that goes on without changing a row in the tables, finishing or giving up a lock.
LEMMA InnerStep ==
    ASSUME StoreInv, NEW r \in Requests,
           UNCHANGED <<customers, transactions, job, entity, updated, announced>>,
           pc' \in [Requests -> Stages], dirty' \in [Requests -> SUBSET Columns],
           todo' \in [Requests -> Seq(Customers)], DOMAIN staged' = Requests,
           DOMAIN staged'[r] \subseteq Customers, staged'[r] \in [DOMAIN staged'[r] -> CustomerRow],
           \A q \in Requests \ {r} : /\ pc'[q] = pc[q] /\ dirty'[q] = dirty[q] /\ todo'[q] = todo[q]
                                     /\ staged'[q] = staged[q]
                                     /\ DOMAIN staged[q] \intersect DOMAIN staged'[r] = {},
           pc[r] # "unsent", pc'[r] \notin {"unsent", "failed"}, r \notin Finished, r \notin Finished',
           Stage(r)', Rows(r)', Records(r)',
           ~stale' => ~stale /\ FreshSave(r)'
    PROVE  StoreInv'
<1>1. Types
  BY DEF StoreInv
<1>2. Types'
  BY <1>1 DEF Types
<1>3. Apart'
  BY DEF StoreInv, Apart
<1>4. \A q \in Requests \ {r} : Untouched(q)
  BY DEF Untouched, Own
<1>5. Events(r)'
  <2>1. updated[r] = {} /\ pc'[r] # "answered"
    BY DEF StoreInv, Events, Finished
  <2> QED
    BY <2>1 DEF Events
<1>6. Finished' = Finished
  BY <1>4 DEF Untouched, Finished
<1>7. (CountedRows => CountedRows') /\ (PatchesKept => PatchesKept') /\ PatchStep
  BY <1>6, QuietStep
<1>8. ~stale' => ~stale /\ CountedRows' /\ PatchesKept' /\ PatchStep /\ FreshSave(r)'
  BY <1>7 DEF StoreInv
<1> QED
  BY <1>2, <1>3, <1>4, <1>5, <1>8, StepOfOne

\* Where the handler of r is, its job is a valid one.
LEMMA AtWork ==
    ASSUME StoreInv, NEW r \in Requests, pc[r] \notin {"unsent", "failed"}
    PROVE  job[r] \in Jobs /\ job[r] # None /\ Valid(job[r])
BY JobAssumption DEF StoreInv, Types, Stage

\* The fields of a row that a handler changes.
LEMMA ModifiedRow ==
    ASSUME NEW j \in Jobs, Valid(j), j.kind \in {"transaction", "profile"}, NEW row \in CustomerRow
    PROVE  /\ Modified(j, row) \in CustomerRow
           /\ j.kind = "transaction" => /\ Modified(j, row).balance = row.balance + j.amount
                                        /\ Modified(j, row).txCount = row.txCount + 1
                                        /\ Modified(j, row).profile = row.profile
           /\ j.kind = "profile" => /\ Modified(j, row).balance = row.balance
                                    /\ Modified(j, row).txCount = row.txCount
                                    /\ Modified(j, row).profile = [row.profile EXCEPT ![j.key] = j.entry]
<1>1. /\ row.balance \in Nat /\ row.txCount \in Nat /\ row.lastTxAt \in Int \union {None}
      /\ row.profile \in [Keys -> Entries]
  BY DEF CustomerRow
<1>2. CASE j.kind = "transaction"
  <2>1. j.amount \in Nat /\ j.at \in Int
    BY <1>2, JobFacts
  <2>2. Later(row.lastTxAt, j.at) \in Int \union {None}
    BY <2>1, <1>1 DEF Later
  <2>3. Modified(j, row) = [row EXCEPT !.balance = row.balance + j.amount,
                                       !.txCount = row.txCount + 1,
                                       !.lastTxAt = Later(row.lastTxAt, j.at)]
    BY <1>2 DEF Modified
  <2>4. row.balance + j.amount \in Nat /\ row.txCount + 1 \in Nat
    BY <2>1, <1>1
  <2> QED
    BY <2>2, <2>3, <2>4, <1>2 DEF CustomerRow
<1>3. CASE j.kind = "profile"
  <2>1. j.key \in Keys /\ j.entry \in Entries
    BY <1>3, JobFacts
  <2>2. Modified(j, row) = [row EXCEPT !.profile = [row.profile EXCEPT ![j.key] = j.entry]]
    BY <1>3 DEF Modified
  <2>3. [row.profile EXCEPT ![j.key] = j.entry] \in [Keys -> Entries]
    BY <2>1, <1>1
  <2> QED
    BY <2>2, <2>3, <1>3 DEF CustomerRow
<1> QED
  BY <1>2, <1>3

\* save() compares the entity with its row, and has that row to write if they differ.
LEMMA SaveStep ==
    ASSUME StoreInv, NEW r \in Requests, Save(r)
    PROVE  StoreInv'
<1> DEFINE j == job[r]
           c == job[r].customer
           differing == {col \in Columns : Modified(j, entity[r])[col] # customers[c][col]}
<1>1. /\ pc[r] = "loaded" /\ dirty' = [dirty EXCEPT ![r] = differing]
      /\ todo' = [todo EXCEPT ![r] = IF differing = {} THEN <<>> ELSE <<c>>]
      /\ pc' = [pc EXCEPT ![r] = "writing"]
      /\ stale' = (stale \/ customers[c] # entity[r])
      /\ UNCHANGED <<customers, transactions, job, entity, staged, seen, updated, announced, faults>>
  BY DEF Save
<1>2. Types /\ Stage(r) /\ Rows(r) /\ Records(r)
  BY DEF StoreInv
<1>3. j \in Jobs /\ Valid(j) /\ j.kind \in {"transaction", "profile"} /\ c \in Customers
  BY <1>1, <1>2, AtWork, JobFacts DEF Stage
<1>4. /\ dirty'[r] = differing /\ pc'[r] = "writing"
      /\ todo'[r] = IF differing = {} THEN <<>> ELSE <<c>>
  BY <1>1, <1>2 DEF Types
<1>5. /\ pc' \in [Requests -> Stages] /\ dirty' \in [Requests -> SUBSET Columns]
      /\ todo' \in [Requests -> Seq(Customers)]
  BY <1>1, <1>2, <1>3, EmptyList DEF Types, Stages
<1>6. \A q \in Requests \ {r} : /\ pc'[q] = pc[q] /\ dirty'[q] = dirty[q] /\ todo'[q] = todo[q]
                                /\ staged'[q] = staged[q]
  BY <1>1, <1>2 DEF Types
<1>7. staged'[r] = <<>> /\ DOMAIN staged' = Requests
  BY <1>1, <1>2 DEF Types, Rows
<1>8. Stage(r)'
  BY <1>1, <1>2, <1>3, <1>4 DEF Stage
<1>9. Rows(r)'
  <2> HIDE DEF differing
  <2>1. DOMAIN <<c>> = {1} /\ Range(<<c>>) = {c} /\ IsInjective(<<c>>)
    BY DEF Range, IsInjective
  <2>2. IsInjective(todo'[r]) /\ Range(todo'[r]) = IF differing = {} THEN {} ELSE {c}
    BY <2>1, <1>4, EmptyList
  <2>3. DOMAIN staged'[r] = {}
    BY <1>7, EmptyList
  <2> QED
    BY <2>2, <2>3, <1>1, <1>3, <1>4 DEF Rows, Saves
<1>10. r \notin Finished /\ r \notin Finished'
  BY <1>1, <1>4 DEF Finished
<1>11. Records(r)'
  BY <1>1, <1>2, <1>3, <1>4, <1>10 DEF Records, Own
<1>12. ASSUME ~stale' PROVE ~stale /\ FreshSave(r)'
  <2>1. ~stale /\ customers[c] = entity[r]
    BY <1>1, <1>12
  <2>2. dirty'[r] = Changes(r)'
    BY <2>1, <1>1, <1>4 DEF Changes
  <2>3. entity[r] \in CustomerRow
    BY <1>2 DEF Types
  <2>4. ASSUME dirty'[r] = {} PROVE customers[c].profile[j.key] = j.entry
    <3>1. j.kind = "profile" /\ j.key \in Keys
      BY <2>1, <2>3, <2>4, <1>3, <1>4, CountsItself, JobFacts DEF Changes
    <3>2. Modified(j, entity[r]).profile = [entity[r].profile EXCEPT ![j.key] = j.entry]
      BY <3>1, <2>3, <1>3, ModifiedRow
    <3>3. Modified(j, entity[r]).profile = customers[c].profile
      BY <2>4, <1>4 DEF Columns
    <3>4. entity[r].profile \in [Keys -> Entries]
      BY <2>3 DEF CustomerRow
    <3> QED
      BY <3>1, <3>2, <3>3, <3>4
  <2> QED
    BY <2>1, <2>2, <2>4, <1>1, <1>7, EmptyList DEF FreshSave
<1>13. UNCHANGED <<customers, transactions, job, entity, updated, announced>>
  BY <1>1
<1>14. /\ DOMAIN staged'[r] \subseteq Customers /\ staged'[r] \in [DOMAIN staged'[r] -> CustomerRow]
       /\ \A q \in Requests \ {r} : DOMAIN staged[q] \intersect DOMAIN staged'[r] = {}
       /\ pc[r] # "unsent" /\ pc'[r] \notin {"unsent", "failed"}
  BY <1>1, <1>4, <1>7, EmptyList
<1> HIDE DEF j, c, differing
<1> QED
  BY <1>5, <1>6, <1>7, <1>8, <1>9, <1>10, <1>11, <1>12, <1>13, <1>14, InnerStep

\* The rows that a request has inserted are counted right.
LEMMA InsertedRows ==
    ASSUME StoreInv, NEW r \in Requests, pc[r] = "inserting"
    PROVE  /\ job[r].kind = "bulk" /\ Inserted(r) \in 0..job[r].count
           /\ Own(r) = {r} \X (1..Inserted(r))
           /\ \A i \in 1..Inserted(r) : /\ transactions[<<r, i>>].customer = BulkRow(job[r], i).customer
                                        /\ transactions[<<r, i>>].amount = job[r].amount
<1>1. job[r].kind = "bulk" /\ Valid(job[r]) /\ job[r] \in Jobs /\ Records(r)
  BY AtWork DEF StoreInv, Stage
<1>2. PICK n \in 0..job[r].count :
        /\ Own(r) = {r} \X (1..n)
        /\ \A i \in 1..n : /\ transactions[<<r, i>>].customer = BulkRow(job[r], i).customer
                           /\ transactions[<<r, i>>].amount = job[r].amount
  BY <1>1 DEF Records
<1>3. job[r].count \in Nat
  BY <1>1, JobFacts
<1>4. Cardinality({r} \X (1..n)) = n
  <2>1. 1 \in Int /\ n \in Int /\ n >= 0
    BY <1>3
  <2>2. Cardinality({r} \X (1..n)) = IF 1 > n THEN 0 ELSE n - 1 + 1
    BY <2>1, Pairs
  <2> QED
    BY <2>1, <2>2
<1>5. Inserted(r) = n
  BY <1>2, <1>4 DEF Inserted, Own
<1> QED
  BY <1>1, <1>2, <1>5

\* The last transaction of an import lists the customers it is going to update.
LEMMA BeginAggregatesStep ==
    ASSUME StoreInv, NEW r \in Requests, BeginAggregates(r)
    PROVE  StoreInv'
<1>1. /\ pc[r] = "inserting" /\ Inserted(r) = job[r].count
      /\ todo' = [todo EXCEPT ![r] = Dealt(job[r])] /\ pc' = [pc EXCEPT ![r] = "writing"]
      /\ UNCHANGED <<customers, transactions, job, entity, dirty, staged, updated, announced, stale>>
  BY DEF BeginAggregates
<1>2. Types /\ Stage(r) /\ Rows(r)
  BY DEF StoreInv
<1>3. job[r].kind = "bulk" /\ Valid(job[r]) /\ job[r] \in Jobs
  BY <1>1, AtWork, InsertedRows
<1>4. Dealt(job[r]) \in Seq(Customers) /\ IsInjective(Dealt(job[r]))
  BY <1>3, DealtFacts
<1>5. pc'[r] = "writing" /\ todo'[r] = Dealt(job[r])
  BY <1>1, <1>2 DEF Types
<1>6. pc' \in [Requests -> Stages] /\ todo' \in [Requests -> Seq(Customers)]
  BY <1>1, <1>2, <1>4 DEF Types, Stages
<1>7. \A q \in Requests \ {r} : pc'[q] = pc[q] /\ todo'[q] = todo[q]
  BY <1>1, <1>2 DEF Types
<1>8. staged'[r] = <<>>
  BY <1>1, <1>2 DEF Rows
<1>9. Stage(r)'
  BY <1>1, <1>2, <1>3, <1>5 DEF Stage
<1>10. Rows(r)'
  BY <1>1, <1>3, <1>4, <1>5, <1>8, EmptyList DEF Rows, Saves
<1>11. Records(r)'
  <2>1. /\ Own(r) = {r} \X (1..job[r].count) /\ job[r].count \in 0..job[r].count
        /\ \A i \in 1..job[r].count : /\ transactions[<<r, i>>].customer = BulkRow(job[r], i).customer
                                      /\ transactions[<<r, i>>].amount = job[r].amount
    BY <1>1, InsertedRows
  <2>2. Own(r)' = Own(r)
    BY <1>1 DEF Own
  <2> QED
    BY <2>1, <2>2, <1>1, <1>3, <1>5 DEF Records
<1>12. r \notin Finished /\ r \notin Finished' /\ FreshSave(r)'
  BY <1>1, <1>3, <1>5 DEF Finished, FreshSave, Saves
<1> QED
  BY <1>1, <1>2, <1>5, <1>6, <1>7, <1>8, <1>9, <1>10, <1>11, <1>12, EmptyList, InnerStep DEF Types

\* The two statements of an advance: amounts and customers of the transactions stay.
LEMMA ShiftStep ==
    ASSUME StoreInv, NEW r \in Requests, ShiftTransactions(r) \/ ShiftCustomers(r)
    PROVE  StoreInv'
<1>1. PICK order \in Seq(Customers) :
        /\ todo' = [todo EXCEPT ![r] = order] /\ IsInjective(order)
        /\ pc[r] \in {"shifting", "shifted"}
        /\ \/ pc' = [pc EXCEPT ![r] = "shifted"] /\ order = <<>>
           \/ pc' = [pc EXCEPT ![r] = "writing"]
  <2>1. CASE ShiftTransactions(r)
    <3>1. todo[r] = <<>> /\ todo \in [Requests -> Seq(Customers)]
      BY <2>1 DEF ShiftTransactions, StoreInv, Rows, Types
    <3>2. todo = [todo EXCEPT ![r] = <<>>]
      BY <3>1
    <3> QED
      BY <3>2, <2>1, EmptyList DEF ShiftTransactions
  <2>2. CASE ShiftCustomers(r)
    <3>1. PICK order \in SetToSeqs({c \in Customers : customers[c].lastTxAt # None}) :
            todo' = [todo EXCEPT ![r] = order]
      BY <2>2 DEF ShiftCustomers
    <3>2. order \in Seq(Customers) /\ IsInjective(order)
      BY <3>1, Scans
    <3> QED
      BY <3>1, <3>2, <2>2 DEF ShiftCustomers
  <2> QED
    BY <2>1, <2>2
<1>2. UNCHANGED <<customers, transactions, job, entity, dirty, staged, updated, announced, stale>>
  BY DEF ShiftTransactions, ShiftCustomers
<1>3. Types /\ Stage(r) /\ Rows(r) /\ Records(r)
  BY DEF StoreInv
<1>4. job[r].kind = "advance" /\ Valid(job[r]) /\ job[r] \in Jobs
  BY <1>1, <1>3, AtWork DEF Stage
<1>5. todo'[r] = order /\ pc'[r] \in {"shifted", "writing"} /\ (pc'[r] = "shifted" => order = <<>>)
  BY <1>1, <1>3 DEF Types
<1>6. pc' \in [Requests -> Stages] /\ todo' \in [Requests -> Seq(Customers)]
  BY <1>1, <1>3 DEF Types, Stages
<1>7. \A q \in Requests \ {r} : pc'[q] = pc[q] /\ todo'[q] = todo[q]
  BY <1>1, <1>3 DEF Types
<1>8. staged'[r] = <<>>
  BY <1>1, <1>2, <1>3 DEF Rows
<1>9. Stage(r)'
  BY <1>1, <1>2, <1>3, <1>4, <1>5 DEF Stage
<1>10. Rows(r)'
  BY <1>1, <1>2, <1>4, <1>5, <1>8, EmptyList DEF Rows, Saves
<1>11. r \notin Finished /\ r \notin Finished' /\ FreshSave(r)'
  BY <1>1, <1>2, <1>4, <1>5 DEF Finished, FreshSave, Saves
<1>12. Records(r)'
  BY <1>1, <1>2, <1>3, <1>4, <1>5, <1>11 DEF Records, Own
<1> QED
  BY <1>1, <1>2, <1>3, <1>5, <1>6, <1>7, <1>8, <1>9, <1>10, <1>11, <1>12, EmptyList, InnerStep DEF Types

\* The chunks of an import commit one by one, before anything is counted.
LEMMA InsertChunkStep ==
    ASSUME StoreInv, NEW r \in Requests, InsertChunk(r)
    PROVE  StoreInv'
<1> DEFINE j == job[r]
           n == Inserted(r)
           to == Min({n + ChunkSize, j.count})
<1>1. /\ pc[r] = "inserting" /\ n + 1 <= j.count
      /\ transactions' = [id \in DOMAIN transactions \union {r} \X ((n + 1)..to) |->
           IF id \in DOMAIN transactions THEN transactions[id] ELSE BulkRow(j, id[2])]
      /\ UNCHANGED <<customers, job, pc, entity, dirty, todo, staged, updated, announced, stale>>
  BY DEF InsertChunk
<1>2. Types /\ Stage(r) /\ Rows(r) /\ Events(r)
  BY DEF StoreInv
<1>3. j \in Jobs /\ Valid(j) /\ j.kind = "bulk" /\ j.count \in Nat /\ j.amount \in Nat
  BY <1>1, AtWork, InsertedRows, JobFacts
<1>4. /\ n \in Nat /\ Own(r) = {r} \X (1..n)
      /\ \A i \in 1..n : /\ transactions[<<r, i>>].customer = BulkRow(j, i).customer
                         /\ transactions[<<r, i>>].amount = j.amount
  BY <1>1, <1>3, InsertedRows
<1> HIDE DEF n
<1>5. to \in Nat /\ n < to /\ to <= j.count
  BY <1>1, <1>3, <1>4, MinOfTwo, ChunkAssumption
<1> HIDE DEF to
<1>6. \A i \in (n + 1)..to : BulkRow(j, i) \in [customer : Customers, amount : Nat, at : Int]
                             /\ BulkRow(j, i).amount = j.amount
  <2>1. \A i \in (n + 1)..to : i \in 1..j.count
    BY <1>3, <1>4, <1>5
  <2>2. \A i \in (n + 1)..to : BulkRow(j, i).customer \in Customers
    BY <2>1, <1>3, DealtFacts
  <2> QED
    BY <2>2, <1>3 DEF BulkRow
<1>7. \A i \in (n + 1)..to : <<r, i>> \notin DOMAIN transactions
  BY <1>4 DEF Own
<1>8. DOMAIN transactions' = DOMAIN transactions \union ({r} \X ((n + 1)..to))
  BY <1>1
<1>9. \A i \in (n + 1)..to : transactions'[<<r, i>>] = BulkRow(j, i)
  <2>1. ASSUME NEW i \in (n + 1)..to PROVE <<r, i>> \in {r} \X ((n + 1)..to) /\ <<r, i>>[2] = i
    OBVIOUS
  <2> QED
    BY <2>1, <1>1, <1>7
<1>10. \A id \in DOMAIN transactions : transactions'[id] = transactions[id]
  BY <1>1
<1> HIDE DEF j
<1>11. Types'
  <2>1. IsFiniteSet({r} \X ((n + 1)..to))
    <3>1. n + 1 \in Int /\ to \in Int
      BY <1>4, <1>5
    <3> QED
      BY <3>1, Pairs
  <2>2. IsFiniteSet(DOMAIN transactions')
    <3>1. IsFiniteSet(DOMAIN transactions)
      BY <1>2 DEF Types
    <3>2. IsFiniteSet(DOMAIN transactions \union ({r} \X ((n + 1)..to)))
      BY <3>1, <2>1, FS_Union
    <3> QED
      BY <3>2, <1>8
  <2>3. DOMAIN transactions' \subseteq Ids
    BY <1>2, <1>4, <1>8 DEF Types, Ids
  <2>4. transactions' = [id \in DOMAIN transactions' |-> transactions'[id]]
    BY <1>1, <1>8
  <2>5. \A id \in DOMAIN transactions' : transactions'[id] \in [customer : Customers, amount : Nat, at : Int]
    BY <1>2, <1>6, <1>8, <1>9, <1>10 DEF Types
  <2>6. transactions' \in [DOMAIN transactions' -> [customer : Customers, amount : Nat, at : Int]]
    BY <2>4, <2>5
  <2> QED
    BY <2>2, <2>3, <2>6, <1>1, <1>2 DEF Types
<1>12. Apart'
  BY <1>1 DEF StoreInv, Apart
<1>13. \A q \in Requests \ {r} : Untouched(q)
  BY <1>1, <1>8, <1>10 DEF Untouched, Own
<1>14. Stage(r)' /\ Events(r)'
  BY <1>1, <1>2 DEF Stage, Events, Finished, Concerned
<1>15. Rows(r)'
  <2>1. \A c : NewRow(r, c)' = NewRow(r, c)
    BY <1>1 DEF NewRow
  <2> QED
    BY <2>1, <1>1, <1>2 DEF Rows, Saves
<1>16. Records(r)'
  <2>1. Own(r)' = {r} \X (1..to)
    <3>1. Own(r)' = ({r} \X (1..n)) \union ({r} \X ((n + 1)..to))
      BY <1>4, <1>8 DEF Own
    <3>2. 1..to = (1..n) \union ((n + 1)..to)
      BY <1>4, <1>5
    <3> QED
      BY <3>1, <3>2
  <2>2. ASSUME NEW i \in 1..to
        PROVE  /\ transactions'[<<r, i>>].customer = BulkRow(j, i).customer
               /\ transactions'[<<r, i>>].amount = j.amount
    <3>1. CASE i \in 1..n
      <4>1. <<r, i>> \in DOMAIN transactions
        BY <3>1, <1>4 DEF Own
      <4> QED
        BY <4>1, <3>1, <1>4, <1>10
    <3>2. CASE i \notin 1..n
      <4>1. i \in (n + 1)..to
        BY <3>2, <1>4, <1>5
      <4> QED
        BY <4>1, <1>6, <1>9
    <3> QED
      BY <3>1, <3>2
  <2>3. to \in 0..j.count /\ pc'[r] = "inserting" /\ job'[r] = j
    BY <1>1, <1>3, <1>5 DEF j
  <2> QED
    BY <2>1, <2>2, <2>3, <1>3 DEF Records
<1>17. r \notin Finished /\ Finished' = Finished /\ FreshSave(r)'
  BY <1>1 DEF Finished, FreshSave, Saves
<1>18. \A c : RowsOf(c, Finished)' = RowsOf(c, Finished)
  <2>1. ASSUME NEW c, NEW id PROVE id \in RowsOf(c, Finished)' <=> id \in RowsOf(c, Finished)
    BY <1>8, <1>10, <1>17 DEF RowsOf
  <2> QED
    BY <2>1
<1>19. CountedRows => CountedRows'
  <2>1. ASSUME NEW c \in Customers
        PROVE  SumIn(transactions', RowsOf(c, Finished)) = SumIn(transactions, RowsOf(c, Finished))
    <3>1. /\ IsFiniteSet(RowsOf(c, Finished)) /\ RowsOf(c, Finished) \subseteq DOMAIN transactions
      <4>1. IsFiniteSet(DOMAIN transactions) /\ RowsOf(c, Finished) \in SUBSET DOMAIN transactions
        BY <1>2 DEF Types, RowsOf
      <4> QED
        BY <4>1, FS_Subset
    <3>2. \A id \in RowsOf(c, Finished) : /\ transactions'[id].amount \in Int
                                          /\ transactions'[id].amount = transactions[id].amount
      BY <3>1, <1>2, <1>10 DEF Types
    <3> QED
      BY <3>1, <3>2, SumSame
  <2> QED
    BY <2>1, <1>1, <1>18 DEF CountedRows
<1>20. PatchStep /\ (PatchesKept => PatchesKept')
  BY <1>1, <1>17 DEF PatchStep, PatchesKept, Patches
<1>21. ~stale' => ~stale /\ CountedRows' /\ PatchesKept' /\ PatchStep /\ FreshSave(r)'
  BY <1>1, <1>17, <1>19, <1>20 DEF StoreInv
<1> QED
  BY <1>11, <1>12, <1>13, <1>14, <1>15, <1>16, <1>21, StepOfOne

\* What the UPDATE of a request makes of a row.
LEMMA UpdatedRow ==
    ASSUME StoreInv, NEW r \in Requests, pc[r] = "writing", NEW c \in Customers
    PROVE  /\ NewRow(r, c) \in CustomerRow
           /\ job[r].kind = "bulk" =>
               /\ NewRow(r, c).balance = customers[c].balance + Share(job[r], c) * job[r].amount
               /\ NewRow(r, c).txCount = customers[c].txCount + Share(job[r], c)
               /\ NewRow(r, c).profile = customers[c].profile
           /\ job[r].kind = "advance" =>
               /\ NewRow(r, c).balance = customers[c].balance
               /\ NewRow(r, c).txCount = customers[c].txCount
               /\ NewRow(r, c).profile = customers[c].profile
           /\ job[r].kind \in {"transaction", "profile"} /\ dirty[r] = Changes(r) /\ customers[c] = entity[r] =>
               NewRow(r, c) = Modified(job[r], entity[r])
<1> DEFINE j == job[r]
           row == customers[c]
           m == Modified(j, entity[r])
<1>1. j \in Jobs /\ Valid(j) /\ j.kind # "change" /\ row \in CustomerRow /\ entity[r] \in CustomerRow
  BY AtWork DEF StoreInv, Types, Stage
<1>2. /\ row.balance \in Nat /\ row.txCount \in Nat /\ row.lastTxAt \in Int \union {None}
      /\ row.profile \in [Keys -> Entries]
  BY <1>1 DEF CustomerRow
<1>3. CASE j.kind = "bulk"
  <2>1. j.amount \in Nat /\ Share(j, c) \in Nat /\ Share(j, c) * j.amount \in Nat
    BY <1>1, <1>3, JobFacts, ShareFacts, Products
  <2> DEFINE sum == Share(j, c) * j.amount
             share == Share(j, c)
  <2>2. NewRow(r, c) = [row EXCEPT !.balance = row.balance + sum, !.txCount = row.txCount + share,
                                   !.lastTxAt = Later(row.lastTxAt, 0)]
    BY <1>3 DEF NewRow, Aggregated
  <2>3. Later(row.lastTxAt, 0) \in Int \union {None}
    BY <1>2 DEF Later
  <2> HIDE DEF sum, share
  <2>4. row.balance + sum \in Nat /\ row.txCount + share \in Nat
    BY <2>1, <1>2 DEF sum, share
  <2>5. /\ NewRow(r, c) \in CustomerRow
        /\ NewRow(r, c).balance = row.balance + sum /\ NewRow(r, c).txCount = row.txCount + share
        /\ NewRow(r, c).profile = row.profile
    <3> HIDE DEF row
    <3> QED
      BY <2>2, <2>3, <2>4, <1>1 DEF CustomerRow
  <2> QED
    BY <2>5, <1>3 DEF sum, share
<1>4. CASE j.kind = "advance"
  <2>1. NewRow(r, c) = [row EXCEPT !.lastTxAt = Shift(row.lastTxAt, j.days)]
    BY <1>4 DEF NewRow
  <2>2. j.days \in Nat
    BY <1>1, <1>4, JobAssumption
  <2>3. Shift(row.lastTxAt, j.days) \in Int \union {None}
    BY <2>2, <1>2 DEF Shift
  <2>4. /\ NewRow(r, c) \in CustomerRow
        /\ NewRow(r, c).balance = row.balance /\ NewRow(r, c).txCount = row.txCount
        /\ NewRow(r, c).profile = row.profile
    <3> HIDE DEF row
    <3> QED
      BY <2>1, <2>3, <1>1 DEF CustomerRow
  <2> QED
    BY <2>4, <1>4
<1>5. CASE j.kind \in {"transaction", "profile"}
  <2>1. NewRow(r, c) = [col \in Columns |-> IF col \in dirty[r] THEN m[col] ELSE row[col]]
    BY <1>5 DEF NewRow
  <2>2. m \in CustomerRow
    BY <1>1, <1>5, ModifiedRow
  <2> HIDE DEF m
  <2>3. NewRow(r, c) \in CustomerRow
    <3>1. m = [col \in Columns |-> m[col]] /\ row = [col \in Columns |-> row[col]]
      BY <2>2, <1>1 DEF CustomerRow, Columns
    <3>2. NewRow(r, c) = [balance |-> IF "balance" \in dirty[r] THEN m.balance ELSE row.balance,
                          txCount |-> IF "txCount" \in dirty[r] THEN m.txCount ELSE row.txCount,
                          lastTxAt |-> IF "lastTxAt" \in dirty[r] THEN m.lastTxAt ELSE row.lastTxAt,
                          profile |-> IF "profile" \in dirty[r] THEN m.profile ELSE row.profile]
      BY <2>1 DEF Columns
    <3>3. /\ m.balance \in Nat /\ m.txCount \in Nat /\ m.lastTxAt \in Int \union {None}
          /\ m.profile \in [Keys -> Entries]
      BY <2>2 DEF CustomerRow
    <3> QED
      BY <3>2, <3>3, <1>2 DEF CustomerRow
  <2>4. ASSUME dirty[r] = Changes(r), customers[c] = entity[r] PROVE NewRow(r, c) = m
    <3>1. m = [col \in Columns |-> m[col]]
      BY <2>2 DEF CustomerRow, Columns
    <3>2. \A col \in Columns : (IF col \in dirty[r] THEN m[col] ELSE row[col]) = m[col]
      BY <2>4 DEF Changes, m
    <3> QED
      BY <3>1, <3>2, <2>1
  <2> QED
    BY <2>3, <2>4, <1>5 DEF m
<1> QED
  BY <1>1, <1>3, <1>4, <1>5, JobFacts

\* A row is updated from what is committed, once no other request has it.
LEMMA UpdateRowStep ==
    ASSUME StoreInv, NEW r \in Requests, UpdateRow(r)
    PROVE  StoreInv'
<1> DEFINE c == Head(todo[r])
           row == NewRow(r, c)
<1>1. /\ pc[r] = "writing" /\ todo[r] # <<>> /\ ~Locked(c)
      /\ staged' = [staged EXCEPT ![r] = [x \in DOMAIN staged[r] \union {c} |->
                      IF x = c THEN row ELSE staged[r][x]]]
      /\ todo' = [todo EXCEPT ![r] = Tail(todo[r])]
      /\ stale' = (stale \/ (job[r].kind \in {"transaction", "profile"} /\ customers[c] # entity[r]))
      /\ UNCHANGED <<customers, transactions, job, pc, entity, dirty, updated, announced>>
  BY DEF UpdateRow
<1>2. Types /\ Stage(r) /\ Rows(r) /\ Records(r)
  BY DEF StoreInv
<1>3. /\ c \in Customers /\ c \in Range(todo[r]) /\ Tail(todo[r]) \in Seq(Customers)
      /\ IsInjective(Tail(todo[r])) /\ Range(Tail(todo[r])) = Range(todo[r]) \ {c}
  BY <1>1, <1>2, TailOfDistinct DEF Types, Rows
<1>4. row \in CustomerRow
  BY <1>1, <1>3, UpdatedRow
<1>5. todo'[r] = Tail(todo[r])
  BY <1>1, <1>2 DEF Types
<1>6. /\ DOMAIN staged'[r] = DOMAIN staged[r] \union {c} /\ staged'[r][c] = row
      /\ \A x \in DOMAIN staged[r] : x # c => staged'[r][x] = staged[r][x]
      /\ staged'[r] \in [DOMAIN staged'[r] -> CustomerRow] /\ DOMAIN staged' = Requests
      /\ DOMAIN staged'[r] \subseteq Customers
  <2> HIDE DEF row, c
  <2>1. staged'[r] = [x \in DOMAIN staged[r] \union {c} |-> IF x = c THEN row ELSE staged[r][x]]
    BY <1>1, <1>2 DEF Types
  <2>2. \A x \in DOMAIN staged[r] : staged[r][x] \in CustomerRow
    BY <1>2 DEF Types
  <2>3. DOMAIN staged[r] \subseteq Customers /\ DOMAIN staged' = Requests
    BY <1>1, <1>2 DEF Types
  <2> QED
    BY <2>1, <2>2, <2>3, <1>3, <1>4
<1>7. todo' \in [Requests -> Seq(Customers)] /\ pc' \in [Requests -> Stages] /\ dirty' \in [Requests -> SUBSET Columns]
  BY <1>1, <1>2, <1>3 DEF Types
<1>8. \A q \in Requests \ {r} : /\ pc'[q] = pc[q] /\ dirty'[q] = dirty[q] /\ todo'[q] = todo[q]
                                /\ staged'[q] = staged[q]
  BY <1>1, <1>2 DEF Types
<1>9. \A q \in Requests \ {r} : DOMAIN staged[q] \intersect DOMAIN staged'[r] = {}
  <2> HIDE DEF c
  <2> QED
    BY <1>1, <1>6 DEF Locked, StoreInv, Apart
<1>10. Stage(r)'
  BY <1>1, <1>2 DEF Stage
<1>11. Rows(r)'
  <2>1. \A x : NewRow(r, x)' = NewRow(r, x)
    BY <1>1 DEF NewRow
  <2>2. \A x \in DOMAIN staged'[r] : staged'[r][x] = NewRow(r, x)'
    BY <2>1, <1>2, <1>6 DEF Rows
  <2>3. Range(todo'[r]) \union DOMAIN staged'[r] = Range(todo[r]) \union DOMAIN staged[r]
    BY <1>3, <1>5, <1>6
  <2>4. Range(todo'[r]) \intersect DOMAIN staged'[r] = {}
    BY <1>2, <1>3, <1>5, <1>6 DEF Rows
  <2> HIDE DEF c, row
  <2> QED
    BY <2>2, <2>3, <2>4, <1>1, <1>2, <1>3, <1>5 DEF Rows, Saves
<1>12. Records(r)'
  BY <1>1, <1>2 DEF Records, Own, Finished
<1>13. r \notin Finished /\ r \notin Finished' /\ pc'[r] = "writing"
  BY <1>1 DEF Finished
<1>14. ASSUME ~stale' PROVE ~stale /\ FreshSave(r)'
  <2>1. ~stale /\ FreshSave(r)
    BY <1>1, <1>14 DEF StoreInv
  <2>2. ASSUME Saves(r)
        PROVE  /\ dirty'[r] = Changes(r)'
               /\ customers'[job'[r].customer] = entity'[r]
               /\ dirty[r] # {}
    <3>1. c = job[r].customer /\ dirty[r] # {}
      BY <2>2, <1>2, <1>3 DEF Rows
    <3>2. customers[c] = entity[r]
      BY <2>2, <1>1, <1>14 DEF Saves
    <3>3. dirty'[r] = Changes(r)'
      BY <2>1, <2>2, <1>1 DEF FreshSave, Changes
    <3> HIDE DEF c
    <3> QED
      BY <3>1, <3>2, <3>3, <1>1
  <2> QED
    BY <2>1, <2>2, <1>1 DEF FreshSave, Saves
<1>15. UNCHANGED <<customers, transactions, job, entity, updated, announced>>
  BY <1>1
<1> HIDE DEF c, row
<1> QED
  BY <1>1, <1>6, <1>7, <1>8, <1>9, <1>10, <1>11, <1>12, <1>13, <1>14, <1>15, InnerStep

-----------------------------------------------------------------------------
(* The commit *)

\* What a commit does to the tables: the staged rows, and the transaction of a single purchase.
LEMMA CommitTables ==
    ASSUME StoreInv, NEW r \in Requests, Commit(r)
    PROVE  /\ job[r] \in Jobs /\ Valid(job[r]) /\ job[r].kind \in {"transaction", "profile", "advance", "bulk"}
           /\ pc[r] = "writing" /\ pc'[r] = "committed"
           /\ r \notin Finished /\ Finished' = Finished \union {r}
           /\ customers' \in [Customers -> CustomerRow]
           /\ \A c \in Customers :
                customers'[c] = IF c \in DOMAIN staged[r] THEN NewRow(r, c) ELSE customers[c]
           /\ IsFiniteSet(DOMAIN transactions') /\ DOMAIN transactions' \subseteq Ids
           /\ transactions' \in [DOMAIN transactions' -> [customer : Customers, amount : Nat, at : Int]]
           /\ DOMAIN transactions' =
                DOMAIN transactions \union IF job[r].kind = "transaction" THEN {<<r, 1>>} ELSE {}
           /\ job[r].kind = "transaction" => /\ <<r, 1>> \notin DOMAIN transactions
                                             /\ transactions'[<<r, 1>>].customer = job[r].customer
                                             /\ transactions'[<<r, 1>>].amount = job[r].amount
           /\ \A id \in DOMAIN transactions : /\ transactions'[id].customer = transactions[id].customer
                                              /\ transactions'[id].amount = transactions[id].amount
<1> DEFINE j == job[r]
           TxRow == [customer : Customers, amount : Nat, at : Int]
<1>1. /\ pc[r] = "writing" /\ todo[r] = <<>> /\ transactions' = Recorded(r)
      /\ customers' = [c \in Customers |-> IF c \in DOMAIN staged[r] THEN staged[r][c] ELSE customers[c]]
      /\ pc' = [pc EXCEPT ![r] = "committed"]
  BY DEF Commit
<1>2. Types /\ Stage(r) /\ Rows(r) /\ Records(r)
  BY DEF StoreInv
<1>3. j \in Jobs /\ Valid(j) /\ j.kind # "change"
  BY <1>1, <1>2, AtWork DEF Stage
<1>4. j.kind \in {"transaction", "profile", "advance", "bulk"}
  BY <1>3, JobFacts
<1>5. r \notin Finished /\ Finished' = Finished \union {r} /\ pc'[r] = "committed"
  BY <1>1, <1>2 DEF Finished, Types
<1>6. /\ customers' \in [Customers -> CustomerRow]
      /\ \A c \in Customers : customers'[c] = IF c \in DOMAIN staged[r] THEN NewRow(r, c) ELSE customers[c]
  <2>1. \A c \in DOMAIN staged[r] : staged[r][c] = NewRow(r, c) /\ staged[r][c] \in CustomerRow
    BY <1>2 DEF Types, Rows
  <2>2. customers \in [Customers -> CustomerRow]
    BY <1>2 DEF Types
  <2> QED
    BY <2>1, <2>2, <1>1
<1>7. /\ IsFiniteSet(DOMAIN transactions) /\ DOMAIN transactions \subseteq Ids
      /\ transactions \in [DOMAIN transactions -> TxRow]
  BY <1>2 DEF Types
<1>8. CASE j.kind = "transaction"
  <2> DEFINE row == [customer |-> j.customer, amount |-> j.amount, at |-> j.at]
  <2>1. row \in TxRow
    BY <1>3, <1>8, JobFacts
  <2>2. transactions' = [id \in DOMAIN transactions \union {<<r, 1>>} |->
                           IF id = <<r, 1>> THEN row ELSE transactions[id]]
    BY <1>1, <1>8 DEF Recorded
  <2>3. Own(r) = {}
    BY <1>2, <1>5, <1>8 DEF Records
  <2>4. <<r, 1>> \notin DOMAIN transactions /\ <<r, 1>> \in Ids
    BY <2>3 DEF Own, Ids
  <2>5. DOMAIN transactions' = DOMAIN transactions \union {<<r, 1>>}
    BY <2>2
  <2>6. IsFiniteSet(DOMAIN transactions')
    <3>1. IsFiniteSet(DOMAIN transactions \union {<<r, 1>>})
      BY <1>7, FS_AddElement
    <3> QED
      BY <3>1, <2>5
  <2>7. row.customer = j.customer /\ row.amount = j.amount
    OBVIOUS
  <2> HIDE DEF row
  <2>8. /\ transactions' \in [DOMAIN transactions' -> TxRow] /\ transactions'[<<r, 1>>] = row
        /\ \A id \in DOMAIN transactions : transactions'[id] = transactions[id]
    <3> HIDE DEF TxRow
    <3> QED
      BY <2>1, <2>2, <2>4, <1>7
  <2> QED
    BY <2>4, <2>5, <2>6, <2>7, <2>8, <1>1, <1>3, <1>4, <1>5, <1>6, <1>7, <1>8
<1>9. CASE j.kind = "advance"
  <2>1. transactions' = [id \in DOMAIN transactions |-> IF id \in seen[r]
           THEN [transactions[id] EXCEPT !.at = Shift(transactions[id].at, j.days)] ELSE transactions[id]]
    BY <1>1, <1>9 DEF Recorded
  <2>2. j.days \in Nat
    BY <1>3, <1>9, JobAssumption
  <2>3. ASSUME NEW id \in DOMAIN transactions
        PROVE  /\ transactions'[id] \in TxRow
               /\ transactions'[id].customer = transactions[id].customer
               /\ transactions'[id].amount = transactions[id].amount
    <3>1. transactions[id] \in TxRow
      BY <1>7
    <3>2. Shift(transactions[id].at, j.days) \in Int
      BY <3>1, <2>2, JobAssumption DEF Shift
    <3> DEFINE shifted == [transactions[id] EXCEPT !.at = Shift(transactions[id].at, j.days)]
    <3>3. /\ shifted \in TxRow /\ shifted.customer = transactions[id].customer
          /\ shifted.amount = transactions[id].amount
      BY <3>1, <3>2
    <3>4. transactions'[id] = IF id \in seen[r] THEN shifted ELSE transactions[id]
      BY <2>1
    <3> HIDE DEF shifted
    <3> QED
      BY <3>1, <3>3, <3>4
  <2>4. DOMAIN transactions' = DOMAIN transactions /\ transactions' \in [DOMAIN transactions' -> TxRow]
    <3>1. transactions' = [id \in DOMAIN transactions |-> transactions'[id]]
      BY <2>1
    <3> HIDE DEF TxRow
    <3> QED
      BY <3>1, <2>3
  <2> HIDE DEF TxRow
  <2>5. IsFiniteSet(DOMAIN transactions') /\ DOMAIN transactions' \subseteq Ids
    BY <2>4, <1>7
  <2> QED
    BY <2>3, <2>4, <2>5, <1>1, <1>3, <1>4, <1>5, <1>6, <1>9 DEF TxRow
<1>10. CASE j.kind \in {"profile", "bulk"}
  <2>1. transactions' = transactions
    BY <1>1, <1>10 DEF Recorded
  <2> QED
    BY <2>1, <1>1, <1>3, <1>4, <1>5, <1>6, <1>7, <1>10
<1> QED
  BY <1>4, <1>8, <1>9, <1>10

\* What the commit of a request that saves an entity writes.
LEMMA SavedRow ==
    ASSUME StoreInv, NEW r \in Requests, Commit(r), ~stale,
           job[r].kind \in {"transaction", "profile"}
    PROVE  /\ job[r].customer \in Customers
           /\ \A c \in Customers \ {job[r].customer} : customers'[c] = customers[c]
           /\ IF dirty[r] = {} THEN customers'[job[r].customer] = customers[job[r].customer]
              ELSE customers'[job[r].customer] = Modified(job[r], customers[job[r].customer])
           /\ job[r].kind = "transaction" => dirty[r] # {}
<1> DEFINE c == job[r].customer
<1>1. /\ job[r] \in Jobs /\ Valid(job[r]) /\ pc[r] = "writing" /\ Saves(r)
      /\ \A x \in Customers : customers'[x] = IF x \in DOMAIN staged[r] THEN NewRow(r, x) ELSE customers[x]
  BY CommitTables DEF Saves
<1>2. c \in Customers
  BY <1>1, JobFacts
<1>3. DOMAIN staged[r] = IF dirty[r] = {} THEN {} ELSE {c}
  <2>1. Rows(r) /\ todo[r] = <<>>
    BY DEF StoreInv, Commit
  <2> QED
    BY <2>1, <1>1, EmptyList DEF Rows
<1>4. /\ dirty[r] = Changes(r)
      /\ c \in DOMAIN staged[r] => customers[c] = entity[r]
      /\ entity[r] \in CustomerRow
  BY <1>1 DEF StoreInv, FreshSave, Types
<1>5. dirty[r] # {} => customers'[c] = Modified(job[r], customers[c])
  <2> SUFFICES ASSUME dirty[r] # {} PROVE customers'[c] = Modified(job[r], customers[c])
    OBVIOUS
  <2>1. customers[c] = entity[r] /\ customers'[c] = NewRow(r, c)
    BY <1>1, <1>2, <1>3, <1>4
  <2>2. NewRow(r, c) = Modified(job[r], entity[r])
    BY <2>1, <1>1, <1>2, <1>4, UpdatedRow
  <2> QED
    BY <2>1, <2>2
<1>6. job[r].kind = "transaction" => dirty[r] # {}
  BY <1>4, CountsItself
<1> QED
  BY <1>1, <1>2, <1>3, <1>5, <1>6

\* The rows that a finished request has for a customer.
LEMMA OwnRows ==
    ASSUME StoreInv, NEW r \in Requests, Commit(r), NEW c \in Customers
    PROVE  RowsOf(c, {r})' =
             CASE job[r].kind = "bulk" ->
                    {<<r, i>> : i \in {k \in 1..job[r].count : BulkRow(job[r], k).customer = c}}
               [] job[r].kind = "transaction" /\ job[r].customer = c -> {<<r, 1>>}
               [] OTHER -> {}
<1> DEFINE j == job[r]
<1>1. /\ j \in Jobs /\ Valid(j) /\ j.kind \in {"transaction", "profile", "advance", "bulk"}
      /\ pc[r] = "writing" /\ r \notin Finished
      /\ DOMAIN transactions' = DOMAIN transactions \union IF j.kind = "transaction" THEN {<<r, 1>>} ELSE {}
      /\ j.kind = "transaction" => transactions'[<<r, 1>>].customer = j.customer
      /\ \A id \in DOMAIN transactions : transactions'[id].customer = transactions[id].customer
  BY CommitTables
<1>2. Records(r)
  BY DEF StoreInv
<1>3. \A id : id \in RowsOf(c, {r})' <=>
                /\ id \in Own(r) \union IF j.kind = "transaction" THEN {<<r, 1>>} ELSE {}
                /\ transactions'[id].customer = c
  BY <1>1 DEF RowsOf, Own
<1>4. CASE j.kind = "bulk"
  <2>1. /\ Own(r) = {r} \X (1..j.count)
        /\ \A i \in 1..j.count : transactions[<<r, i>>].customer = BulkRow(j, i).customer
    BY <1>1, <1>2, <1>4 DEF Records
  <2>2. \A i \in 1..j.count : transactions'[<<r, i>>].customer = BulkRow(j, i).customer
    BY <2>1, <1>1 DEF Own
  <2>3. ASSUME NEW id
        PROVE  id \in RowsOf(c, {r})' <=> id \in {<<r, i>> : i \in {k \in 1..j.count : BulkRow(j, k).customer = c}}
    <3>1. id \in RowsOf(c, {r})' <=> id \in {r} \X (1..j.count) /\ transactions'[id].customer = c
      BY <2>1, <1>3, <1>4
    <3> HIDE DEF j
    <3> QED
      BY <3>1, <2>2
  <2>4. RowsOf(c, {r})' = {<<r, i>> : i \in {k \in 1..j.count : BulkRow(j, k).customer = c}}
    BY <2>3
  <2> QED
    BY <2>4, <1>4
<1>5. CASE j.kind = "transaction"
  <2>1. Own(r) = {}
    BY <1>1, <1>2, <1>5 DEF Records
  <2>2. \A id : id \in RowsOf(c, {r})' <=> id = <<r, 1>> /\ j.customer = c
    BY <2>1, <1>1, <1>3, <1>5
  <2>3. RowsOf(c, {r})' = IF j.customer = c THEN {<<r, 1>>} ELSE {}
    BY <2>2
  <2> QED
    BY <2>3, <1>5
<1>6. CASE j.kind \in {"profile", "advance"}
  <2>1. Own(r) = {}
    BY <1>1, <1>2, <1>6 DEF Records
  <2>2. RowsOf(c, {r})' = {}
    BY <2>1, <1>3, <1>6
  <2> QED
    BY <2>2, <1>6
<1> QED
  BY <1>1, <1>4, <1>5, <1>6

\* The commit adds to the counters of a customer what its request has recorded for it.
LEMMA CommitAdds ==
    ASSUME StoreInv, NEW r \in Requests, Commit(r), ~stale, NEW c \in Customers
    PROVE  /\ IsFiniteSet(RowsOf(c, {r})')
           /\ customers'[c].txCount = customers[c].txCount + Cardinality(RowsOf(c, {r})')
           /\ customers'[c].balance = customers[c].balance + SumIn(transactions', RowsOf(c, {r})')
<1> DEFINE j == job[r]
           mine == RowsOf(c, {r})'
<1>1. /\ j \in Jobs /\ Valid(j) /\ j.kind \in {"transaction", "profile", "advance", "bulk"}
      /\ pc[r] = "writing"
      /\ customers'[c] = IF c \in DOMAIN staged[r] THEN NewRow(r, c) ELSE customers[c]
      /\ IsFiniteSet(DOMAIN transactions')
      /\ j.kind = "transaction" => transactions'[<<r, 1>>].amount = j.amount
      /\ \A id \in DOMAIN transactions : transactions'[id].amount = transactions[id].amount
  BY CommitTables
<1>2. customers[c] \in CustomerRow /\ customers[c].txCount \in Nat /\ customers[c].balance \in Nat
  BY DEF StoreInv, Types, CustomerRow
<1>3. IsFiniteSet(mine)
  <2>1. mine \in SUBSET DOMAIN transactions'
    BY DEF RowsOf
  <2> HIDE DEF mine
  <2> QED
    BY <2>1, <1>1, FS_Subset
<1>4. CASE j.kind = "bulk"
  <2> DEFINE share == Share(j, c)
  <2>1. mine = {<<r, i>> : i \in {k \in 1..j.count : BulkRow(j, k).customer = c}}
    BY <1>4, OwnRows
  <2>2. share \in Nat /\ Cardinality(mine) = share /\ (c \notin Range(Dealt(j)) => share = 0)
    <3> DEFINE rows == {<<r, i>> : i \in {k \in 1..j.count : BulkRow(j, k).customer = c}}
    <3>1. share \in Nat /\ Cardinality(rows) = share /\ (c \notin Range(Dealt(j)) => share = 0)
      BY <1>1, <1>4, ShareFacts
    <3>2. mine = rows
      BY <2>1
    <3> HIDE DEF rows, mine
    <3> QED
      BY <3>1, <3>2
  <2>3. j.amount \in Nat
    BY <1>1, <1>4, JobFacts
  <2>4. \A id \in mine : transactions'[id].amount = j.amount
    <3>1. /\ Own(r) = {r} \X (1..j.count)
          /\ \A i \in 1..j.count : transactions[<<r, i>>].amount = j.amount
      BY <1>1, <1>4 DEF StoreInv, Records
    <3>2. \A i \in 1..j.count : transactions'[<<r, i>>].amount = j.amount
      BY <3>1, <1>1 DEF Own
    <3> QED
      BY <3>2, <2>1
  <2>5. SumIn(transactions', mine) = share * j.amount
    <3> HIDE DEF mine, share, j
    <3>1. SumIn(transactions', mine) = Cardinality(mine) * j.amount
      BY <2>3, <2>4, <1>3, SumUniform
    <3> QED
      BY <3>1, <2>2
  <2>6. DOMAIN staged[r] = Range(Dealt(j))
    <3>1. Rows(r) /\ todo[r] = <<>>
      BY DEF StoreInv, Commit
    <3> QED
      BY <3>1, <1>1, <1>4, EmptyList DEF Rows
  <2>7. CASE c \in DOMAIN staged[r]
    <3>1. /\ customers'[c].balance = customers[c].balance + share * j.amount
          /\ customers'[c].txCount = customers[c].txCount + share
      BY <2>7, <1>1, <1>4, UpdatedRow
    <3> QED
      BY <3>1, <2>2, <2>5, <1>3
  <2>8. CASE c \notin DOMAIN staged[r]
    <3>1. share = 0 /\ customers'[c] = customers[c]
      BY <2>2, <2>6, <2>8, <1>1
    <3>2. SumIn(transactions', mine) = 0
      BY <3>1, <2>3, <2>5
    <3> HIDE DEF mine, share
    <3> QED
      BY <3>1, <3>2, <2>2, <1>2, <1>3 DEF mine
  <2> QED
    BY <2>7, <2>8
<1>5. CASE j.kind = "transaction" /\ j.customer = c
  <2>1. mine = {<<r, 1>>}
    BY <1>5, OwnRows
  <2>2. customers'[c] = Modified(j, customers[c])
    BY <1>5, SavedRow
  <2>3. j.amount \in Nat
    BY <1>1, <1>5, JobFacts
  <2>4. customers'[c].balance = customers[c].balance + j.amount /\ customers'[c].txCount = customers[c].txCount + 1
    <3>1. /\ Modified(j, customers[c]).balance = customers[c].balance + j.amount
          /\ Modified(j, customers[c]).txCount = customers[c].txCount + 1
      BY <1>1, <1>2, <1>5, ModifiedRow
    <3> QED
      BY <3>1, <2>2
  <2>5. Cardinality(mine) = 1
    BY <2>1, FS_Singleton
  <2>6. \A id \in mine : transactions'[id].amount = j.amount
    BY <2>1, <1>1, <1>5
  <2>7. SumIn(transactions', mine) = j.amount
    <3> HIDE DEF mine, j
    <3>1. SumIn(transactions', mine) = 1 * j.amount
      BY <2>3, <2>5, <2>6, <1>3, SumUniform
    <3> QED
      BY <3>1, <2>3
  <2> QED
    BY <2>4, <2>5, <2>7, <1>3
<1>6. CASE j.kind \in {"profile", "advance"} \/ (j.kind = "transaction" /\ j.customer # c)
  <2>1. mine = {}
    BY <1>1, <1>6, OwnRows
  <2>2. customers'[c].balance = customers[c].balance /\ customers'[c].txCount = customers[c].txCount
    <3>1. CASE j.kind = "advance"
      BY <3>1, <1>1, UpdatedRow
    <3>2. CASE j.kind \in {"profile", "transaction"} /\ j.customer # c
      <4>1. customers'[c] = customers[c]
        BY <3>2, SavedRow
      <4> QED
        BY <4>1
    <3>3. CASE j.kind = "profile" /\ j.customer = c
      <4>1. customers'[c] \in {customers[c], Modified(j, customers[c])}
        BY <3>3, SavedRow
      <4>2. /\ Modified(j, customers[c]).balance = customers[c].balance
            /\ Modified(j, customers[c]).txCount = customers[c].txCount
        BY <3>3, <1>1, <1>2, ModifiedRow
      <4> QED
        BY <4>1, <4>2
    <3> QED
      BY <3>1, <3>2, <3>3, <1>6
  <2>3. Cardinality(mine) = 0 /\ SumIn(transactions', mine) = 0
    BY <2>1, FS_EmptySet, SumEmpty
  <2> QED
    BY <2>2, <2>3, <1>2, <1>3
<1>7. \/ j.kind = "bulk"
      \/ j.kind = "transaction" /\ j.customer = c
      \/ j.kind \in {"profile", "advance"} \/ (j.kind = "transaction" /\ j.customer # c)
  BY <1>1
<1> HIDE DEF j, mine
<1> QED
  BY <1>4, <1>5, <1>6, <1>7

\* What is staged is the row of the table with the change of this request, so the counters stay right.
LEMMA CommitCounts ==
    ASSUME StoreInv, NEW r \in Requests, Commit(r), ~stale
    PROVE  CountedRows'
<1>1. /\ Finished' = Finished \union {r} /\ r \notin Finished
      /\ IsFiniteSet(DOMAIN transactions')
      /\ transactions' \in [DOMAIN transactions' -> [customer : Customers, amount : Nat, at : Int]]
      /\ DOMAIN transactions' = DOMAIN transactions \union IF job[r].kind = "transaction" THEN {<<r, 1>>} ELSE {}
      /\ job[r].kind = "transaction" => <<r, 1>> \notin DOMAIN transactions
      /\ \A id \in DOMAIN transactions : /\ transactions'[id].customer = transactions[id].customer
                                         /\ transactions'[id].amount = transactions[id].amount
  BY CommitTables
<1> SUFFICES ASSUME NEW c \in Customers
             PROVE  /\ customers'[c].txCount = Cardinality(RowsOf(c, Finished)')
                    /\ customers'[c].balance = SumIn(transactions', RowsOf(c, Finished)')
  BY DEF CountedRows
<1> DEFINE old == RowsOf(c, Finished)
           mine == RowsOf(c, {r})'
<1>2. /\ customers[c].txCount = Cardinality(old) /\ customers[c].balance = SumIn(transactions, old)
  BY DEF StoreInv, CountedRows
<1>3. /\ IsFiniteSet(mine)
      /\ customers'[c].txCount = customers[c].txCount + Cardinality(mine)
      /\ customers'[c].balance = customers[c].balance + SumIn(transactions', mine)
  BY CommitAdds
<1>4. RowsOf(c, Finished)' = old \union mine
  <2>1. ASSUME NEW id PROVE id \in RowsOf(c, Finished)' <=> id \in old \union mine
    BY <1>1 DEF RowsOf
  <2> QED
    BY <2>1
<1>5. old \intersect mine = {}
  BY <1>1 DEF RowsOf
<1>6. old \subseteq DOMAIN transactions /\ mine \subseteq DOMAIN transactions'
  BY DEF RowsOf
<1> HIDE DEF old, mine
<1>7. IsFiniteSet(old)
  <2>1. IsFiniteSet(DOMAIN transactions)
    BY DEF StoreInv, Types
  <2> QED
    BY <2>1, <1>6, FS_Subset
<1>8. Cardinality(old \union mine) = Cardinality(old) + Cardinality(mine)
  <2>1. Cardinality(old \union mine) = Cardinality(old) + Cardinality(mine) - Cardinality(old \intersect mine)
    BY <1>3, <1>7, FS_Union
  <2>2. Cardinality(old \intersect mine) = 0
    BY <1>5, FS_EmptySet
  <2>3. Cardinality(old) \in Nat /\ Cardinality(mine) \in Nat
    BY <1>3, <1>7, FS_CardinalityType
  <2> QED
    BY <2>1, <2>2, <2>3
<1>9. \A id \in DOMAIN transactions' : transactions'[id].amount \in Int
  BY <1>1
<1>10. SumIn(transactions', old) = SumIn(transactions, old)
  <2>1. \A id \in old : transactions'[id].amount \in Int /\ transactions'[id].amount = transactions[id].amount
    BY <1>1, <1>6, <1>9
  <2> QED
    BY <2>1, <1>7, SumSame
<1>11. SumIn(transactions', old \union mine) = SumIn(transactions', old) + SumIn(transactions', mine)
  <2>1. \A id \in old \union mine : transactions'[id].amount \in Int
    BY <1>1, <1>6, <1>9
  <2> QED
    BY <2>1, <1>3, <1>5, <1>7, SumUnion
<1> QED
  BY <1>2, <1>3, <1>4, <1>8, <1>10, <1>11

\* The commit of a patch sets its field and no other.
LEMMA CommitPatches ==
    ASSUME StoreInv, NEW r \in Requests, Commit(r), ~stale
    PROVE  PatchesKept' /\ PatchStep
<1> DEFINE j == job[r]
           pc0 == j.customer
           key == j.key
<1>1. /\ j \in Jobs /\ Valid(j) /\ j.kind \in {"transaction", "profile", "advance", "bulk"}
      /\ pc[r] = "writing" /\ r \notin Finished /\ Finished' = Finished \union {r}
      /\ \A c \in Customers : customers'[c] = IF c \in DOMAIN staged[r] THEN NewRow(r, c) ELSE customers[c]
  BY CommitTables
<1>2. job' = job
  BY DEF Commit
<1>3. \A c \in Customers : customers[c] \in CustomerRow /\ customers[c].profile \in [Keys -> Entries]
  BY DEF StoreInv, Types, CustomerRow
<1>4. ASSUME NEW c, NEW k
      PROVE  Patches(c, k)' = Patches(c, k) \union
                 IF j.kind = "profile" /\ j.customer = c /\ j.key = k THEN {r} ELSE {}
  BY <1>1, <1>2 DEF Patches
<1>5. ASSUME NEW c \in Customers, NEW k \in Keys, ~(j.kind = "profile" /\ j.customer = c /\ j.key = k)
      PROVE  customers'[c].profile[k] = customers[c].profile[k]
  <2>1. CASE j.kind \in {"bulk", "advance"}
    BY <2>1, <1>1, UpdatedRow
  <2>2. CASE j.kind = "transaction"
    <3>1. customers'[c] \in {customers[c], Modified(j, customers[c])}
      BY <2>2, SavedRow
    <3>2. Modified(j, customers[c]).profile = customers[c].profile
      BY <2>2, <1>1, <1>3, ModifiedRow
    <3> QED
      BY <3>1, <3>2
  <2>3. CASE j.kind = "profile"
    <3>1. customers'[c] = customers[c] \/ (j.customer = c /\ customers'[c] = Modified(j, customers[c]))
      <4>1. CASE j.customer = c
        BY <4>1, <2>3, SavedRow
      <4>2. CASE j.customer # c
        BY <4>2, <2>3, SavedRow
      <4> QED
        BY <4>1, <4>2
    <3>2. Modified(j, customers[c]).profile = [customers[c].profile EXCEPT ![j.key] = j.entry]
      BY <2>3, <1>1, <1>3, ModifiedRow
    <3>3. j.customer = c => j.key # k
      BY <2>3, <1>5
    <3> QED
      BY <3>1, <3>2, <3>3, <1>3
  <2> QED
    BY <2>1, <2>2, <2>3, <1>1
<1>6. ASSUME j.kind = "profile"
      PROVE  \E q \in Patches(pc0, key) \union {r} : customers'[pc0].profile[key] = job[q].entry
  <2>1. pc0 \in Customers /\ key \in Keys
    BY <1>1, <1>6, JobFacts
  <2>2. CASE dirty[r] = {}
    <3>1. customers'[pc0] = customers[pc0]
      BY <2>2, <1>6, SavedRow
    <3>2. \E q \in Patches(pc0, key) \union {r} : customers[pc0].profile[key] = job[q].entry
      BY <2>2, <1>1, <1>6 DEF StoreInv, FreshSave, Saves
    <3> QED
      BY <3>1, <3>2
  <2>3. CASE dirty[r] # {}
    <3>1. customers'[pc0] = Modified(j, customers[pc0])
      BY <2>3, <1>6, SavedRow
    <3>2. Modified(j, customers[pc0]).profile = [customers[pc0].profile EXCEPT ![key] = j.entry]
      BY <2>1, <1>1, <1>3, <1>6, ModifiedRow
    <3>3. customers'[pc0].profile[key] = j.entry
      BY <3>1, <3>2, <2>1, <1>3
    <3> QED
      BY <3>3
  <2> QED
    BY <2>2, <2>3
<1>7. ASSUME NEW c \in Customers, NEW k \in Keys
      PROVE  /\ \/ \E q \in Patches(c, k)' : customers'[c].profile[k] = job'[q].entry
                \/ Patches(c, k)' = {} /\ customers'[c].profile[k] = None
             /\ \A p \in Patches(c, k) : p \in Patches(c, k)' /\ job'[p] = job[p]
             /\ \/ customers'[c].profile[k] = customers[c].profile[k]
                \/ \E p \in Patches(c, k)' : customers'[c].profile[k] = job'[p].entry
  <2>1. CASE j.kind = "profile" /\ j.customer = c /\ j.key = k
    <3>1. Patches(c, k)' = Patches(c, k) \union {r}
      BY <2>1, <1>4
    <3>2. \E q \in Patches(c, k) \union {r} : customers'[c].profile[k] = job[q].entry
      BY <2>1, <1>6
    <3> QED
      BY <3>1, <3>2, <1>2
  <2>2. CASE ~(j.kind = "profile" /\ j.customer = c /\ j.key = k)
    <3>1. Patches(c, k)' = Patches(c, k)
      BY <2>2, <1>4
    <3>2. customers'[c].profile[k] = customers[c].profile[k]
      BY <2>2, <1>5
    <3>3. \/ \E q \in Patches(c, k) : customers[c].profile[k] = job[q].entry
          \/ Patches(c, k) = {} /\ customers[c].profile[k] = None
      BY DEF StoreInv, PatchesKept
    <3> QED
      BY <3>1, <3>2, <3>3, <1>2
  <2> QED
    BY <2>1, <2>2
<1> QED
  BY <1>7 DEF PatchesKept, PatchStep

\* A commit publishes the staged rows and gives up the locks.
LEMMA CommitStep ==
    ASSUME StoreInv, NEW r \in Requests, Commit(r)
    PROVE  StoreInv'
<1> DEFINE j == job[r]
<1>1. /\ j \in Jobs /\ Valid(j) /\ j.kind \in {"transaction", "profile", "advance", "bulk"}
      /\ pc[r] = "writing" /\ pc'[r] = "committed"
      /\ r \notin Finished /\ Finished' = Finished \union {r}
      /\ customers' \in [Customers -> CustomerRow]
      /\ \A c \in Customers : customers'[c] = IF c \in DOMAIN staged[r] THEN NewRow(r, c) ELSE customers[c]
      /\ IsFiniteSet(DOMAIN transactions') /\ DOMAIN transactions' \subseteq Ids
      /\ transactions' \in [DOMAIN transactions' -> [customer : Customers, amount : Nat, at : Int]]
      /\ DOMAIN transactions' = DOMAIN transactions \union IF j.kind = "transaction" THEN {<<r, 1>>} ELSE {}
      /\ j.kind = "transaction" => /\ <<r, 1>> \notin DOMAIN transactions
                                   /\ transactions'[<<r, 1>>].customer = j.customer
                                   /\ transactions'[<<r, 1>>].amount = j.amount
      /\ \A id \in DOMAIN transactions : /\ transactions'[id].customer = transactions[id].customer
                                         /\ transactions'[id].amount = transactions[id].amount
  BY CommitTables
<1>2. /\ todo[r] = <<>> /\ staged' = [staged EXCEPT ![r] = <<>>] /\ pc' = [pc EXCEPT ![r] = "committed"]
      /\ updated' = [updated EXCEPT ![r] = DOMAIN staged[r]]
      /\ UNCHANGED <<job, entity, dirty, todo, seen, announced, stale, faults>>
  BY DEF Commit
<1>3. Types /\ Stage(r) /\ Rows(r) /\ Records(r)
  BY DEF StoreInv
<1>4. staged'[r] = <<>> /\ updated'[r] = DOMAIN staged[r] /\ DOMAIN staged' = Requests
  BY <1>2, <1>3 DEF Types
<1>5. \A q \in Requests \ {r} : staged'[q] = staged[q] /\ pc'[q] = pc[q] /\ updated'[q] = updated[q]
  BY <1>2, <1>3 DEF Types
<1>6. Types'
  <2>1. pc' \in [Requests -> Stages] /\ updated' \in [Requests -> SUBSET Customers]
    BY <1>2, <1>3 DEF Types, Stages
  <2>2. \A q \in Requests : DOMAIN staged'[q] \subseteq Customers /\ staged'[q] \in [DOMAIN staged'[q] -> CustomerRow]
    BY <1>3, <1>4, <1>5, EmptyList DEF Types
  <2> QED
    BY <2>1, <2>2, <1>1, <1>2, <1>3, <1>4 DEF Types
<1>7. Apart'
  BY <1>4, <1>5, EmptyList DEF StoreInv, Apart
<1>8. ASSUME NEW q \in Requests \ {r} PROVE Untouched(q)
  <2>1. \A c \in DOMAIN staged[q] : customers'[c] = customers[c]
    BY <1>1, <1>3 DEF StoreInv, Apart, Types
  <2>2. Own(q)' = Own(q)
    BY <1>1 DEF Own
  <2>3. \A id \in Own(q) : /\ transactions'[id].customer = transactions[id].customer
                           /\ transactions'[id].amount = transactions[id].amount
    BY <1>1 DEF Own
  <2> QED
    BY <2>1, <2>2, <2>3, <1>2, <1>5 DEF Untouched
<1>9. Stage(r)'
  BY <1>1, <1>2, <1>3 DEF Stage
<1>10. Rows(r)'
  BY <1>1, <1>2, <1>4, EmptyList DEF Rows, Saves
<1>11. Records(r)'
  <2>1. CASE j.kind = "bulk"
    <3>1. /\ Own(r) = {r} \X (1..j.count) /\ j.count \in 0..j.count
          /\ \A i \in 1..j.count : /\ transactions[<<r, i>>].customer = BulkRow(j, i).customer
                                   /\ transactions[<<r, i>>].amount = j.amount
      BY <2>1, <1>1, <1>3 DEF Records
    <3>2. Own(r)' = Own(r)
      BY <2>1, <1>1 DEF Own
    <3>3. \A i \in 1..j.count : /\ transactions'[<<r, i>>].customer = BulkRow(j, i).customer
                                /\ transactions'[<<r, i>>].amount = j.amount
      BY <3>1, <1>1 DEF Own
    <3> QED
      BY <3>1, <3>2, <3>3, <2>1, <1>1, <1>2 DEF Records
  <2>2. CASE j.kind = "transaction"
    <3>1. Own(r) = {}
      BY <2>2, <1>1, <1>3 DEF Records
    <3>2. Own(r)' = {<<r, 1>>}
      BY <3>1, <2>2, <1>1 DEF Own
    <3> QED
      BY <3>2, <2>2, <1>1, <1>2 DEF Records
  <2>3. CASE j.kind \in {"profile", "advance"}
    <3>1. Own(r) = {}
      BY <2>3, <1>1, <1>3 DEF Records
    <3>2. Own(r)' = {}
      BY <3>1, <2>3, <1>1 DEF Own
    <3> QED
      BY <3>2, <2>3, <1>2 DEF Records
  <2> QED
    BY <2>1, <2>2, <2>3, <1>1
<1>12. Events(r)'
  <2>1. j.kind = "bulk" => updated'[r] = Range(Dealt(j))
    BY <1>1, <1>2, <1>3, <1>4, EmptyList DEF Rows
  <2>2. j.kind \in {"transaction", "profile"} => updated'[r] \subseteq {j.customer}
    BY <1>1, <1>2, <1>3, <1>4, EmptyList DEF Rows, Saves
  <2> QED
    BY <2>1, <2>2, <1>1, <1>2 DEF Events
<1>13. FreshSave(r)'
  BY <1>1 DEF FreshSave, Saves
<1>14. ~stale' => ~stale /\ CountedRows' /\ PatchesKept' /\ PatchStep /\ FreshSave(r)'
  BY <1>2, <1>13, CommitCounts, CommitPatches
<1> HIDE DEF j
<1> QED
  BY <1>6, <1>7, <1>8, <1>9, <1>10, <1>11, <1>12, <1>14, StepOfOne

-----------------------------------------------------------------------------
(* Answers and failures *)

\* The events follow the commit.
LEMMA PublishStep ==
    ASSUME StoreInv, NEW r \in Requests, Publish(r)
    PROVE  StoreInv'
<1>1. /\ pc[r] = "committed" /\ announced' = [announced EXCEPT ![r] = Concerned(r)]
      /\ pc' = [pc EXCEPT ![r] = "answered"]
      /\ UNCHANGED <<customers, transactions, job, entity, dirty, todo, staged, seen, updated, stale, faults>>
  BY DEF Publish
<1>2. Types /\ Stage(r) /\ Rows(r) /\ Records(r) /\ Events(r)
  BY DEF StoreInv
<1>3. pc'[r] = "answered" /\ announced'[r] = Concerned(r)
  BY <1>1, <1>2 DEF Types
<1>4. Types'
  BY <1>1, <1>2 DEF Types, Stages
<1>5. Apart'
  BY <1>1 DEF StoreInv, Apart
<1>6. \A q \in Requests \ {r} : Untouched(q)
  BY <1>1, <1>2 DEF Untouched, Own, Types
<1>7. Stage(r)' /\ Rows(r)' /\ FreshSave(r)'
  BY <1>1, <1>2, <1>3, EmptyList DEF Stage, Rows, FreshSave, Saves
<1>8. r \in Finished /\ Finished' = Finished
  BY <1>1, <1>2, <1>3 DEF Finished, Types
<1>9. Records(r)'
  BY <1>1, <1>2, <1>3, <1>8 DEF Records, Own
<1>10. Events(r)'
  BY <1>1, <1>2, <1>3, <1>8 DEF Events, Concerned
<1>11. (CountedRows => CountedRows') /\ (PatchesKept => PatchesKept') /\ PatchStep
  BY <1>1, <1>8, QuietStep
<1>12. ~stale' => ~stale /\ CountedRows' /\ PatchesKept' /\ PatchStep /\ FreshSave(r)'
  BY <1>1, <1>7, <1>11 DEF StoreInv
<1> QED
  BY <1>4, <1>5, <1>6, <1>7, <1>9, <1>10, <1>12, StepOfOne

\* Requests end, a circle of waiting transactions is broken or the process stops.
LEMMA AbandonedStep ==
    ASSUME StoreInv, NEW rs \in SUBSET Requests, \A r \in rs : Active(r), Abandoned(rs)
    PROVE  StoreInv'
<1>1. /\ pc' = [r \in Requests |-> IF r \notin rs THEN pc[r]
                  ELSE IF pc[r] = "committed" THEN "silent" ELSE "failed"]
      /\ staged' = [r \in Requests |-> IF r \in rs THEN <<>> ELSE staged[r]]
      /\ todo' = [r \in Requests |-> IF r \in rs THEN <<>> ELSE todo[r]]
      /\ UNCHANGED <<customers, transactions, job, entity, dirty, seen, updated, announced, stale>>
  BY DEF Abandoned
<1>2. Types
  BY DEF StoreInv
<1>3. Types'
  <2>1. pc' \in [Requests -> Stages]
    BY <1>1, <1>2 DEF Types, Stages
  <2>2. todo' \in [Requests -> Seq(Customers)]
    BY <1>1, <1>2, EmptyList DEF Types
  <2>3. \A q \in Requests : DOMAIN staged'[q] \subseteq Customers /\ staged'[q] \in [DOMAIN staged'[q] -> CustomerRow]
    BY <1>1, <1>2, EmptyList DEF Types
  <2> QED
    BY <2>1, <2>2, <2>3, <1>1, <1>2 DEF Types
<1>4. Apart'
  BY <1>1, EmptyList DEF StoreInv, Apart
<1>5. \A q \in Requests \ rs : Untouched(q)
  BY <1>1 DEF Untouched, Own
<1>6. Finished' = Finished
  BY <1>1 DEF Finished, Active
<1>7. ASSUME NEW r \in rs PROVE Stage(r)' /\ Rows(r)' /\ Records(r)' /\ Events(r)' /\ FreshSave(r)'
  <2>1. /\ pc[r] \in Stages \ {"unsent", "answered", "silent", "failed"}
        /\ pc'[r] = (IF pc[r] = "committed" THEN "silent" ELSE "failed")
        /\ staged'[r] = <<>> /\ todo'[r] = <<>> /\ job'[r] = job[r]
    BY <1>1, <1>2 DEF Active, Types
  <2>2. Stage(r) /\ Rows(r) /\ Records(r) /\ Events(r)
    BY DEF StoreInv
  <2>3. Stage(r)'
    BY <2>1, <2>2 DEF Stage
  <2>4. Rows(r)' /\ FreshSave(r)'
    BY <2>1, EmptyList DEF Rows, FreshSave, Saves
  <2>5. Records(r)'
    <3>1. CASE job[r].kind = "bulk" /\ Valid(job[r])
      <4>1. PICK n \in 0..job[r].count :
              /\ Own(r) = {r} \X (1..n)
              /\ pc[r] \in {"writing", "committed", "answered", "silent"} => n = job[r].count
              /\ \A i \in 1..n : /\ transactions[<<r, i>>].customer = BulkRow(job[r], i).customer
                                 /\ transactions[<<r, i>>].amount = job[r].amount
        BY <3>1, <2>1, <2>2 DEF Records
      <4>2. pc'[r] \in {"writing", "committed", "answered", "silent"} => n = job[r].count
        BY <4>1, <2>1
      <4> QED
        BY <4>1, <4>2, <3>1, <2>1, <1>1 DEF Records, Own
    <3>2. CASE ~(job[r].kind = "bulk" /\ Valid(job[r]))
      BY <3>2, <2>1, <2>2, <1>1, <1>6 DEF Records, Own
    <3> QED
      BY <3>1, <3>2
  <2>6. Events(r)'
    BY <2>1, <2>2, <1>1, <1>6 DEF Events
  <2> QED
    BY <2>3, <2>4, <2>5, <2>6
<1>8. (CountedRows => CountedRows') /\ (PatchesKept => PatchesKept') /\ PatchStep
  BY <1>1, <1>6, QuietStep
<1>9. ~stale' => ~stale /\ CountedRows' /\ PatchesKept' /\ PatchStep /\ \A r \in rs : FreshSave(r)'
  BY <1>1, <1>7, <1>8 DEF StoreInv
<1> QED
  BY <1>3, <1>4, <1>5, <1>7, <1>9, StepOf

-----------------------------------------------------------------------------
(* The invariant *)

\* No request has begun.
LEMMA InvInit == Init => StoreInv
<1> SUFFICES ASSUME Init PROVE StoreInv
  OBVIOUS
<1>1. NewCustomer \in CustomerRow
  BY DEF NewCustomer, CustomerRow, Entries
<1>2. DOMAIN transactions = {} /\ transactions \in [{} -> [customer : Customers, amount : Nat, at : Int]]
  BY EmptyList DEF Init
<1>3. Types
  <2>1. \A r \in Requests : staged[r] = <<>> /\ DOMAIN staged[r] = {} /\ staged[r] \in [{} -> CustomerRow]
    BY EmptyList DEF Init
  <2> QED
    BY <2>1, <1>1, <1>2, FS_EmptySet, EmptyList DEF Init, Types, Stages
<1>4. Apart
  BY EmptyList DEF Init, Apart
<1>5. \A r \in Requests : Stage(r) /\ Rows(r) /\ Records(r) /\ Events(r) /\ FreshSave(r)
  BY <1>2, EmptyList DEF Init, Stage, Rows, Records, Own, Events, Finished, FreshSave, Saves
<1>6. CountedRows
  <2>1. \A c : RowsOf(c, Finished) = {}
    BY <1>2 DEF RowsOf
  <2>2. Cardinality({}) = 0 /\ SumIn(transactions, {}) = 0
    BY FS_EmptySet, SumEmpty
  <2>3. \A c \in Customers : customers[c].txCount = 0 /\ customers[c].balance = 0
    BY DEF Init, NewCustomer
  <2> QED
    BY <2>1, <2>2, <2>3 DEF CountedRows
<1>7. PatchesKept
  <2>1. \A c, k : Patches(c, k) = {}
    BY DEF Init, Patches, Finished
  <2>2. \A c \in Customers, k \in Keys : customers[c].profile[k] = None
    BY DEF Init, NewCustomer
  <2> QED
    BY <2>1, <2>2 DEF PatchesKept
<1> QED
  BY <1>3, <1>4, <1>5, <1>6, <1>7 DEF StoreInv

\* Every step of a request keeps the invariant.
LEMMA InvNext == StoreInv /\ [Next]_vars => StoreInv'
<1> SUFFICES ASSUME StoreInv, [Next]_vars PROVE StoreInv'
  OBVIOUS
<1>1. ASSUME NEW r \in Requests, NEW j \in Jobs, Receive(r, j) PROVE StoreInv'
  BY <1>1, ReceiveStep
<1>2. ASSUME NEW r \in Requests, Handle(r) PROVE StoreInv'
  <2>1. CASE DeadlockAbort(r)
    <3>1. Active(r)
      BY <2>1 DEF DeadlockAbort, Detected, WaitsFor, Active
    <3> DEFINE rs == {r}
    <3>2. rs \in SUBSET Requests /\ (\A q \in rs : Active(q)) /\ Abandoned(rs)
      BY <2>1, <3>1 DEF DeadlockAbort
    <3> HIDE DEF rs
    <3> QED
      BY <3>2, AbandonedStep
  <2>2. CASE ~DeadlockAbort(r)
    BY <1>2, <2>2, SaveStep, InsertChunkStep, BeginAggregatesStep, ShiftStep, UpdateRowStep, CommitStep,
       PublishStep DEF Handle
  <2> QED
    BY <2>1, <2>2
<1>3. ASSUME NEW r \in Requests, Fail(r) PROVE StoreInv'
  <2> DEFINE rs == {r}
  <2>1. rs \in SUBSET Requests /\ (\A q \in rs : Active(q)) /\ Abandoned(rs)
    BY <1>3 DEF Fail
  <2> HIDE DEF rs
  <2> QED
    BY <2>1, AbandonedStep
<1>4. ASSUME Crash PROVE StoreInv'
  <2> DEFINE rs == {r \in Requests : Active(r)}
  <2>1. rs \in SUBSET Requests /\ (\A q \in rs : Active(q)) /\ Abandoned(rs)
    BY <1>4 DEF Crash
  <2> HIDE DEF rs
  <2> QED
    BY <2>1, AbandonedStep
<1>5. ASSUME UNCHANGED vars PROVE StoreInv'
  <2> DEFINE rs == {}
  <2>1. UNCHANGED <<customers, transactions, job, pc, entity, dirty, todo, staged, updated, announced, stale>>
    BY <1>5 DEF vars
  <2>2. Types' /\ Apart'
    BY <2>1 DEF StoreInv, Types, Apart
  <2>3. \A q \in Requests \ rs : Untouched(q)
    BY <2>1 DEF Untouched, Own
  <2>4. (CountedRows => CountedRows') /\ (PatchesKept => PatchesKept') /\ PatchStep
    BY <2>1, QuietStep DEF Finished
  <2>5. ~stale' => ~stale /\ CountedRows' /\ PatchesKept' /\ PatchStep
    BY <2>1, <2>4 DEF StoreInv
  <2>6. rs \in SUBSET Requests /\ \A r \in rs : FALSE
    OBVIOUS
  <2> HIDE DEF rs
  <2> QED
    BY <2>2, <2>3, <2>5, <2>6, StepOf
<1> QED
  BY <1>1, <1>2, <1>3, <1>4, <1>5 DEF Next

\* The invariant holds throughout.
LEMMA Invariance == Spec => []StoreInv
<1> QED
  BY InvInit, InvNext, PTL DEF Spec

-----------------------------------------------------------------------------
(* Theorems *)

\* Two database transactions never hold the row of the same customer, and every row a
\* handler writes is a customer row: the locks of recordTransaction, updateProfile,
\* applyAggregates and advanceTime exclude each other for any number of requests.
THEOREM RowLocksExclude == Spec => []TypeOK
<1>1. StoreInv => TypeOK
  <2> SUFFICES ASSUME StoreInv PROVE TypeOK
    OBVIOUS
  <2>1. \A c \in Customers : /\ DOMAIN customers[c] = Columns
                             /\ customers[c].balance \in Nat /\ customers[c].txCount \in Nat
                             /\ customers[c].lastTxAt \in Int \union {None}
    BY DEF StoreInv, Types, CustomerRow, Columns
  <2>2. \A id \in DOMAIN transactions : id \in Ids /\ transactions[id].customer \in Customers
    BY DEF StoreInv, Types
  <2>3. \A r \in Requests :
          /\ job[r] \in Jobs \union {None} /\ (job[r] = None <=> pc[r] = "unsent")
          /\ dirty[r] \subseteq Columns /\ DOMAIN staged[r] \subseteq Customers
          /\ Range(todo[r]) \intersect DOMAIN staged[r] = {}
    BY DEF StoreInv, Types, Stage, Rows
  <2> QED
    BY <2>1, <2>2, <2>3 DEF TypeOK, StoreInv, Types, Apart
<1> QED
  BY <1>1, Invariance, PTL

\* An answered request has announced exactly what it should: each customer whose row its
\* commit changed, and, for imports and advances of the time, no other; however imports,
\* saves, failures and crashes interleave (simulation.service.ts emits after the commit).
THEOREM EventsNameTheChanged == Spec => []EventsMatchData
<1>1. StoreInv => EventsMatchData
  <2> SUFFICES ASSUME StoreInv, NEW r \in Requests, pc[r] = "answered"
               PROVE  /\ updated[r] \subseteq announced[r]
                      /\ job[r].kind \in {"bulk", "advance"} => announced[r] \subseteq updated[r]
    BY DEF EventsMatchData
  <2>1. job[r] \in Jobs /\ Valid(job[r])
    BY AtWork
  <2>2. Events(r) /\ r \in Finished /\ announced[r] = Concerned(r)
    BY DEF StoreInv, Events, Finished
  <2>3. job[r].kind \in {"transaction", "profile"} => Named(job[r]) = {job[r].customer}
    BY <2>1, JobFacts
  <2>4. job[r].kind \in {"transaction", "profile", "advance", "bulk", "change"}
    BY <2>1, JobFacts
  <2> QED
    BY <2>2, <2>3, <2>4 DEF Events, Concerned
<1> QED
  BY <1>1, Invariance, PTL

\* Imports, saves, advances of the time, failed statements, deadlocks and crashes lose and
\* double nothing: as long as no save went by a row that another commit had changed since
\* it was loaded, txCount and balance of every customer are the number and the sum of the
\* transactions recorded for it, and every patched field has the value of a patch.
THEOREM NothingElseLoses == Spec => []OnlyStaleSavesLose
<1>1. StoreInv => OnlyStaleSavesLose
  BY DEF StoreInv, OnlyStaleSavesLose
<1> QED
  BY <1>1, Invariance, PTL
=============================================================================
