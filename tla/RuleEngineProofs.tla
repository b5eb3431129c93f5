-------------------------- MODULE RuleEngineProofs --------------------------
(***************************************************************************)
(* Theorems about Rules and RuleEngine for rules of any depth and size,    *)
(* any customers and segments, and any data.                               *)
(***************************************************************************)
EXTENDS RuleEngine, FiniteSetTheorems, WellFoundedInduction, TLAPS

-----------------------------------------------------------------------------
(* Induction and recursion on the depth *)

\* Induction on the depth, for the elements of a set.
LEMMA Induction ==
    ASSUME NEW S, 0 \in S, \A n \in Nat : n \in S => n + 1 \in S
    PROVE  \A n \in Nat : n \in S
<1> DEFINE B == {n \in Nat : n \notin S}
<1> SUFFICES ASSUME B # {} PROVE FALSE
  OBVIOUS
<1>1. PICK n \in B : \A m \in B : ~(<<m, n>> \in OpToRel(<, Nat))
  <2>1. IsWellFoundedOn(OpToRel(<, Nat), Nat)
    BY NatLessThanWellFounded, Zenon
  <2> HIDE DEF B
  <2>2. B \subseteq Nat
    BY DEF B
  <2> QED
    BY <2>1, <2>2, WFMin, Zenon
<1>2. n \in Nat /\ n # 0 /\ n - 1 \in Nat
  OBVIOUS
<1>3. n - 1 \in S
  <2>1. <<n - 1, n>> \in OpToRel(<, Nat)
    BY <1>2 DEF OpToRel
  <2>2. n - 1 \notin B
    BY <1>1, <2>1, Zenon
  <2> QED
    BY <1>2, <2>2
<1> QED
  BY <1>2, <1>3

\* A recursive function on Nat exists when each value has its type, given the one before.
LEMMA Recursion ==
    ASSUME NEW W, NEW first \in W[0], NEW G, \A n \in Nat : \A v \in W[n] : G[n][v] \in W[n + 1]
    PROVE  \E f : /\ f = [n \in Nat |-> IF n = 0 THEN first ELSE G[n - 1][f[n - 1]]]
                  /\ \A n \in Nat : f[n] \in W[n]
<1> DEFINE Partial(g, n) == /\ \A i \in 0..n : g[i] = IF i = 0 THEN first ELSE G[i - 1][g[i - 1]]
                            /\ \A i \in 0..n : g[i] \in W[i]
           Solved == {n \in Nat : \E g : Partial(g, n)}
<1>1. 0 \in Solved
  <2>1. Partial([i \in 0..0 |-> first], 0)
    OBVIOUS
  <2> QED
    BY <2>1
<1>2. ASSUME NEW n \in Nat, n \in Solved PROVE n + 1 \in Solved
  <2>1. PICK g : Partial(g, n)
    BY <1>2
  <2> DEFINE h == [i \in 0..(n + 1) |-> IF i = n + 1 THEN G[n][g[n]] ELSE g[i]]
  <2>2. \A i \in 0..n : h[i] = g[i]
    OBVIOUS
  <2>3. h[n + 1] = G[n][h[n]] /\ h[n + 1] \in W[n + 1]
    BY <2>1, <2>2
  <2> HIDE DEF h
  <2>4. \A i \in 0..(n + 1) : i = n + 1 \/ (i \in 0..n /\ (i # 0 => i - 1 \in 0..n))
    OBVIOUS
  <2>5. Partial(h, n + 1)
    BY <2>1, <2>2, <2>3, <2>4
  <2> QED
    BY <2>5
<1>3. \A n \in Nat : n \in Solved
  <2> HIDE DEF Solved
  <2> QED
    BY <1>1, <1>2, Induction
<1>4. PICK g : \A n \in Nat : Partial(g[n], n)
  <2>1. \A n \in Nat : Partial([m \in Nat |-> CHOOSE k : Partial(k, m)][n], n)
    BY <1>3
  <2> QED
    BY <2>1, Zenon
<1> DEFINE f == [n \in Nat |-> g[n][n]]
<1>5. ASSUME NEW n \in Nat PROVE g[n + 1][n] = g[n][n]
  <2> DEFINE S == {i \in Nat : i <= n => g[n + 1][i] = g[n][i]}
  <2>1. 0 \in S
    BY <1>4
  <2>2. ASSUME NEW i \in Nat, i \in S PROVE i + 1 \in S
    BY <2>2, <1>4
  <2>3. \A i \in Nat : i \in S
    <3> HIDE DEF S
    <3> QED
      BY <2>1, <2>2, Induction
  <2> QED
    BY <2>3
<1>6. ASSUME NEW n \in Nat PROVE f[n] = (IF n = 0 THEN first ELSE G[n - 1][f[n - 1]]) /\ f[n] \in W[n]
  <2>1. CASE n = 0
    BY <2>1, <1>4
  <2>2. CASE n # 0
    <3>1. n - 1 \in Nat /\ n = (n - 1) + 1 /\ n \in 0..n
      BY <2>2
    <3>2. g[n][n] = G[n - 1][g[n][n - 1]] /\ g[n][n] \in W[n]
      BY <1>4, <2>2, <3>1
    <3>3. g[n][n - 1] = g[n - 1][n - 1]
      BY <1>5, <3>1
    <3> QED
      BY <3>1, <3>2, <3>3, <2>2
  <2> QED
    BY <2>1, <2>2
<1>7. f = [n \in Nat |-> IF n = 0 THEN first ELSE G[n - 1][f[n - 1]]]
  <2> HIDE DEF f
  <2>1. f = [n \in Nat |-> f[n]]
    BY DEF f
  <2> QED
    BY <2>1, <1>6
<1> QED
  BY <1>6, <1>7

\* From first on, what G makes of a value of one type is a value of the next.
Feeds(W, first, G) == first \in W[0] /\ \A n \in Nat : \A v \in W[n] : G[n][v] \in W[n + 1]

\* The same as a sequence of steps.
LEMMA Iteration ==
    ASSUME NEW W, NEW first, NEW G, Feeds(W, first, G)
    PROVE  \E f : f[0] = first /\ \A n \in Nat : f[n + 1] = G[n][f[n]] /\ f[n] \in W[n]
<1>1. PICK f : /\ f = [n \in Nat |-> IF n = 0 THEN first ELSE G[n - 1][f[n - 1]]]
               /\ \A n \in Nat : f[n] \in W[n]
  BY Recursion DEF Feeds
<1>2. \A n \in Nat : f[n] = IF n = 0 THEN first ELSE G[n - 1][f[n - 1]]
  BY <1>1
<1>3. \A n \in Nat : n + 1 \in Nat /\ n + 1 # 0 /\ (n + 1) - 1 = n
  OBVIOUS
<1> QED
  BY <1>1, <1>2, <1>3

-----------------------------------------------------------------------------
(* Trees *)

\* The compounds of some trees.
Joins(trees) == [type : {"compound"}, op : {"and", "or"}, rules : Seq(trees)]

\* One level more: the leaves, and the trees of a set joined once more.
Deeper(leaves, trees) == leaves \union Joins(trees)

\* Sets of trees have no common type, so that their recursion is solved apart.
LEMMA TreesExist ==
    ASSUME NEW leaves
    PROVE  \E f : f = [n \in Nat |-> IF n = 0 THEN leaves ELSE Deeper(leaves, f[n - 1])]
<1> DEFINE Step(g, i) == IF i = 0 THEN leaves ELSE Deeper(leaves, g[i - 1])
           Partial(g, n) == \A i \in 0..n : g[i] = Step(g, i)
           Solved == {n \in Nat : \E g : Partial(g, n)}
<1>1. 0 \in Solved
  <2>1. Partial([i \in 0..0 |-> leaves], 0)
    OBVIOUS
  <2> QED
    BY <2>1
<1>2. ASSUME NEW n \in Nat, n \in Solved PROVE n + 1 \in Solved
  <2>1. PICK g : Partial(g, n)
    BY <1>2
  <2> DEFINE h == [i \in 0..(n + 1) |-> IF i = n + 1 THEN Deeper(leaves, g[n]) ELSE g[i]]
  <2>2. \A i \in 0..n : h[i] = g[i]
    OBVIOUS
  <2>3. h[n + 1] = Deeper(leaves, h[n])
    BY <2>2
  <2> HIDE DEF h
  <2>4. \A i \in 0..(n + 1) : i = n + 1 \/ (i \in 0..n /\ (i # 0 => i - 1 \in 0..n))
    OBVIOUS
  <2>5. Partial(h, n + 1)
    BY <2>1, <2>2, <2>3, <2>4
  <2> QED
    BY <2>5
<1>3. \A n \in Nat : n \in Solved
  <2> HIDE DEF Solved
  <2> QED
    BY <1>1, <1>2, Induction
<1>4. PICK g : \A n \in Nat : Partial(g[n], n)
  <2>1. \A n \in Nat : Partial([m \in Nat |-> CHOOSE k : Partial(k, m)][n], n)
    BY <1>3
  <2> QED
    BY <2>1, Zenon
<1> DEFINE f == [n \in Nat |-> g[n][n]]
<1>5. ASSUME NEW n \in Nat PROVE g[n + 1][n] = g[n][n]
  <2> DEFINE S == {i \in Nat : i <= n => g[n + 1][i] = g[n][i]}
  <2>1. 0 \in S
    BY <1>4
  <2>2. ASSUME NEW i \in Nat, i \in S PROVE i + 1 \in S
    BY <2>2, <1>4
  <2>3. \A i \in Nat : i \in S
    <3> HIDE DEF S
    <3> QED
      BY <2>1, <2>2, Induction
  <2> QED
    BY <2>3
<1>6. ASSUME NEW n \in Nat PROVE f[n] = Step(f, n)
  <2>1. CASE n = 0
    BY <2>1, <1>4
  <2>2. CASE n # 0
    <3>1. n - 1 \in Nat /\ n = (n - 1) + 1 /\ n \in 0..n
      BY <2>2
    <3>2. g[n][n] = Deeper(leaves, g[n][n - 1])
      BY <1>4, <2>2, <3>1
    <3>3. g[n][n - 1] = g[n - 1][n - 1]
      BY <1>5, <3>1
    <3> QED
      BY <3>1, <3>2, <3>3, <2>2
  <2> QED
    BY <2>1, <2>2
<1>7. f = [n \in Nat |-> Step(f, n)]
  <2> HIDE DEF f
  <2>1. f = [n \in Nat |-> f[n]]
    BY DEF f
  <2> QED
    BY <2>1, <1>6
<1> QED
  BY <1>7

\* The recursive definition of Trees means what it says.
LEMMA TreesDef ==
    ASSUME NEW leaves
    PROVE  /\ Trees(leaves)[0] = leaves
           /\ \A n \in Nat : Trees(leaves)[n + 1] = Deeper(leaves, Trees(leaves)[n])
<1> DEFINE Step(f) == [n \in Nat |-> IF n = 0 THEN leaves ELSE Deeper(leaves, f[n - 1])]
           t == CHOOSE f : f = Step(f)
<1>1. t = Step(t)
  BY TreesExist
<1>2. Trees(leaves) = t
  BY Zenon DEF Trees, Joins, Deeper
<1> HIDE DEF t
<1> QED
  BY <1>1, <1>2

\* The same for rules.
LEMMA RuleOfDef ==
    /\ RuleOf[0] = RuleLeaves
    /\ \A n \in Nat : RuleOf[n + 1] = Deeper(RuleLeaves, RuleOf[n])
  BY TreesDef DEF RuleOf

\* The same for SQL expressions.
LEMMA SqlOfDef ==
    /\ SqlOf[0] = SqlLeaves
    /\ \A n \in Nat : SqlOf[n + 1] = Deeper(SqlLeaves, SqlOf[n])
  BY TreesDef DEF SqlOf

\* A tree that joins some.
IsCompound(r, trees) == r.type = "compound" /\ r.op \in {"and", "or"} /\ r.rules \in Seq(trees)

\* What a rule that is no compound is made of.
LEMMA RuleLeafTypes ==
    ASSUME NEW r \in RuleLeaves
    PROVE  /\ r.type \in {"date_window_count", "sum_threshold", "field_comparison", "segment_membership"}
           /\ r.type \in {"date_window_count", "sum_threshold"} =>
                r.windowDays \in Int /\ r.value \in Int /\ r.field \in STRING /\ r.operator \in STRING
           /\ r.type = "field_comparison" =>
                /\ r.field \in STRING /\ r.operator \in STRING /\ r.list \in BOOLEAN
                /\ ~r.list => r.value \in Scalars
                /\ r.list => r.values \in SUBSET Scalars
           /\ r.type = "segment_membership" => r.segmentId \in Segments
  BY DEF RuleLeaves

\* A rule is a leaf or joins rules of less depth, and no leaf is a compound.
LEMMA RuleCases ==
    /\ \A r \in RuleOf[0] : r \in RuleLeaves
    /\ \A n \in Nat : \A r \in RuleOf[n + 1] : r \in RuleLeaves \/ IsCompound(r, RuleOf[n])
    /\ \A r \in RuleLeaves : r.type # "compound"
<1>1. \A n \in Nat : \A r \in Joins(RuleOf[n]) : IsCompound(r, RuleOf[n])
  BY DEF Joins, IsCompound
<1> QED
  BY <1>1, RuleOfDef, RuleLeafTypes, Zenon DEF Deeper

-----------------------------------------------------------------------------
(* The recursive functions of Rules *)

\* Walk is defined at every depth, and gives segments.
LEMMA WalkDef ==
    \A n \in Nat : /\ Walk[n] \in [RuleOf[n] -> SUBSET Segments]
                  /\ \A r \in RuleOf[n] : Walk[n][r] = WalkRule(r, Walk[n - 1])
<1> DEFINE Step(f) == [n \in Nat |-> [r \in RuleOf[n] |-> WalkRule(r, f[n - 1])]]
           W == [n \in Nat |-> [RuleOf[n] -> SUBSET Segments]]
           first == [r \in RuleOf[0] |-> WalkRule(r, <<>>)]
           G == [n \in Nat |-> [v \in W[n] |-> [r \in RuleOf[n + 1] |-> WalkRule(r, v)]]]
<1>1. ASSUME NEW w, NEW r \in RuleLeaves
      PROVE  WalkRule(r, w) \in SUBSET Segments /\ WalkRule(r, w) = WalkRule(r, <<>>)
  BY RuleLeafTypes DEF WalkRule
<1>2. ASSUME NEW n \in Nat, NEW w \in [RuleOf[n] -> SUBSET Segments], NEW r \in RuleOf[n + 1]
      PROVE  WalkRule(r, w) \in SUBSET Segments
  <2>1. CASE r \in RuleLeaves
    BY <1>1, <2>1
  <2>2. CASE IsCompound(r, RuleOf[n])
    <3>1. \A i \in DOMAIN r.rules : w[r.rules[i]] \in SUBSET Segments
      BY <2>2 DEF IsCompound
    <3>2. WalkRule(r, w) = UNION {w[r.rules[i]] : i \in DOMAIN r.rules}
      BY <2>2 DEF IsCompound, WalkRule
    <3> QED
      BY <3>1, <3>2
  <2> QED
    BY <2>1, <2>2, RuleCases
<1>3. \E f : f = Step(f)
  <2>1. first \in W[0]
    BY <1>1, RuleCases
  <2>2. \A n \in Nat : \A v \in W[n] : G[n][v] \in W[n + 1]
    BY <1>2
  <2>3. PICK f : /\ f = [n \in Nat |-> IF n = 0 THEN first ELSE G[n - 1][f[n - 1]]]
                 /\ \A n \in Nat : f[n] \in W[n]
    <3> HIDE DEF first, G, W
    <3> QED
      BY <2>1, <2>2, Recursion
  <2>4. ASSUME NEW n \in Nat PROVE f[n] = [r \in RuleOf[n] |-> WalkRule(r, f[n - 1])]
    <3>1. CASE n = 0
      BY <3>1, <2>3, <1>1, RuleCases
    <3>2. CASE n # 0
      <4>1. n - 1 \in Nat /\ (n - 1) + 1 = n
        BY <3>2
      <4>2. f[n] = G[n - 1][f[n - 1]] /\ f[n - 1] \in W[n - 1]
        BY <2>3, <3>2, <4>1
      <4> QED
        BY <4>1, <4>2
    <3> QED
      BY <3>1, <3>2
  <2>5. f = Step(f)
    BY <2>3, <2>4
  <2> QED
    BY <2>5
<1>4. Walk = Step(Walk)
  <2> DEFINE w == CHOOSE f : f = Step(f)
  <2>1. w = Step(w)
    BY <1>3
  <2>2. Walk = w
    BY Zenon DEF Walk
  <2> HIDE DEF Step, w
  <2> QED
    BY <2>1, <2>2, Zenon
<1>5. \A n \in Nat : Walk[n] = [r \in RuleOf[n] |-> WalkRule(r, Walk[n - 1])]
  <2>1. ASSUME NEW f, f = Step(f), NEW n \in Nat PROVE f[n] = [r \in RuleOf[n] |-> WalkRule(r, f[n - 1])]
    BY <2>1
  <2> HIDE DEF Step
  <2> QED
    BY <1>4, <2>1
<1>6. \A n \in Nat : Walk[n] \in [RuleOf[n] -> SUBSET Segments]
  <2> DEFINE S == {n \in Nat : Walk[n] \in [RuleOf[n] -> SUBSET Segments]}
  <2>1. 0 \in S
    <3>1. Walk[0] = [r \in RuleOf[0] |-> WalkRule(r, Walk[0 - 1])]
      BY <1>5
    <3>2. \A r \in RuleOf[0] : WalkRule(r, Walk[0 - 1]) \in SUBSET Segments
      BY <1>1, RuleCases
    <3> QED
      BY <3>1, <3>2
  <2>2. ASSUME NEW n \in Nat, n \in S PROVE n + 1 \in S
    <3>1. Walk[n + 1] = [r \in RuleOf[n + 1] |-> WalkRule(r, Walk[n])]
      BY <1>5
    <3> QED
      BY <1>2, <2>2, <3>1
  <2>3. \A n \in Nat : n \in S
    <3> HIDE DEF S
    <3> QED
      BY <2>1, <2>2, Induction
  <2> QED
    BY <2>3
<1> QED
  BY <1>5, <1>6

\* A tree is a leaf or joins trees of less depth.
LEMMA TreeCases ==
    ASSUME NEW leaves, \A l \in leaves : l.type # "compound"
    PROVE  /\ \A r \in Trees(leaves)[0] : r \in leaves
           /\ \A n \in Nat : \A r \in Trees(leaves)[n + 1] : r \in leaves \/ IsCompound(r, Trees(leaves)[n])
<1>1. \A n \in Nat : \A r \in Joins(Trees(leaves)[n]) : IsCompound(r, Trees(leaves)[n])
  BY DEF Joins, IsCompound
<1>2. \A n \in Nat : Trees(leaves)[n + 1] = leaves \union Joins(Trees(leaves)[n])
  BY TreesDef DEF Deeper
<1>3. Trees(leaves)[0] = leaves
  BY TreesDef
<1> QED
  BY <1>1, <1>2, <1>3

\* What a SQL expression that is no AND or OR is made of.
LEMMA SqlLeafTypes ==
    ASSUME NEW e \in SqlLeaves
    PROVE  /\ e.type \in {"window", "column", "member"}
           /\ e.type = "window" => e.aggregate \in {"count", "sum"} /\ e.days \in Nat /\ e.value \in Nat
  BY DEF SqlLeaves

\* A SQL expression is a leaf or joins expressions of less depth.
LEMMA SqlCases ==
    /\ \A e \in SqlOf[0] : e \in SqlLeaves
    /\ \A n \in Nat : \A e \in SqlOf[n + 1] : e \in SqlLeaves \/ IsCompound(e, SqlOf[n])
    /\ \A e \in SqlLeaves : e.type # "compound"
<1>1. \A e \in SqlLeaves : e.type # "compound"
  BY SqlLeafTypes
<1> QED
  BY <1>1, TreeCases DEF SqlOf

\* The truths of SQL's logic.
Truths == {"true", "false", "null"}

\* The leaves of a tree are defined at every depth.
LEMMA LeavesDef ==
    ASSUME NEW leaves, \A l \in leaves : l.type # "compound"
    PROVE  \A n \in Nat : /\ LeavesOf(leaves)[n] \in [Trees(leaves)[n] -> SUBSET leaves]
                  /\ \A r \in Trees(leaves)[n] : LeavesOf(leaves)[n][r] = LeavesIn(r, LeavesOf(leaves)[n - 1])
<1> DEFINE Step(f) == [n \in Nat |-> [r \in Trees(leaves)[n] |-> LeavesIn(r, f[n - 1])]]
           W == [n \in Nat |-> [Trees(leaves)[n] -> SUBSET leaves]]
           first == [r \in Trees(leaves)[0] |-> LeavesIn(r, <<>>)]
           G == [n \in Nat |-> [v \in W[n] |-> [r \in Trees(leaves)[n + 1] |-> LeavesIn(r, v)]]]
<1>1. ASSUME NEW w, NEW r \in leaves
      PROVE  LeavesIn(r, w) \in SUBSET leaves /\ LeavesIn(r, w) = LeavesIn(r, <<>>)
  BY DEF LeavesIn
<1>2. ASSUME NEW n \in Nat, NEW w \in [Trees(leaves)[n] -> SUBSET leaves], NEW r \in Trees(leaves)[n + 1]
      PROVE  LeavesIn(r, w) \in SUBSET leaves
  <2>1. CASE r \in leaves
    BY <1>1, <2>1
  <2>2. CASE IsCompound(r, Trees(leaves)[n])
    <3>1. \A i \in DOMAIN r.rules : w[r.rules[i]] \in SUBSET leaves
      BY <2>2 DEF IsCompound
    <3>2. LeavesIn(r, w) = UNION {w[r.rules[i]] : i \in DOMAIN r.rules}
      BY <2>2 DEF IsCompound, LeavesIn
    <3> QED
      BY <3>1, <3>2
  <2> QED
    BY <2>1, <2>2, TreeCases
<1>3. \E f : f = Step(f)
  <2>1. first \in W[0]
    BY <1>1, TreeCases
  <2>2. \A n \in Nat : \A v \in W[n] : G[n][v] \in W[n + 1]
    BY <1>2
  <2>3. PICK f : /\ f = [n \in Nat |-> IF n = 0 THEN first ELSE G[n - 1][f[n - 1]]]
                 /\ \A n \in Nat : f[n] \in W[n]
    <3> HIDE DEF first, G, W
    <3> QED
      BY <2>1, <2>2, Recursion
  <2>4. ASSUME NEW n \in Nat PROVE f[n] = [r \in Trees(leaves)[n] |-> LeavesIn(r, f[n - 1])]
    <3>1. CASE n = 0
      BY <3>1, <2>3, <1>1, TreeCases
    <3>2. CASE n # 0
      <4>1. n - 1 \in Nat /\ (n - 1) + 1 = n
        BY <3>2
      <4>2. f[n] = G[n - 1][f[n - 1]] /\ f[n - 1] \in W[n - 1]
        BY <2>3, <3>2, <4>1
      <4> QED
        BY <4>1, <4>2
    <3> QED
      BY <3>1, <3>2
  <2>5. f = Step(f)
    BY <2>3, <2>4
  <2> QED
    BY <2>5
<1>4. LeavesOf(leaves) = Step(LeavesOf(leaves))
  <2> DEFINE w == CHOOSE f : f = Step(f)
  <2>1. w = Step(w)
    BY <1>3
  <2>2. LeavesOf(leaves) = w
    BY Zenon DEF LeavesOf
  <2> HIDE DEF w, Step
  <2> QED
    BY <2>1, <2>2
<1>5. \A n \in Nat : LeavesOf(leaves)[n] = [r \in Trees(leaves)[n] |-> LeavesIn(r, LeavesOf(leaves)[n - 1])]
  <2>1. ASSUME NEW f, f = Step(f), NEW n \in Nat PROVE f[n] = [r \in Trees(leaves)[n] |-> LeavesIn(r, f[n - 1])]
    BY <2>1
  <2> HIDE DEF Step
  <2> QED
    BY <1>4, <2>1
<1>6. \A n \in Nat : LeavesOf(leaves)[n] \in [Trees(leaves)[n] -> SUBSET leaves]
  <2> DEFINE S == {n \in Nat : LeavesOf(leaves)[n] \in [Trees(leaves)[n] -> SUBSET leaves]}
  <2>1. 0 \in S
    <3>1. LeavesOf(leaves)[0] = [r \in Trees(leaves)[0] |-> LeavesIn(r, LeavesOf(leaves)[0 - 1])]
      BY <1>5
    <3>2. \A r \in Trees(leaves)[0] : LeavesIn(r, LeavesOf(leaves)[0 - 1]) \in SUBSET leaves
      BY <1>1, TreeCases
    <3> QED
      BY <3>1, <3>2
  <2>2. ASSUME NEW n \in Nat, n \in S PROVE n + 1 \in S
    <3>1. LeavesOf(leaves)[n + 1] = [r \in Trees(leaves)[n + 1] |-> LeavesIn(r, LeavesOf(leaves)[n])]
      BY <1>5
    <3> QED
      BY <1>2, <2>2, <3>1
  <2>3. \A n \in Nat : n \in S
    <3> HIDE DEF S
    <3> QED
      BY <2>1, <2>2, Induction
  <2> QED
    BY <2>3
<1> QED
  BY <1>5, <1>6

\* The members of a rule are defined at every depth, and are customers.
LEMMA MembersDef ==
    ASSUME NEW d
    PROVE  \A n \in Nat : /\ MembersOf(d)[n] \in [RuleOf[n] -> SUBSET DOMAIN d.rows]
                  /\ \A r \in RuleOf[n] : MembersOf(d)[n][r] = MembersIn(r, d, MembersOf(d)[n - 1])
<1> DEFINE Step(f) == [n \in Nat |-> [r \in RuleOf[n] |-> MembersIn(r, d, f[n - 1])]]
           W == [n \in Nat |-> [RuleOf[n] -> SUBSET DOMAIN d.rows]]
           first == [r \in RuleOf[0] |-> MembersIn(r, d, <<>>)]
           G == [n \in Nat |-> [v \in W[n] |-> [r \in RuleOf[n + 1] |-> MembersIn(r, d, v)]]]
<1>1. ASSUME NEW w, NEW r \in RuleLeaves
      PROVE  MembersIn(r, d, w) \in SUBSET DOMAIN d.rows /\ MembersIn(r, d, w) = MembersIn(r, d, <<>>)
  BY RuleCases DEF MembersIn
<1>2. ASSUME NEW n \in Nat, NEW w \in [RuleOf[n] -> SUBSET DOMAIN d.rows], NEW r \in RuleOf[n + 1]
      PROVE  MembersIn(r, d, w) \in SUBSET DOMAIN d.rows
  <2>1. CASE r \in RuleLeaves
    BY <1>1, <2>1
  <2>2. CASE IsCompound(r, RuleOf[n])
    <3>1. \A i \in DOMAIN r.rules : w[r.rules[i]] \in SUBSET DOMAIN d.rows
      BY <2>2 DEF IsCompound
    <3>2. \/ MembersIn(r, d, w) = UNION {w[r.rules[i]] : i \in DOMAIN r.rules}
          \/ MembersIn(r, d, w) = {c \in DOMAIN d.rows : \A i \in DOMAIN r.rules : c \in w[r.rules[i]]}
      BY <2>2 DEF IsCompound, MembersIn
    <3> QED
      BY <3>1, <3>2
  <2> QED
    BY <2>1, <2>2, RuleCases
<1>3. \E f : f = Step(f)
  <2>1. first \in W[0]
    BY <1>1, RuleCases
  <2>2. \A n \in Nat : \A v \in W[n] : G[n][v] \in W[n + 1]
    BY <1>2
  <2>3. PICK f : /\ f = [n \in Nat |-> IF n = 0 THEN first ELSE G[n - 1][f[n - 1]]]
                 /\ \A n \in Nat : f[n] \in W[n]
    <3> HIDE DEF first, G, W
    <3> QED
      BY <2>1, <2>2, Recursion
  <2>4. ASSUME NEW n \in Nat PROVE f[n] = [r \in RuleOf[n] |-> MembersIn(r, d, f[n - 1])]
    <3>1. CASE n = 0
      BY <3>1, <2>3, <1>1, RuleCases
    <3>2. CASE n # 0
      <4>1. n - 1 \in Nat /\ (n - 1) + 1 = n
        BY <3>2
      <4>2. f[n] = G[n - 1][f[n - 1]] /\ f[n - 1] \in W[n - 1]
        BY <2>3, <3>2, <4>1
      <4> QED
        BY <4>1, <4>2
    <3> QED
      BY <3>1, <3>2
  <2>5. f = Step(f)
    BY <2>3, <2>4
  <2> QED
    BY <2>5
<1>4. MembersOf(d) = Step(MembersOf(d))
  <2> DEFINE w == CHOOSE f : f = Step(f)
  <2>1. w = Step(w)
    BY <1>3
  <2>2. MembersOf(d) = w
    BY Zenon DEF MembersOf
  <2> HIDE DEF w, Step
  <2> QED
    BY <2>1, <2>2
<1>5. \A n \in Nat : MembersOf(d)[n] = [r \in RuleOf[n] |-> MembersIn(r, d, MembersOf(d)[n - 1])]
  <2>1. ASSUME NEW f, f = Step(f), NEW n \in Nat PROVE f[n] = [r \in RuleOf[n] |-> MembersIn(r, d, f[n - 1])]
    BY <2>1
  <2> HIDE DEF Step
  <2> QED
    BY <1>4, <2>1
<1>6. \A n \in Nat : MembersOf(d)[n] \in [RuleOf[n] -> SUBSET DOMAIN d.rows]
  <2> DEFINE S == {n \in Nat : MembersOf(d)[n] \in [RuleOf[n] -> SUBSET DOMAIN d.rows]}
  <2>1. 0 \in S
    <3>1. MembersOf(d)[0] = [r \in RuleOf[0] |-> MembersIn(r, d, MembersOf(d)[0 - 1])]
      BY <1>5
    <3>2. \A r \in RuleOf[0] : MembersIn(r, d, MembersOf(d)[0 - 1]) \in SUBSET DOMAIN d.rows
      BY <1>1, RuleCases
    <3> QED
      BY <3>1, <3>2
  <2>2. ASSUME NEW n \in Nat, n \in S PROVE n + 1 \in S
    <3>1. MembersOf(d)[n + 1] = [r \in RuleOf[n + 1] |-> MembersIn(r, d, MembersOf(d)[n])]
      BY <1>5
    <3> QED
      BY <1>2, <2>2, <3>1
  <2>3. \A n \in Nat : n \in S
    <3> HIDE DEF S
    <3> QED
      BY <2>1, <2>2, Induction
  <2> QED
    BY <2>3
<1> QED
  BY <1>5, <1>6

\* Every SQL expression is true, false or NULL.
LEMMA TruthDef ==
    ASSUME NEW params, NEW c, NEW d
    PROVE  \A n \in Nat : /\ TruthOf(params, c, d)[n] \in [SqlOf[n] -> Truths]
                  /\ \A r \in SqlOf[n] : TruthOf(params, c, d)[n][r] = SqlTruth(r, params, c, d, TruthOf(params, c, d)[n - 1])
<1> DEFINE Step(f) == [n \in Nat |-> [r \in SqlOf[n] |-> SqlTruth(r, params, c, d, f[n - 1])]]
           W == [n \in Nat |-> [SqlOf[n] -> Truths]]
           first == [r \in SqlOf[0] |-> SqlTruth(r, params, c, d, <<>>)]
           G == [n \in Nat |-> [v \in W[n] |-> [r \in SqlOf[n + 1] |-> SqlTruth(r, params, c, d, v)]]]
<1>1. ASSUME NEW w, NEW r \in SqlLeaves
      PROVE  SqlTruth(r, params, c, d, w) \in Truths /\ SqlTruth(r, params, c, d, w) = SqlTruth(r, params, c, d, <<>>)
  BY SqlLeafTypes DEF SqlTruth, ColumnTruth, Truths
<1>2. ASSUME NEW n \in Nat, NEW w \in [SqlOf[n] -> Truths], NEW r \in SqlOf[n + 1]
      PROVE  SqlTruth(r, params, c, d, w) \in Truths
  <2>1. CASE r \in SqlLeaves
    BY <1>1, <2>1
  <2>2. CASE IsCompound(r, SqlOf[n])
    <3> QED
      BY <2>2 DEF IsCompound, SqlTruth, Connected, Truths
  <2> QED
    BY <2>1, <2>2, SqlCases
<1>3. \E f : f = Step(f)
  <2>1. first \in W[0]
    BY <1>1, SqlCases
  <2>2. \A n \in Nat : \A v \in W[n] : G[n][v] \in W[n + 1]
    BY <1>2
  <2>3. PICK f : /\ f = [n \in Nat |-> IF n = 0 THEN first ELSE G[n - 1][f[n - 1]]]
                 /\ \A n \in Nat : f[n] \in W[n]
    <3> HIDE DEF first, G, W
    <3> QED
      BY <2>1, <2>2, Recursion
  <2>4. ASSUME NEW n \in Nat PROVE f[n] = [r \in SqlOf[n] |-> SqlTruth(r, params, c, d, f[n - 1])]
    <3>1. CASE n = 0
      BY <3>1, <2>3, <1>1, SqlCases
    <3>2. CASE n # 0
      <4>1. n - 1 \in Nat /\ (n - 1) + 1 = n
        BY <3>2
      <4>2. f[n] = G[n - 1][f[n - 1]] /\ f[n - 1] \in W[n - 1]
        BY <2>3, <3>2, <4>1
      <4> QED
        BY <4>1, <4>2
    <3> QED
      BY <3>1, <3>2
  <2>5. f = Step(f)
    BY <2>3, <2>4
  <2> QED
    BY <2>5
<1>4. TruthOf(params, c, d) = Step(TruthOf(params, c, d))
  <2> DEFINE w == CHOOSE f : f = Step(f)
  <2>1. w = Step(w)
    BY <1>3
  <2>2. TruthOf(params, c, d) = w
    BY Zenon DEF TruthOf
  <2> HIDE DEF w, Step
  <2> QED
    BY <2>1, <2>2
<1>5. \A n \in Nat : TruthOf(params, c, d)[n] = [r \in SqlOf[n] |-> SqlTruth(r, params, c, d, TruthOf(params, c, d)[n - 1])]
  <2>1. ASSUME NEW f, f = Step(f), NEW n \in Nat PROVE f[n] = [r \in SqlOf[n] |-> SqlTruth(r, params, c, d, f[n - 1])]
    BY <2>1
  <2> HIDE DEF Step
  <2> QED
    BY <1>4, <2>1
<1>6. \A n \in Nat : TruthOf(params, c, d)[n] \in [SqlOf[n] -> Truths]
  <2> DEFINE S == {n \in Nat : TruthOf(params, c, d)[n] \in [SqlOf[n] -> Truths]}
  <2>1. 0 \in S
    <3>1. TruthOf(params, c, d)[0] = [r \in SqlOf[0] |-> SqlTruth(r, params, c, d, TruthOf(params, c, d)[0 - 1])]
      BY <1>5
    <3>2. \A r \in SqlOf[0] : SqlTruth(r, params, c, d, TruthOf(params, c, d)[0 - 1]) \in Truths
      BY <1>1, SqlCases
    <3> QED
      BY <3>1, <3>2
  <2>2. ASSUME NEW n \in Nat, n \in S PROVE n + 1 \in S
    <3>1. TruthOf(params, c, d)[n + 1] = [r \in SqlOf[n + 1] |-> SqlTruth(r, params, c, d, TruthOf(params, c, d)[n])]
      BY <1>5
    <3> QED
      BY <1>2, <2>2, <3>1
  <2>3. \A n \in Nat : n \in S
    <3> HIDE DEF S
    <3> QED
      BY <2>1, <2>2, Induction
  <2> QED
    BY <2>3
<1> QED
  BY <1>5, <1>6

-----------------------------------------------------------------------------
(* The compiler *)

\* The values of placeholders.
Values == Scalars \union (SUBSET Scalars) \union Segments

\* What compiling gives at a depth, and what a compound has compiled so far.
PredicateOf(n) == {Rejected} \union [sql : SqlOf[n], params : Seq(Values)]
PartOf(n) == {Rejected} \union [sql : Joins(SqlOf[n]), params : Seq(Values)]

\* No SQL expression is the mark of a rejected rule; leaves and joined expressions are SQL.
LEMMA SqlIsNotRejected ==
    ASSUME NEW n \in Nat
    PROVE  /\ \A e \in SqlOf[n] : e.type # "rejected"
           /\ \A e \in Joins(SqlOf[n]) : e.type = "compound" /\ e.type # "rejected"
           /\ SqlLeaves \subseteq SqlOf[n] /\ Joins(SqlOf[n]) \subseteq SqlOf[n + 1]
<1>1. \A e \in Joins(SqlOf[n]) : e.type = "compound" /\ e.type # "rejected"
  BY DEF Joins
<1>2. SqlOf[n + 1] = SqlLeaves \union Joins(SqlOf[n])
  BY SqlOfDef DEF Deeper
<1>3. n = 0 \/ (n - 1 \in Nat /\ (n - 1) + 1 = n)
  OBVIOUS
<1>4. n # 0 => SqlOf[n] = SqlLeaves \union Joins(SqlOf[n - 1])
  BY <1>3, SqlOfDef DEF Deeper
<1>5. SqlOf[0] = SqlLeaves
  BY SqlOfDef
<1>6. \A e \in SqlLeaves : e.type # "rejected"
  BY SqlLeafTypes
<1>7. \A e \in Joins(SqlOf[n - 1]) : e.type # "rejected"
  BY DEF Joins
<1>8. \A e \in SqlOf[n] : e.type # "rejected"
  BY <1>3, <1>4, <1>5, <1>6, <1>7
<1> QED
  BY <1>1, <1>2, <1>3, <1>4, <1>5, <1>8

\* Compiling a leaf gives a SQL leaf with its values, or rejects it, without going deeper.
LEMMA CompileLeafType ==
    ASSUME NEW r \in RuleLeaves, NEW p \in Nat, NEW w
    PROVE  /\ CompileRule(r, p, w) \in {Rejected} \union [sql : SqlLeaves, params : Seq(Values)]
           /\ CompileRule(r, p, w) = CompileRule(r, p, <<>>)
<1> DEFINE LeafPredicate == [sql : SqlLeaves, params : Seq(Values)]
<1>0. \A sql \in SqlLeaves : \A s \in Seq(Values) : Compiled(sql, s) \in LeafPredicate
  BY DEF Compiled
<1>1. CASE r.type \in {"date_window_count", "sum_threshold"}
  <2>1. r.windowDays \in Values /\ r.value \in Values
    BY <1>1, RuleLeafTypes DEF Values, Scalars
  <2>2. <<r.windowDays, r.value>> \in Seq(Values)
    BY <2>1
  <2>3. ASSUME NEW a \in {"count", "sum"}, r.operator \in ScalarOperators
        PROVE  CompileWindow(r, p, a) \in LeafPredicate
    <3>1. [type |-> "window", aggregate |-> a, operator |-> r.operator, days |-> p + 1, value |-> p + 2]
            \in SqlLeaves
      BY <2>3 DEF SqlLeaves
    <3> QED
      BY <3>1, <2>2, <2>3, <1>0 DEF CompileWindow
  <2>4. \A a \in {"count", "sum"} : CompileWindow(r, p, a) \in {Rejected} \union LeafPredicate
    BY <2>3 DEF CompileWindow
  <2>5. CompileRule(r, p, w) \in {Rejected, CompileWindow(r, p, "count"), CompileWindow(r, p, "sum")}
    BY <1>1 DEF CompileRule
  <2>6. CompileRule(r, p, w) = CompileRule(r, p, <<>>)
    BY <1>1 DEF CompileRule
  <2> QED
    BY <2>4, <2>5, <2>6
<1>2. CASE r.type = "field_comparison"
  <2>1. CompileRule(r, p, w) = CompileField(r, p) /\ CompileRule(r, p, <<>>) = CompileField(r, p)
    BY <1>2 DEF CompileRule
  <2>2. ASSUME CompileField(r, p) # Rejected PROVE CompileField(r, p) \in LeafPredicate
    <3> DEFINE listed == r.operator \in {"in", "not_in"}
               pushed == IF listed THEN r.values ELSE r.value
    <3>1. r.field \in DOMAIN CustomerFieldMap /\ r.list = listed /\ r.operator \in Operators
      BY <2>2 DEF CompileField, Operators
    <3>2. pushed \in Values
      BY <3>1, <1>2, RuleLeafTypes DEF Values
    <3>3. CustomerFieldMap[r.field] \in CustomerColumns
      BY <3>1 DEF CustomerFieldMap, CustomerColumns
    <3>4. [type |-> "column", column |-> CustomerFieldMap[r.field], operator |-> r.operator, value |-> p + 1]
            \in SqlLeaves
      BY <3>1, <3>3 DEF SqlLeaves
    <3>5. <<pushed>> \in Seq(Values)
      BY <3>2
    <3>6. CompileField(r, p) =
            Compiled([type |-> "column", column |-> CustomerFieldMap[r.field], operator |-> r.operator,
                      value |-> p + 1], <<pushed>>)
      BY <2>2 DEF CompileField
    <3> QED
      BY <3>4, <3>5, <3>6, <1>0
  <2> QED
    BY <2>1, <2>2
<1>3. CASE r.type = "segment_membership"
  <2>1. /\ CompileRule(r, p, w) = CompileMembership(r, p)
        /\ CompileRule(r, p, <<>>) = CompileMembership(r, p)
    BY <1>3 DEF CompileRule
  <2>2. [type |-> "member", segment |-> p + 1] \in SqlLeaves
    BY DEF SqlLeaves
  <2>3. r.segmentId \in Values
    <3>1. r.segmentId \in Segments
      BY <1>3, RuleLeafTypes
    <3> QED
      BY <3>1 DEF Values
  <2>4. <<r.segmentId>> \in Seq(Values)
    BY <2>3
  <2> QED
    BY <2>1, <2>2, <2>4, <1>0 DEF CompileMembership
<1> QED
  BY <1>1, <1>2, <1>3, RuleLeafTypes

\* What Append does to a sequence.
LEMMA AppendFacts ==
    ASSUME NEW S, NEW s \in Seq(S), NEW e \in S
    PROVE  /\ Append(s, e) \in Seq(S) /\ Len(s) \in Nat
           /\ Len(Append(s, e)) = Len(s) + 1
           /\ \A i \in 1..Len(s) : Append(s, e)[i] = s[i]
           /\ Append(s, e)[Len(s) + 1] = e
  OBVIOUS

\* What joining a sub-rule does: rejected if either is, else one expression and its values more.
LEMMA JoinedFacts ==
    ASSUME NEW n \in Nat, NEW done \in PartOf(n), NEW sub \in PredicateOf(n)
    PROVE  /\ Joined(done, sub) \in PartOf(n)
           /\ IsRejected(Joined(done, sub)) <=> IsRejected(done) \/ IsRejected(sub)
           /\ ~IsRejected(Joined(done, sub)) =>
                /\ Joined(done, sub).sql.op = done.sql.op
                /\ Joined(done, sub).sql.rules = Append(done.sql.rules, sub.sql)
                /\ Joined(done, sub).params = done.params \o sub.params
                /\ done.sql \in Joins(SqlOf[n]) /\ done.params \in Seq(Values)
                /\ sub.sql \in SqlOf[n] /\ sub.params \in Seq(Values)
<1>1. IsRejected(Rejected) /\ Rejected \in PartOf(n)
  BY DEF IsRejected, Rejected, PartOf
<1>2. CASE IsRejected(done) \/ IsRejected(sub)
  BY <1>1, <1>2 DEF Joined
<1>3. CASE ~IsRejected(done) /\ ~IsRejected(sub)
  <2> DEFINE sql == [done.sql EXCEPT !.rules = Append(@, sub.sql)]
             params == done.params \o sub.params
  <2>1. /\ done.sql \in Joins(SqlOf[n]) /\ done.params \in Seq(Values)
        /\ sub.sql \in SqlOf[n] /\ sub.params \in Seq(Values)
    BY <1>1, <1>3 DEF PartOf, PredicateOf
  <2>2. done.sql.rules \in Seq(SqlOf[n])
    BY <2>1 DEF Joins
  <2>3. Append(done.sql.rules, sub.sql) \in Seq(SqlOf[n])
    BY <2>1, <2>2, AppendFacts
  <2>4. sql \in Joins(SqlOf[n]) /\ sql.op = done.sql.op /\ sql.rules = Append(done.sql.rules, sub.sql)
    BY <2>1, <2>3 DEF Joins
  <2>5. params \in Seq(Values)
    BY <2>1
  <2>6. Joined(done, sub) = [sql |-> sql, params |-> params]
    BY <1>3 DEF Joined, Compiled
  <2> HIDE DEF sql, params
  <2>7. ~IsRejected(Joined(done, sub))
    BY <2>4, <2>6, SqlIsNotRejected DEF IsRejected
  <2>8. Joined(done, sub) \in PartOf(n)
    BY <2>4, <2>5, <2>6 DEF PartOf
  <2>9. Joined(done, sub).sql = sql /\ Joined(done, sub).params = params
    BY <2>6
  <2> QED
    BY <1>3, <2>1, <2>4, <2>7, <2>8, <2>9 DEF params
<1> QED
  BY <1>2, <1>3

\* The results of compiling the sub-rules of r one after the other, v being Compile one level down.
IsChain(done, r, p, v, n) ==
    /\ done[0] = Compiled([type |-> "compound", op |-> r.op, rules |-> <<>>], <<>>)
    /\ \A i \in 1..Len(r.rules) : done[i] = Joined(done[i - 1], v[r.rules[i]][p + Len(done[i - 1].params)])
    /\ \A i \in 0..Len(r.rules) : done[i] \in PartOf(n)

\* The sub-rules of a compound are compiled one after the other, and the last result counts.
LEMMA ChainExists ==
    ASSUME NEW n \in Nat, NEW r, IsCompound(r, RuleOf[n]), NEW p \in Nat,
           NEW v \in [RuleOf[n] -> [Nat -> PredicateOf(n)]]
    PROVE  \E done : /\ IsChain(done, r, p, v, n)
                     /\ CompileCompound(r, p, v) = IF r.rules = <<>> THEN Rejected ELSE done[Len(r.rules)]
<1> DEFINE len == Len(r.rules)
           zero == Compiled([type |-> "compound", op |-> r.op, rules |-> <<>>], <<>>)
           Following(d, i) == Joined(d, v[r.rules[i]][p + Len(d.params)])
           W == [i \in Nat |-> PartOf(n)]
           G == [i \in Nat |-> [d \in PartOf(n) |-> IF i < len THEN Following(d, i + 1) ELSE d]]
           Step(f) == [i \in 0..len |-> IF i = 0 THEN zero ELSE Following(f[i - 1], i)]
<1>0. len \in Nat /\ \A i \in 1..len : r.rules[i] \in RuleOf[n]
  BY DEF IsCompound
<1>1. zero \in PartOf(n)
  <2>1. [type |-> "compound", op |-> r.op, rules |-> <<>>] \in Joins(SqlOf[n])
    BY DEF IsCompound, Joins
  <2> QED
    BY <2>1 DEF Compiled, PartOf
<1>2. ASSUME NEW d \in PartOf(n), NEW i \in 1..len PROVE Following(d, i) \in PartOf(n)
  <2>1. d.params \in Seq(Values)
    <3>1. Rejected.params \in Seq(Values)
      BY DEF Rejected
    <3>2. d = Rejected \/ d \in [sql : Joins(SqlOf[n]), params : Seq(Values)]
      BY DEF PartOf
    <3> QED
      BY <3>1, <3>2
  <2>2. p + Len(d.params) \in Nat
    BY <2>1
  <2>3. v[r.rules[i]][p + Len(d.params)] \in PredicateOf(n)
    BY <2>2, <1>0
  <2> QED
    BY <2>3, JoinedFacts
<1> HIDE DEF zero, Following
<1>3. PICK f : f[0] = zero /\ \A i \in Nat : f[i + 1] = G[i][f[i]] /\ f[i] \in W[i]
  <2>1. zero \in W[0]
    BY <1>1
  <2>2. \A i \in Nat : \A d \in W[i] : G[i][d] \in W[i + 1]
    BY <1>2, <1>0
  <2> HIDE DEF G, W
  <2>3. Feeds(W, zero, G)
    BY <2>1, <2>2, Zenon DEF Feeds
  <2> QED
    BY <2>3, Iteration
<1> DEFINE g == [i \in 0..len |-> f[i]]
<1>4. g = Step(g)
  <2>1. \A i \in 1..len : i - 1 \in Nat /\ i - 1 < len /\ (i - 1) + 1 = i /\ i - 1 \in 0..len /\ i # 0
    BY <1>0
  <2>2. ASSUME NEW i \in 1..len PROVE f[i] = Following(f[i - 1], i)
    <3>1. f[i] = G[i - 1][f[i - 1]] /\ f[i - 1] \in PartOf(n)
      <4> HIDE DEF G
      <4> QED
        BY <1>3, <2>1
    <3>2. G[i - 1][f[i - 1]] = Following(f[i - 1], i)
      BY <3>1, <2>1
    <3> QED
      BY <3>1, <3>2
  <2>3. \A i \in 0..len : i = 0 \/ i \in 1..len
    BY <1>0
  <2>4. ASSUME NEW i \in 0..len PROVE g[i] = IF i = 0 THEN zero ELSE Following(g[i - 1], i)
    BY <1>3, <2>1, <2>2, <2>3
  <2>5. g = [i \in 0..len |-> g[i]]
    OBVIOUS
  <2> HIDE DEF g
  <2> QED
    BY <2>4, <2>5
<1> DEFINE done == CHOOSE h : h = Step(h)
<1>5. done = Step(done)
  BY <1>4
<1>6. CompileCompound(r, p, v) = IF r.rules = <<>> THEN Rejected ELSE done[len]
  BY Zenon DEF CompileCompound, zero, Following
<1> HIDE DEF done
<1>7. done[0] = zero /\ \A i \in 1..len : done[i] = Following(done[i - 1], i)
  <2>1. ASSUME NEW h, h = Step(h) PROVE h[0] = zero /\ \A i \in 1..len : h[i] = Following(h[i - 1], i)
    <3>1. 0 \in 0..len /\ \A i \in 1..len : i \in 0..len /\ i # 0
      BY <1>0
    <3>2. \A i \in 0..len : h[i] = IF i = 0 THEN zero ELSE Following(h[i - 1], i)
      <4> HIDE DEF len
      <4> QED
        BY <2>1
    <3> QED
      BY <3>1, <3>2
  <2> HIDE DEF Step
  <2> QED
    BY <1>5, <2>1
<1>8. \A i \in 0..len : done[i] \in PartOf(n)
  <2> DEFINE S == {i \in Nat : i <= len => done[i] \in PartOf(n)}
  <2>1. 0 \in S
    BY <1>7, <1>1
  <2>2. ASSUME NEW i \in Nat, i \in S PROVE i + 1 \in S
    <3>1. i + 1 <= len => i + 1 \in 1..len /\ done[i] \in PartOf(n) /\ (i + 1) - 1 = i
      BY <2>2, <1>0
    <3> QED
      BY <3>1, <1>2, <1>7
  <2>3. \A i \in Nat : i \in S
    <3> HIDE DEF S
    <3> QED
      BY <2>1, <2>2, Induction
  <2> QED
    BY <2>3, <1>0
<1> QED
  BY <1>6, <1>7, <1>8 DEF IsChain, zero, Following

\* Compile is defined at every depth, and gives a predicate or rejects the rule.
LEMMA CompileDef ==
    \A n \in Nat : /\ Compile[n] \in [RuleOf[n] -> [Nat -> PredicateOf(n)]]
                  /\ \A r \in RuleOf[n] : Compile[n][r] = [p \in Nat |-> CompileRule(r, p, Compile[n - 1])]
<1> DEFINE Step(f) == [n \in Nat |-> [r \in RuleOf[n] |-> [p \in Nat |-> CompileRule(r, p, f[n - 1])]]]
           W == [n \in Nat |-> [RuleOf[n] -> [Nat -> PredicateOf(n)]]]
           first == [r \in RuleOf[0] |-> [p \in Nat |-> CompileRule(r, p, <<>>)]]
           G == [n \in Nat |-> [v \in W[n] |-> [r \in RuleOf[n + 1] |-> [p \in Nat |-> CompileRule(r, p, v)]]]]
<1>1. ASSUME NEW w, NEW r \in RuleLeaves, NEW n \in Nat
      PROVE  /\ [p \in Nat |-> CompileRule(r, p, w)] \in [Nat -> PredicateOf(n)]
             /\ [p \in Nat |-> CompileRule(r, p, w)] = [p \in Nat |-> CompileRule(r, p, <<>>)]
  <2>1. ASSUME NEW p \in Nat PROVE CompileRule(r, p, w) \in PredicateOf(n)
    <3>1. CompileRule(r, p, w) \in {Rejected} \union [sql : SqlLeaves, params : Seq(Values)]
      BY CompileLeafType
    <3> QED
      BY <3>1, SqlIsNotRejected DEF PredicateOf
  <2>2. \A p \in Nat : CompileRule(r, p, w) = CompileRule(r, p, <<>>)
    BY CompileLeafType
  <2> QED
    BY <2>1, <2>2
<1>2. ASSUME NEW n \in Nat, NEW w \in [RuleOf[n] -> [Nat -> PredicateOf(n)]], NEW r \in RuleOf[n + 1]
      PROVE  [p \in Nat |-> CompileRule(r, p, w)] \in [Nat -> PredicateOf(n + 1)]
  <2>1. CASE r \in RuleLeaves
    BY <1>1, <2>1
  <2>2. CASE IsCompound(r, RuleOf[n])
    <3>1. ASSUME NEW p \in Nat PROVE CompileRule(r, p, w) \in PredicateOf(n + 1)
      <4>1. CompileRule(r, p, w) = CompileCompound(r, p, w)
        BY <2>2 DEF IsCompound, CompileRule
      <4>2. PICK done : /\ IsChain(done, r, p, w, n)
                        /\ CompileCompound(r, p, w) = IF r.rules = <<>> THEN Rejected ELSE done[Len(r.rules)]
        BY <2>2, ChainExists
      <4>3. done[Len(r.rules)] \in PartOf(n)
        BY <2>2, <4>2 DEF IsChain, IsCompound
      <4>4. CompileRule(r, p, w) \in PartOf(n)
        BY <4>1, <4>2, <4>3 DEF PartOf
      <4> QED
        BY <4>4, SqlIsNotRejected DEF PartOf, PredicateOf
    <3> QED
      BY <3>1
  <2> QED
    BY <2>1, <2>2, RuleCases
<1>3. \E f : f = Step(f)
  <2>1. first \in W[0]
    BY <1>1, RuleCases
  <2>2. \A n \in Nat : \A v \in W[n] : G[n][v] \in W[n + 1]
    BY <1>2
  <2>3. PICK f : /\ f = [n \in Nat |-> IF n = 0 THEN first ELSE G[n - 1][f[n - 1]]]
                 /\ \A n \in Nat : f[n] \in W[n]
    <3> HIDE DEF first, G, W
    <3> QED
      BY <2>1, <2>2, Recursion
  <2>4. ASSUME NEW n \in Nat PROVE f[n] = [r \in RuleOf[n] |-> [p \in Nat |-> CompileRule(r, p, f[n - 1])]]
    <3>1. CASE n = 0
      <4>1. f[n] = first
        BY <3>1, <2>3
      <4>2. \A r \in RuleOf[n] : first[r] = [p \in Nat |-> CompileRule(r, p, f[n - 1])]
        <5>1. ASSUME NEW r \in RuleOf[n]
              PROVE  [p \in Nat |-> CompileRule(r, p, f[n - 1])] = [p \in Nat |-> CompileRule(r, p, <<>>)]
          BY <3>1, <1>1, RuleCases, Zenon
        <5> QED
          BY <5>1, <3>1
      <4> QED
        BY <4>1, <4>2, <3>1
    <3>2. CASE n # 0
      <4>1. n - 1 \in Nat /\ (n - 1) + 1 = n
        BY <3>2
      <4>2. f[n] = G[n - 1][f[n - 1]] /\ f[n - 1] \in W[n - 1]
        BY <2>3, <3>2, <4>1
      <4> QED
        BY <4>1, <4>2
    <3> QED
      BY <3>1, <3>2
  <2>5. f = Step(f)
    BY <2>3, <2>4
  <2> QED
    BY <2>5
<1>4. Compile = Step(Compile)
  <2> DEFINE w == CHOOSE f : f = Step(f)
  <2>1. w = Step(w)
    BY <1>3
  <2>2. Compile = w
    BY Zenon DEF Compile
  <2> HIDE DEF w, Step
  <2> QED
    BY <2>1, <2>2
<1>5. \A n \in Nat : Compile[n] = [r \in RuleOf[n] |-> [p \in Nat |-> CompileRule(r, p, Compile[n - 1])]]
  <2>1. ASSUME NEW f, f = Step(f), NEW n \in Nat PROVE f[n] = [r \in RuleOf[n] |-> [p \in Nat |-> CompileRule(r, p, f[n - 1])]]
    BY <2>1
  <2> HIDE DEF Step
  <2> QED
    BY <1>4, <2>1
<1>6. \A n \in Nat : Compile[n] \in [RuleOf[n] -> [Nat -> PredicateOf(n)]]
  <2> DEFINE S == {n \in Nat : Compile[n] \in [RuleOf[n] -> [Nat -> PredicateOf(n)]]}
  <2>1. 0 \in S
    <3>1. Compile[0] = [r \in RuleOf[0] |-> [p \in Nat |-> CompileRule(r, p, Compile[0 - 1])]]
      BY <1>5
    <3>2. \A r \in RuleOf[0] : [p \in Nat |-> CompileRule(r, p, Compile[0 - 1])] \in [Nat -> PredicateOf(0)]
      BY <1>1, RuleCases
    <3> QED
      BY <3>1, <3>2
  <2>2. ASSUME NEW n \in Nat, n \in S PROVE n + 1 \in S
    <3>1. Compile[n + 1] = [r \in RuleOf[n + 1] |-> [p \in Nat |-> CompileRule(r, p, Compile[n])]]
      BY <1>5
    <3> QED
      BY <1>2, <2>2, <3>1
  <2>3. \A n \in Nat : n \in S
    <3> HIDE DEF S
    <3> QED
      BY <2>1, <2>2, Induction
  <2> QED
    BY <2>3
<1> QED
  BY <1>5, <1>6

-----------------------------------------------------------------------------
(* What a compiled rule means *)

\* A predicate's values, at the places where its SQL looks for them.
ValuesAt(s, P, p) == \A j \in 1..Len(s) : P[p + j] = s[j]
Placed(q, P, p) == ValuesAt(q.params, P, p)

\* The segments of the membership tests in some SQL leaves.
SegmentsOf(leaves, P) == {P[l.segment] : l \in {leaf \in leaves : leaf.type = "member"}}

\* A window in SQL is true when the count or sum over its rows compares as the rule says.
LEMMA WindowMeans ==
    ASSUME NEW d \in Database, NEW r \in RuleLeaves, NEW p \in Nat, NEW c \in CustomerIds, NEW a \in {"count", "sum"}, NEW P,
           NEW q, q = CompileWindow(r, p, a), r.type \in {"date_window_count", "sum_threshold"},
           r.type = IF a = "count" THEN "date_window_count" ELSE "sum_threshold",
           ~IsRejected(q), Placed(q, P, p), NEW t
    PROVE  /\ q.sql \in SqlLeaves /\ q.sql.type = "window"
           /\ (SqlTruth(q.sql, P, c, d, t) = "true") <=> LeafHolds(r, c, d)
<1>1. /\ r.operator \in ScalarOperators
      /\ q.sql = [type |-> "window", aggregate |-> a, operator |-> r.operator,
                  days |-> p + 1, value |-> p + 2]
      /\ q.params = <<r.windowDays, r.value>>
  BY DEF CompileWindow, IsRejected, Rejected, Compiled
<1>2. q.sql \in SqlLeaves
  BY <1>1 DEF SqlLeaves
<1>3. P[p + 1] = r.windowDays /\ P[p + 2] = r.value
  BY <1>1 DEF Placed, ValuesAt
<1>4. r.windowDays \in Int
  BY RuleLeafTypes
<1> DEFINE rows == {i \in DOMAIN d.txs[c] : InWindow(d.txs[c][i], r.windowDays, d.now)}
           recent == {i \in DOMAIN d.txs[c] : d.now - d.txs[c][i].at <= r.windowDays}
<1>5. rows = recent
  <2>1. d.now \in Int /\ \A i \in DOMAIN d.txs[c] : d.txs[c][i].at \in Int
    <3>1. d.now \in Int /\ d.txs[c] \in Seq(Tx)
      BY DEF Database
    <3>2. \A s \in Seq(Tx) : \A i \in DOMAIN s : s[i] \in Tx
      OBVIOUS
    <3> QED
      BY <3>1, <3>2 DEF Tx
  <2>2. \A i \in DOMAIN d.txs[c] :
          InWindow(d.txs[c][i], r.windowDays, d.now) <=> d.now - d.txs[c][i].at <= r.windowDays
    BY <2>1, <1>4 DEF InWindow
  <2> QED
    BY <2>2, Zenon
<1>6. Aggregate(a, d.txs[c], r.windowDays, d.now) = IF a = "count" THEN Cardinality(recent) ELSE SumOf(d.txs[c], recent)
  BY <1>5 DEF Aggregate
<1>7. (SqlTruth(q.sql, P, c, d, t) = "true") <=> Compares(Aggregate(a, d.txs[c], r.windowDays, d.now), r.operator, r.value)
  BY <1>1, <1>3 DEF SqlTruth
<1>8. LeafHolds(r, c, d) <=> Compares(IF a = "count" THEN Cardinality(recent) ELSE SumOf(d.txs[c], recent), r.operator, r.value)
  BY DEF LeafHolds
<1> HIDE DEF rows, recent
<1> QED
  BY <1>1, <1>2, <1>6, <1>7, <1>8

\* A comparison with a column is true when the rule says so, NULL included.
LEMMA FieldMeans ==
    ASSUME NEW d \in Database, NEW r \in RuleLeaves, NEW p \in Nat, NEW c \in CustomerIds, NEW P,
           NEW q, q = CompileField(r, p), r.type = "field_comparison", ~IsRejected(q), Placed(q, P, p), NEW t
    PROVE  /\ q.sql \in SqlLeaves /\ q.sql.type = "column"
           /\ (SqlTruth(q.sql, P, c, d, t) = "true") <=> LeafHolds(r, c, d)
<1> DEFINE listed == r.operator \in {"in", "not_in"}
           value == IF listed THEN r.values ELSE r.value
           x == d.rows[c][CustomerFieldMap[r.field]]
<1>1. /\ r.operator \in Operators /\ r.field \in DOMAIN CustomerFieldMap
      /\ q.sql = [type |-> "column", column |-> CustomerFieldMap[r.field],
                  operator |-> r.operator, value |-> p + 1]
      /\ q.params = <<value>>
  BY DEF CompileField, IsRejected, Rejected, Compiled, Operators
<1>2. CustomerFieldMap[r.field] \in CustomerColumns
  BY <1>1 DEF CustomerFieldMap, CustomerColumns
<1>3. q.sql \in SqlLeaves
  BY <1>1, <1>2 DEF SqlLeaves
<1>4. P[p + 1] = value
  BY <1>1 DEF Placed, ValuesAt
<1>5. SqlTruth(q.sql, P, c, d, t) = ColumnTruth(x, r.operator, value)
  BY <1>1, <1>4 DEF SqlTruth
<1>6. LeafHolds(r, c, d) <=> CASE r.operator = "in" -> x # Null /\ x \in r.values
             [] r.operator = "not_in" -> (x # Null \/ r.values = {}) /\ x \notin r.values
             [] OTHER -> x # Null /\ Compares(x, r.operator, r.value)
  BY DEF LeafHolds
<1> HIDE DEF x
<1>7. (ColumnTruth(x, r.operator, value) = "true") <=> LeafHolds(r, c, d)
  <2>1. CASE r.operator = "in"
    BY <2>1, <1>6 DEF ColumnTruth
  <2>2. CASE r.operator = "not_in"
    BY <2>2, <1>6 DEF ColumnTruth
  <2>3. CASE ~listed
    BY <2>3, <1>6 DEF ColumnTruth
  <2> QED
    BY <2>1, <2>2, <2>3
<1> QED
  BY <1>1, <1>3, <1>5, <1>7

\* The SQL of a leaf is true for the customers for whom the leaf holds.
LEMMA LeafMeans ==
    ASSUME NEW d \in Database, NEW r \in RuleLeaves, NEW p \in Nat, NEW c \in CustomerIds, NEW P, NEW w, NEW t,
           NEW q, q = CompileRule(r, p, w), ~IsRejected(q), Placed(q, P, p)
    PROVE  /\ q.sql \in SqlLeaves
           /\ (SqlTruth(q.sql, P, c, d, t) = "true") <=> LeafHolds(r, c, d)
<1>1. CASE r.type = "date_window_count"
  <2>1. q = CompileWindow(r, p, "count")
    BY <1>1 DEF CompileRule, IsRejected, Rejected
  <2> QED
    BY <1>1, <2>1, WindowMeans
<1>2. CASE r.type = "sum_threshold"
  <2>1. q = CompileWindow(r, p, "sum")
    BY <1>2 DEF CompileRule
  <2> QED
    BY <1>2, <2>1, WindowMeans
<1>3. CASE r.type = "field_comparison"
  <2>1. q = CompileField(r, p)
    BY <1>3 DEF CompileRule
  <2> QED
    BY <1>3, <2>1, FieldMeans
<1>4. CASE r.type = "segment_membership"
  <2>1. q.sql = [type |-> "member", segment |-> p + 1] /\ q.params = <<r.segmentId>>
    BY <1>4 DEF CompileRule, CompileMembership, Compiled
  <2>2. q.sql \in SqlLeaves
    BY <2>1 DEF SqlLeaves
  <2>3. P[p + 1] = r.segmentId
    BY <2>1 DEF Placed, ValuesAt
  <2> QED
    BY <1>4, <2>1, <2>2, <2>3 DEF SqlTruth, LeafHolds
<1> QED
  BY <1>1, <1>2, <1>3, <1>4, RuleLeafTypes

\* The segments a leaf's SQL reads are those that the walk finds.
LEMMA LeafReads ==
    ASSUME NEW r \in RuleLeaves, NEW p \in Nat, NEW P, NEW w, NEW v,
           NEW q, q = CompileRule(r, p, w), ~IsRejected(q), Placed(q, P, p)
    PROVE  SegmentsOf({q.sql}, P) = WalkRule(r, v)
<1>1. CASE r.type = "segment_membership"
  <2>1. q.sql = [type |-> "member", segment |-> p + 1] /\ q.params = <<r.segmentId>>
    BY <1>1 DEF CompileRule, CompileMembership, Compiled
  <2>2. P[p + 1] = r.segmentId
    BY <2>1 DEF Placed, ValuesAt
  <2> QED
    BY <1>1, <2>1, <2>2 DEF SegmentsOf, WalkRule
<1>2. CASE r.type # "segment_membership"
  <2>1. q.sql.type \in {"window", "column"}
    BY <1>2, RuleLeafTypes DEF CompileRule, CompileWindow, CompileField, IsRejected, Rejected, Compiled
  <2>2. WalkRule(r, v) = {}
    BY <1>2, RuleLeafTypes DEF WalkRule
  <2> QED
    BY <2>1, <2>2 DEF SegmentsOf
<1> QED
  BY <1>1, <1>2

\* What \o does to sequences.
LEMMA ConcatFacts ==
    ASSUME NEW S, NEW s \in Seq(S), NEW t \in Seq(S)
    PROVE  /\ s \o t \in Seq(S) /\ Len(s) \in Nat /\ Len(t) \in Nat
           /\ Len(s \o t) = Len(s) + Len(t)
           /\ \A j \in 1..Len(s) : (s \o t)[j] = s[j]
           /\ \A j \in 1..Len(t) : (s \o t)[Len(s) + j] = t[j]
  OBVIOUS

\* The values of a joined predicate are in the places of both of its parts.
LEMMA PlacesJoin ==
    ASSUME NEW s \in Seq(Values), NEW t \in Seq(Values), NEW P, NEW p \in Nat, ValuesAt(s \o t, P, p)
    PROVE  ValuesAt(s, P, p) /\ ValuesAt(t, P, p + Len(s))
<1>1. ASSUME NEW j \in 1..Len(s) PROVE P[p + j] = s[j]
  <2>1. j \in 1..Len(s \o t) /\ (s \o t)[j] = s[j]
    BY ConcatFacts
  <2> QED
    BY <2>1 DEF ValuesAt
<1>2. ASSUME NEW j \in 1..Len(t) PROVE P[(p + Len(s)) + j] = t[j]
  <2>1. Len(s) + j \in 1..Len(s \o t) /\ (s \o t)[Len(s) + j] = t[j]
    BY ConcatFacts
  <2>2. P[p + (Len(s) + j)] = (s \o t)[Len(s) + j]
    BY <2>1 DEF ValuesAt
  <2>3. (p + Len(s)) + j = p + (Len(s) + j)
    BY ConcatFacts
  <2> QED
    BY <2>1, <2>2, <2>3
<1> QED
  BY <1>1, <1>2 DEF ValuesAt

\* The predicate of the sub-rule j of a compound, compiled after those before it.
SubOf(done, r, p, v, j) == v[r.rules[j]][p + Len(done[j - 1].params)]

\* What the parts of a chain are while none was rejected.
ChainParts(done, r, p, v, i) ==
    /\ done[i].sql.op = r.op
    /\ Len(done[i].sql.rules) = i
    /\ \A j \in 1..i :
         LET sub == SubOf(done, r, p, v, j) IN
         /\ ~IsRejected(sub)
         /\ done[i].sql.rules[j] = sub.sql
         /\ p + Len(done[j - 1].params) \in Nat
         /\ \A P : Placed(done[i], P, p) => Placed(sub, P, p + Len(done[j - 1].params))

\* As long as nothing is rejected, the sub-rules compiled so far are all in the chain, each with
\* its values where its placeholders look for them.
LEMMA ChainMeans ==
    ASSUME NEW n \in Nat, NEW r, IsCompound(r, RuleOf[n]), NEW p \in Nat,
           NEW v \in [RuleOf[n] -> [Nat -> PredicateOf(n)]], NEW done, IsChain(done, r, p, v, n)
    PROVE  \A i \in 0..Len(r.rules) : ~IsRejected(done[i]) => ChainParts(done, r, p, v, i)
<1> DEFINE len == Len(r.rules)
           S == {i \in Nat : i <= len /\ ~IsRejected(done[i]) => ChainParts(done, r, p, v, i)}
<1>0. len \in Nat /\ \A i \in 1..len : r.rules[i] \in RuleOf[n]
  BY DEF IsCompound
<1>1. 0 \in S
  BY DEF IsChain, ChainParts, Compiled
<1>2. ASSUME NEW i \in Nat, i \in S PROVE i + 1 \in S
  <2> SUFFICES ASSUME i + 1 <= len, ~IsRejected(done[i + 1]) PROVE ChainParts(done, r, p, v, i + 1)
    OBVIOUS
  <2> DEFINE sub == SubOf(done, r, p, v, i + 1)
             old == done[i]
             new == done[i + 1]
  <2>1. /\ i + 1 \in 1..len /\ i \in 0..len /\ i + 1 \in 0..len /\ (i + 1) - 1 = i /\ i <= len
    BY <1>0
  <2>2. old \in PartOf(n) /\ new \in PartOf(n)
    BY <2>1 DEF IsChain
  <2>3. Len(old.params) \in Nat
    BY <2>2 DEF PartOf, Rejected
  <2>4. sub \in PredicateOf(n) /\ new = Joined(old, sub)
    BY <2>1, <2>3, <1>0 DEF IsChain, SubOf
  <2>5. /\ ~IsRejected(old) /\ ~IsRejected(sub)
        /\ new.sql.op = old.sql.op
        /\ new.sql.rules = Append(old.sql.rules, sub.sql)
        /\ new.params = old.params \o sub.params
        /\ old.sql \in Joins(SqlOf[n]) /\ old.params \in Seq(Values)
        /\ sub.sql \in SqlOf[n] /\ sub.params \in Seq(Values)
    <3>0. ~IsRejected(Joined(old, sub))
      BY <2>4
    <3> HIDE DEF sub, old
    <3>1. /\ ~IsRejected(old) /\ ~IsRejected(sub)
          /\ Joined(old, sub).sql.op = old.sql.op
          /\ Joined(old, sub).sql.rules = Append(old.sql.rules, sub.sql)
          /\ Joined(old, sub).params = old.params \o sub.params
          /\ old.sql \in Joins(SqlOf[n]) /\ old.params \in Seq(Values)
          /\ sub.sql \in SqlOf[n] /\ sub.params \in Seq(Values)
      BY <3>0, <2>2, <2>4, JoinedFacts
    <3> HIDE DEF new
    <3> QED
      BY <3>1, <2>4, Zenon
  <2>6. ChainParts(done, r, p, v, i)
    BY <1>2, <2>1, <2>5
  <2>7. old.sql.rules \in Seq(SqlOf[n])
    BY <2>5 DEF Joins
  <2>8. /\ Len(new.sql.rules) = i + 1
        /\ \A j \in 1..i : new.sql.rules[j] = old.sql.rules[j]
        /\ new.sql.rules[i + 1] = sub.sql
    <3>1. Len(old.sql.rules) = i
      BY <2>6 DEF ChainParts
    <3> DEFINE os == old.sql.rules
               e == sub.sql
    <3>2. os \in Seq(SqlOf[n]) /\ e \in SqlOf[n] /\ Len(os) = i /\ new.sql.rules = Append(os, e)
      BY <2>5, <2>7, <3>1
    <3> HIDE DEF os, e
    <3>3. /\ Len(Append(os, e)) = Len(os) + 1
          /\ \A j \in 1..Len(os) : Append(os, e)[j] = os[j]
          /\ Append(os, e)[Len(os) + 1] = e
      BY <3>2, AppendFacts
    <3>4. /\ Len(new.sql.rules) = i + 1
          /\ \A j \in 1..i : new.sql.rules[j] = os[j]
          /\ new.sql.rules[i + 1] = e
      BY <3>2, <3>3
    <3> QED
      BY <3>4 DEF os, e
  <2>9. ASSUME NEW P, Placed(new, P, p)
        PROVE  Placed(old, P, p) /\ Placed(sub, P, p + Len(old.params))
    <3> DEFINE s == old.params
               t == sub.params
    <3>1. s \in Seq(Values) /\ t \in Seq(Values) /\ ValuesAt(s \o t, P, p)
      BY <2>5, <2>9 DEF Placed
    <3> HIDE DEF s, t
    <3>2. ValuesAt(s, P, p) /\ ValuesAt(t, P, p + Len(s))
      BY <3>1, PlacesJoin
    <3> QED
      BY <3>2 DEF s, t, Placed
  <2>10. ASSUME NEW j \in 1..(i + 1)
         PROVE  LET subj == SubOf(done, r, p, v, j) IN
                /\ ~IsRejected(subj)
                /\ new.sql.rules[j] = subj.sql
                /\ p + Len(done[j - 1].params) \in Nat
                /\ \A P : Placed(new, P, p) => Placed(subj, P, p + Len(done[j - 1].params))
    <3>1. CASE j \in 1..i
      <4> DEFINE subj == SubOf(done, r, p, v, j)
                 at == p + Len(done[j - 1].params)
      <4>1. /\ ~IsRejected(subj)
            /\ old.sql.rules[j] = subj.sql
            /\ at \in Nat
            /\ \A P : Placed(old, P, p) => Placed(subj, P, at)
        BY <3>1, <2>6 DEF ChainParts
      <4>2. new.sql.rules[j] = old.sql.rules[j]
        BY <3>1, <2>8
      <4> HIDE DEF subj, at
      <4>3. \A P : Placed(new, P, p) => Placed(subj, P, at)
        BY <4>1, <2>9
      <4> QED
        BY <4>1, <4>2, <4>3 DEF subj, at
    <3>2. CASE j = i + 1
      <4>1. done[j - 1] = old /\ SubOf(done, r, p, v, j) = sub
        BY <3>2, <2>1
      <4> HIDE DEF sub
      <4>2. p + Len(done[j - 1].params) \in Nat
        BY <4>1, <2>3
      <4>3. \A P : Placed(new, P, p) => Placed(sub, P, p + Len(done[j - 1].params))
        BY <4>1, <2>9
      <4> QED
        BY <4>1, <4>2, <4>3, <3>2, <2>5, <2>8
    <3> QED
      BY <3>1, <3>2
  <2>11. new.sql.op = r.op
    BY <2>5, <2>6 DEF ChainParts
  <2> QED
    BY <2>8, <2>10, <2>11 DEF ChainParts
<1>3. \A i \in Nat : i \in S
  <2> HIDE DEF S
  <2> QED
    BY <1>1, <1>2, Induction
<1> QED
  BY <1>0, <1>3

\* The truths of the expressions that are joined.
TruthsOf(truth, kids, I) == {truth[kids[i]] : i \in I}

\* The truths of the joined expressions.
LEMMA TruthsOfDef ==
    ASSUME NEW I, NEW truth, NEW kids, \A i \in I : truth[kids[i]] \in Truths
    PROVE  /\ TruthsOf(truth, kids, I) \in SUBSET Truths
           /\ (\A t \in TruthsOf(truth, kids, I) : t = "true") <=> (\A i \in I : truth[kids[i]] = "true")
           /\ ("true" \in TruthsOf(truth, kids, I)) <=> (\E i \in I : truth[kids[i]] = "true")
  BY DEF TruthsOf

\* AND is true when every part is, OR when one is: NULL makes neither true.
LEMMA ConnectedTrue ==
    ASSUME NEW op \in {"and", "or"}, NEW T \in SUBSET Truths
    PROVE  (Connected(op, T) = "true") <=> IF op = "and" THEN \A t \in T : t = "true" ELSE "true" \in T
  BY DEF Connected, Truths

\* The compiled predicate, with its values where the SQL looks for them, is true for the
\* customers for whom the rule holds, and reads the segments that the walk finds.
MeansRule(d, n, r, q, P) ==
    /\ \A c \in CustomerIds : (TruthOf(P, c, d)[n][q.sql] = "true") <=> c \in MembersOf(d)[n][r]
    /\ SegmentsOf(LeavesOf(SqlLeaves)[n][q.sql], P) = Walk[n][r]

Means(d, n) ==
    \A r \in RuleOf[n], p \in Nat : \A P :
        ~IsRejected(Compile[n][r][p]) /\ Placed(Compile[n][r][p], P, p) =>
            MeansRule(d, n, r, Compile[n][r][p], P)

\* A compiled leaf means what the leaf does.
LEMMA LeafCase ==
    ASSUME NEW d \in Database, NEW n \in Nat, NEW r \in RuleOf[n], r \in RuleLeaves, NEW p \in Nat, NEW P,
           NEW q, q = Compile[n][r][p], ~IsRejected(q), Placed(q, P, p)
    PROVE  MeansRule(d, n, r, q, P)
<1>1. q = CompileRule(r, p, Compile[n - 1])
  <2>1. Compile[n][r] = [i \in Nat |-> CompileRule(r, i, Compile[n - 1])]
    BY CompileDef
  <2> QED
    BY <2>1
<1>2. r.type # "compound"
  BY RuleCases
<1>3. q.sql \in SqlLeaves /\ q.sql \in SqlOf[n] /\ q.sql.type # "compound"
  <2>2. q \in {Rejected} \union [sql : SqlLeaves, params : Seq(Values)]
    BY <1>1, CompileLeafType
  <2>3. q.sql \in SqlLeaves
    BY <2>2 DEF IsRejected, Rejected
  <2> QED
    BY <2>3, SqlIsNotRejected, SqlCases
<1>4. ASSUME NEW c \in CustomerIds PROVE (TruthOf(P, c, d)[n][q.sql] = "true") <=> c \in MembersOf(d)[n][r]
  <2> DEFINE t == TruthOf(P, c, d)[n - 1]
  <2>1. TruthOf(P, c, d)[n][q.sql] = SqlTruth(q.sql, P, c, d, t)
    BY <1>3, TruthDef
  <2>2. MembersOf(d)[n][r] = MembersIn(r, d, MembersOf(d)[n - 1])
    BY MembersDef
  <2>3. c \in MembersOf(d)[n][r] <=> LeafHolds(r, c, d)
    BY <2>2, <1>2 DEF MembersIn, Database
  <2>4. (SqlTruth(q.sql, P, c, d, t) = "true") <=> LeafHolds(r, c, d)
    <3> HIDE DEF t
    <3> QED
      BY <1>1, LeafMeans
  <2> QED
    BY <2>1, <2>3, <2>4
<1>5. SegmentsOf(LeavesOf(SqlLeaves)[n][q.sql], P) = Walk[n][r]
  <2>1. LeavesOf(SqlLeaves)[n][q.sql] = LeavesIn(q.sql, LeavesOf(SqlLeaves)[n - 1])
    BY <1>3, SqlCases, LeavesDef DEF SqlOf
  <2>2. LeavesOf(SqlLeaves)[n][q.sql] = {q.sql}
    BY <2>1, <1>3, Zenon DEF LeavesIn
  <2>3. Walk[n][r] = WalkRule(r, Walk[n - 1])
    BY WalkDef
  <2>4. SegmentsOf({q.sql}, P) = WalkRule(r, Walk[n - 1])
    BY <1>1, LeafReads
  <2> QED
    BY <2>2, <2>3, <2>4
<1> QED
  BY <1>4, <1>5 DEF MeansRule

\* A compiled compound means what it does when the rules it joins do.
LEMMA CompoundCase ==
    ASSUME NEW d \in Database, NEW n \in Nat, Means(d, n),
           NEW r \in RuleOf[n + 1], IsCompound(r, RuleOf[n]), NEW p \in Nat, NEW P,
           NEW q, q = Compile[n + 1][r][p], ~IsRejected(q), Placed(q, P, p)
    PROVE  MeansRule(d, n + 1, r, q, P)
<1> DEFINE v == Compile[n]
           len == Len(r.rules)
<1>0. n + 1 \in Nat /\ (n + 1) - 1 = n /\ len \in Nat /\ DOMAIN r.rules = 1..len /\ \A i \in 1..len : r.rules[i] \in RuleOf[n]
  BY DEF IsCompound
<1>1. v \in [RuleOf[n] -> [Nat -> PredicateOf(n)]]
  BY CompileDef
<1>2. q = CompileCompound(r, p, v)
  <2>1. Compile[n + 1][r] = [i \in Nat |-> CompileRule(r, i, v)]
    BY <1>0, CompileDef
  <2> QED
    BY <2>1 DEF CompileRule, IsCompound
<1> HIDE DEF v
<1>3. PICK done : /\ IsChain(done, r, p, v, n)
                  /\ CompileCompound(r, p, v) = IF r.rules = <<>> THEN Rejected ELSE done[len]
  BY <1>1, ChainExists
<1>4. q = done[len] /\ ChainParts(done, r, p, v, len)
  <2>1. q = done[len]
    BY <1>2, <1>3 DEF IsRejected, Rejected
  <2> QED
    BY <2>1, <1>0, <1>1, <1>3, ChainMeans
<1> DEFINE sub(i) == SubOf(done, r, p, v, i)
<1>5. /\ q.sql \in Joins(SqlOf[n]) /\ q.sql \in SqlOf[n + 1] /\ q.sql.type = "compound"
      /\ q.sql.op = r.op
      /\ DOMAIN q.sql.rules = 1..len
  <2>1. q.sql \in Joins(SqlOf[n])
    BY <1>0, <1>3, <1>4 DEF IsChain, PartOf, IsRejected, Rejected
  <2>2. q.sql.rules \in Seq(SqlOf[n])
    BY <2>1 DEF Joins
  <2> QED
    BY <2>1, <2>2, <1>4, SqlIsNotRejected DEF ChainParts
<1>6. ASSUME NEW i \in 1..len
      PROVE  /\ q.sql.rules[i] = sub(i).sql
             /\ sub(i).sql \in SqlOf[n]
             /\ \A c \in CustomerIds : (TruthOf(P, c, d)[n][sub(i).sql] = "true") <=> c \in MembersOf(d)[n][r.rules[i]]
             /\ SegmentsOf(LeavesOf(SqlLeaves)[n][sub(i).sql], P) = Walk[n][r.rules[i]]
  <2> DEFINE at == p + Len(done[i - 1].params)
             s == Compile[n][r.rules[i]][at]
  <2>1. sub(i) = s
    BY DEF SubOf, v
  <2>2. ~IsRejected(sub(i)) /\ q.sql.rules[i] = sub(i).sql /\ at \in Nat /\ Placed(sub(i), P, at)
    BY <1>4 DEF ChainParts
  <2>3. sub(i) \in PredicateOf(n)
    <3>1. r.rules[i] \in RuleOf[n] /\ at \in Nat
      BY <1>0, <2>2
    <3> HIDE DEF at, sub, len
    <3>2. v[r.rules[i]][at] \in PredicateOf(n)
      BY <3>1, <1>1
    <3> QED
      BY <3>2, <2>1 DEF v
  <2>4. sub(i).sql \in SqlOf[n]
    BY <2>2, <2>3 DEF PredicateOf, IsRejected, Rejected
  <2>5. /\ \A c \in CustomerIds : (TruthOf(P, c, d)[n][s.sql] = "true") <=> c \in MembersOf(d)[n][r.rules[i]]
        /\ SegmentsOf(LeavesOf(SqlLeaves)[n][s.sql], P) = Walk[n][r.rules[i]]
    <3>1. r.rules[i] \in RuleOf[n] /\ at \in Nat /\ ~IsRejected(s) /\ Placed(s, P, at)
      BY <1>0, <2>1, <2>2, Zenon
    <3>2. MeansRule(d, n, r.rules[i], s, P)
      <4> HIDE DEF at
      <4> QED
        BY <3>1, Zenon DEF Means
    <3> QED
      BY <3>2, Zenon DEF MeansRule
  <2> HIDE DEF sub, s
  <2> QED
    BY <2>1, <2>2, <2>4, <2>5
<1>7. ASSUME NEW c \in CustomerIds
      PROVE  (TruthOf(P, c, d)[n + 1][q.sql] = "true") <=> c \in MembersOf(d)[n + 1][r]
  <2> DEFINE truth == TruthOf(P, c, d)[n]
             below == MembersOf(d)[n]
             kids == q.sql.rules
  <2>1. TruthOf(P, c, d)[n + 1][q.sql] = SqlTruth(q.sql, P, c, d, truth)
    BY <1>0, <1>5, TruthDef
  <2>2. SqlTruth(q.sql, P, c, d, truth) = Connected(r.op, TruthsOf(truth, kids, 1..len))
    BY <1>5 DEF SqlTruth, TruthsOf
  <2>3. \A i \in 1..len : truth[kids[i]] \in Truths /\ ((truth[kids[i]] = "true") <=> c \in below[r.rules[i]])
    <3>1. truth \in [SqlOf[n] -> Truths]
      BY TruthDef
    <3> QED
      BY <3>1, <1>6
  <2>4. (Connected(r.op, TruthsOf(truth, kids, 1..len)) = "true") <=>
            IF r.op = "and" THEN \A i \in 1..len : truth[kids[i]] = "true" ELSE \E i \in 1..len : truth[kids[i]] = "true"
    <3>1. r.op \in {"and", "or"} /\ \A i \in 1..len : truth[kids[i]] \in Truths
      BY <2>3, Zenon DEF IsCompound
    <3> HIDE DEF kids, truth, len
    <3> DEFINE T == TruthsOf(truth, kids, 1..len)
               op == r.op
    <3>2. /\ T \in SUBSET Truths
          /\ (\A t \in T : t = "true") <=> (\A i \in 1..len : truth[kids[i]] = "true")
          /\ ("true" \in T) <=> (\E i \in 1..len : truth[kids[i]] = "true")
      BY <3>1, TruthsOfDef
    <3>3. op \in {"and", "or"} /\ T \in SUBSET Truths
      BY <3>1, <3>2
    <3> HIDE DEF T, op
    <3>4. (Connected(op, T) = "true") <=> IF op = "and" THEN \A t \in T : t = "true" ELSE "true" \in T
      BY <3>3, ConnectedTrue
    <3>5. (Connected(op, T) = "true") <=>
            IF op = "and" THEN \A i \in 1..len : truth[kids[i]] = "true" ELSE \E i \in 1..len : truth[kids[i]] = "true"
      BY <3>2, <3>4
    <3> QED
      BY <3>5 DEF T, op
  <2>5. MembersOf(d)[n + 1][r] = MembersIn(r, d, below)
    BY <1>0, MembersDef
  <2>6. c \in MembersIn(r, d, below) <=>
            IF r.op = "and" THEN \A i \in 1..len : c \in below[r.rules[i]] ELSE \E i \in 1..len : c \in below[r.rules[i]]
    <3>1. c \in DOMAIN d.rows
      BY DEF Database
    <3> HIDE DEF below
    <3> QED
      BY <3>1, <1>0 DEF MembersIn, IsCompound
  <2> HIDE DEF kids, below, truth
  <2> QED
    BY <2>1, <2>2, <2>3, <2>4, <2>5, <2>6
<1>8. SegmentsOf(LeavesOf(SqlLeaves)[n + 1][q.sql], P) = Walk[n + 1][r]
  <2> DEFINE leaves == LeavesOf(SqlLeaves)[n]
             walk == Walk[n]
             kids == q.sql.rules
  <2>1. LeavesOf(SqlLeaves)[n + 1][q.sql] = UNION {leaves[kids[i]] : i \in 1..len}
    <3>1. LeavesOf(SqlLeaves)[n + 1][q.sql] = LeavesIn(q.sql, leaves)
      <4>1. \A m \in Nat : \A e \in SqlOf[m] :
              LeavesOf(SqlLeaves)[m][e] = LeavesIn(e, LeavesOf(SqlLeaves)[m - 1])
        BY SqlCases, LeavesDef DEF SqlOf
      <4> QED
        BY <1>0, <1>5, <4>1
    <3> QED
      BY <3>1, <1>5 DEF LeavesIn
  <2>2. Walk[n + 1][r] = UNION {walk[r.rules[i]] : i \in 1..len}
    <3>1. Walk[n + 1][r] = WalkRule(r, walk)
      BY <1>0, WalkDef
    <3> QED
      BY <3>1, <1>0 DEF WalkRule, IsCompound
  <2>3. \A i \in 1..len : SegmentsOf(leaves[kids[i]], P) = walk[r.rules[i]]
    BY <1>6
  <2> HIDE DEF leaves, walk, kids
  <2>4. SegmentsOf(UNION {leaves[kids[i]] : i \in 1..len}, P) = UNION {SegmentsOf(leaves[kids[i]], P) : i \in 1..len}
    BY DEF SegmentsOf
  <2> QED
    BY <2>1, <2>2, <2>3, <2>4
<1> QED
  BY <1>7, <1>8 DEF MeansRule

\* Every compiled rule means what the rule does, at any depth.
LEMMA CompileMeans ==
    ASSUME NEW d \in Database
    PROVE  \A n \in Nat : Means(d, n)
<1> DEFINE S == {n \in Nat : Means(d, n)}
<1>1. 0 \in S
  <2>1. Means(d, 0)
    BY RuleCases, LeafCase DEF Means
  <2> QED
    BY <2>1
<1>2. ASSUME NEW n \in Nat, n \in S PROVE n + 1 \in S
  <2>1. Means(d, n) /\ n + 1 \in Nat
    BY <1>2
  <2>2. ASSUME NEW r \in RuleOf[n + 1], NEW p \in Nat, NEW P, NEW q, q = Compile[n + 1][r][p],
               ~IsRejected(q), Placed(q, P, p)
        PROVE  MeansRule(d, n + 1, r, q, P)
    <3>1. CASE r \in RuleLeaves
      BY <2>1, <2>2, <3>1, LeafCase
    <3>2. CASE IsCompound(r, RuleOf[n])
      BY <2>1, <2>2, <3>2, CompoundCase
    <3> QED
      BY <3>1, <3>2, RuleCases
  <2>3. Means(d, n + 1)
    BY <2>2 DEF Means
  <2> QED
    BY <2>3
<1>3. \A n \in Nat : n \in S
  <2> HIDE DEF S
  <2> QED
    BY <1>1, <1>2, Induction
<1> QED
  BY <1>3

\* A whole predicate selects the members of its rule and reads the segments it refers to.
LEMMA PredicateMeans ==
    ASSUME NEW d \in Database, NEW r \in Rule, ~IsRejected(CompileWhereClause(r))
    PROVE  /\ Select(CompileWhereClause(r), d) = Members(r, d)
           /\ SnapshotsRead(CompileWhereClause(r)) = ExtractSegmentRefs(r)
<1> DEFINE q == CompileWhereClause(r)
           n == MaxDepth
<1>1. n \in Nat /\ r \in RuleOf[n] /\ q = Compile[n][r][0] /\ 0 \in Nat
  BY DepthAssumption DEF Rule, CompileWhereClause
<1>2. q \in PredicateOf(n)
  BY <1>1, CompileDef
<1>3. q.params \in Seq(Values)
  BY <1>2 DEF PredicateOf, IsRejected, Rejected
<1>4. Placed(q, q.params, 0)
  BY <1>3 DEF Placed, ValuesAt
<1>5. MeansRule(d, n, r, q, q.params)
  BY <1>1, <1>4, CompileMeans DEF Means
<1>6. DOMAIN d.rows = CustomerIds
  BY DEF Database
<1>7. MembersOf(d)[n][r] \subseteq CustomerIds
  BY <1>1, <1>6, MembersDef
<1> HIDE DEF q
<1>8. Select(q, d) = Members(r, d)
  <2>1. \A c \in CustomerIds : (TruthOf(q.params, c, d)[n][q.sql] = "true") <=> c \in MembersOf(d)[n][r]
    BY <1>5 DEF MeansRule
  <2>2. Select(q, d) = {c \in CustomerIds : TruthOf(q.params, c, d)[n][q.sql] = "true"}
    BY <1>6 DEF Select
  <2>3. Members(r, d) = MembersOf(d)[n][r]
    BY DEF Members
  <2>4. \A c : c \in Select(q, d) <=> c \in Members(r, d)
    BY <2>1, <2>2, <2>3, <1>7
  <2> QED
    BY <2>4
<1>9. SnapshotsRead(q) = ExtractSegmentRefs(r)
  BY <1>5 DEF MeansRule, SnapshotsRead, SegmentsOf, ExtractSegmentRefs
<1> QED
  BY <1>8, <1>9 DEF q

-----------------------------------------------------------------------------
(* Customer data stays well formed *)

\* Shifting the data keeps a database well formed.
LEMMA ShiftedType ==
    ASSUME NEW d \in Database, NEW days \in Int
    PROVE  Shifted(d, days) \in Database
<1> DEFINE txs == [c \in DOMAIN d.txs |-> [i \in DOMAIN d.txs[c] |-> [at |-> d.txs[c][i].at - days, amount |-> d.txs[c][i].amount]]]
           rows == [c \in DOMAIN d.rows |-> [d.rows[c] EXCEPT !.last_tx_at = Earlier(d.rows[c].last_tx_at, days)]]
<1>1. Shifted(d, days) = [d EXCEPT !.txs = txs, !.rows = rows]
  BY Zenon DEF Shifted
<1>2. DOMAIN d.txs = CustomerIds /\ DOMAIN d.rows = CustomerIds
  BY DEF Database
<1>3. ASSUME NEW c \in CustomerIds PROVE txs[c] \in Seq(Tx)
  <2> DEFINE s == d.txs[c]
             f == [i \in DOMAIN s |-> [at |-> s[i].at - days, amount |-> s[i].amount]]
  <2>1. s \in Seq(Tx)
    BY DEF Database
  <2>2. \A i \in DOMAIN s : s[i] \in Tx
    <3> HIDE DEF s
    <3> QED
      BY <2>1
  <2>3. \A i \in DOMAIN s : [at |-> s[i].at - days, amount |-> s[i].amount] \in Tx
    BY <2>2 DEF Tx
  <2>4. f \in Seq(Tx)
    <3>1. Len(s) \in Nat /\ DOMAIN s = 1..Len(s)
      BY <2>1
    <3>2. f \in [1..Len(s) -> Tx]
      BY <2>3, <3>1
    <3> HIDE DEF f
    <3> QED
      BY <3>1, <3>2
  <2>5. txs[c] = f
    BY <1>2, Zenon
  <2> QED
    BY <2>4, <2>5
<1>4. ASSUME NEW c \in CustomerIds PROVE rows[c] \in Row
  <2> DEFINE last == d.rows[c].last_tx_at
             new == Earlier(last, days)
  <2>1. d.rows[c] \in Row
    BY DEF Database
  <2>2. new \in Int \union {Null}
    BY <2>1 DEF Row, Earlier
  <2>3. rows[c] = [d.rows[c] EXCEPT !.last_tx_at = new]
    BY <1>2
  <2> HIDE DEF new
  <2> QED
    BY <2>1, <2>2, <2>3 DEF Row
<1> HIDE DEF txs, rows
<1>5. txs \in [CustomerIds -> Seq(Tx)] /\ rows \in [CustomerIds -> Row]
  <2>1. txs = [c \in CustomerIds |-> txs[c]] /\ rows = [c \in CustomerIds |-> rows[c]]
    BY <1>2 DEF txs, rows
  <2> QED
    BY <1>3, <1>4, <2>1
<1> QED
  BY <1>1, <1>5 DEF Database

\* The state is well formed at first,
LEMMA TypeInit == EngineInit => EngineTypeOK
<1> SUFFICES ASSUME EngineInit PROVE EngineTypeOK
  OBVIOUS
<1>1. timeOnly \in BOOLEAN
  BY Zenon DEF EngineInit
<1>2. rule \in RuleSet /\ db \in Database /\ members \subseteq CustomerIds /\ changes \in 0..MaxChanges
  BY EngineAssumption DEF EngineInit
<1> QED
  BY <1>1, <1>2, Zenon DEF EngineTypeOK

\* What an action that changes the data leaves well formed.
LEMMA ChangedType ==
    ASSUME EngineTypeOK, NEW new \in Database, Changed(new)
    PROVE  rule' \in RuleSet /\ db' \in Database /\ members' \subseteq CustomerIds /\ changes' \in 0..MaxChanges
  BY EngineAssumption DEF EngineTypeOK, Changed

\* Recording a transaction keeps a database well formed.
LEMMA BookedType ==
    ASSUME NEW d \in Database, NEW c \in CustomerIds, NEW at \in Int, NEW amount \in Nat
    PROVE  Booked(d, c, at, amount) \in Database
<1> DEFINE row == d.rows[c]
           last == IF row.last_tx_at = Null \/ row.last_tx_at < at THEN at ELSE row.last_tx_at
           new == [balance |-> row.balance + amount, tx_count |-> row.tx_count + 1,
                   last_tx_at |-> last, name |-> row.name, email |-> row.email]
           txs == Append(d.txs[c], [at |-> at, amount |-> amount])
<1>1. row \in Row /\ d.txs[c] \in Seq(Tx)
  BY DEF Database
<1>2. last \in Int \union {Null}
  BY <1>1 DEF Row
<1>3. new \in Row
  BY <1>1, <1>2 DEF Row
<1>4. txs \in Seq(Tx)
  BY <1>1 DEF Tx
<1>5. Booked(d, c, at, amount) = [d EXCEPT !.txs[c] = txs, !.rows[c] = new]
  BY DEF Booked
<1> HIDE DEF new, txs
<1> DEFINE T == [d.txs EXCEPT ![c] = txs]
           R == [d.rows EXCEPT ![c] = new]
<1>6. T \in [CustomerIds -> Seq(Tx)] /\ R \in [CustomerIds -> Row]
  BY <1>3, <1>4 DEF Database
<1>7. Booked(d, c, at, amount) = [d EXCEPT !.txs = T, !.rows = R]
  BY <1>5
<1> HIDE DEF T, R
<1> QED
  BY <1>6, <1>7 DEF Database

\* and after every step.
LEMMA TypeStep == EngineTypeOK /\ [EngineNext]_engineVars => EngineTypeOK'
<1> SUFFICES ASSUME EngineTypeOK, [EngineNext]_engineVars PROVE EngineTypeOK'
  OBVIOUS
<1>0. db \in Database /\ timeOnly \in BOOLEAN
  BY Zenon DEF EngineTypeOK
<1>1. ASSUME NEW c \in CustomerIds, NEW tx \in Transactions, Transact(c, tx) PROVE EngineTypeOK'
  <2>1. db.now + tx.at \in Int /\ tx.amount \in Nat
    BY <1>0, EngineAssumption DEF Database, Tx
  <2>2. Booked(db, c, db.now + tx.at, tx.amount) \in Database
    BY <1>0, <2>1, BookedType
  <2>3. timeOnly' \in BOOLEAN
    BY <1>1, Zenon DEF Transact
  <2> QED
    BY <1>1, <2>2, <2>3, ChangedType, Zenon DEF EngineTypeOK, Transact
<1>2. ASSUME NEW s \in Segments, NEW ids \in SUBSET CustomerIds, ParentMoves(s, ids) PROVE EngineTypeOK'
  <2>1. [db EXCEPT !.snapshots[s] = ids] \in Database
    BY <1>0 DEF Database
  <2>2. timeOnly' \in BOOLEAN
    BY <1>2, Zenon DEF ParentMoves
  <2> QED
    BY <1>2, <2>1, <2>2, ChangedType, Zenon DEF EngineTypeOK, ParentMoves
<1>3. CASE PassTime
  <2>1. [db EXCEPT !.now = @ + 1] \in Database
    BY <1>0 DEF Database
  <2>2. timeOnly' \in BOOLEAN
    BY <1>0, <1>3, Zenon DEF PassTime
  <2> QED
    BY <1>3, <2>1, <2>2, ChangedType, Zenon DEF EngineTypeOK, PassTime
<1>4. CASE AdvanceTime
  <2>1. Shifted(db, 1) \in Database
    BY <1>0, ShiftedType
  <2>2. timeOnly' \in BOOLEAN
    BY <1>4, Zenon DEF AdvanceTime
  <2> QED
    BY <1>4, <2>1, <2>2, ChangedType, Zenon DEF EngineTypeOK, AdvanceTime
<1>5. CASE Refresh
  <2>1. Select(Predicate, db) \subseteq CustomerIds
    BY <1>0 DEF Select, Database
  <2>2. timeOnly' \in BOOLEAN
    BY <1>5, Zenon DEF Refresh
  <2> QED
    BY <1>5, <2>1, <2>2, Zenon DEF Refresh, EngineTypeOK
<1>6. CASE UNCHANGED engineVars
  BY <1>6, Zenon DEF engineVars, EngineTypeOK
<1> QED
  BY <1>1, <1>2, <1>3, <1>4, <1>5, <1>6 DEF EngineNext

\* Customer data stays well formed whatever is recorded, and the members of the segment
\* stay customers (segment-evaluator.service.ts, simulation.service.ts).
THEOREM TypeCorrect == EngineSpec => []EngineTypeOK
  BY TypeInit, TypeStep, PTL DEF EngineSpec

\* For every rule the compiler accepts, whatever the data: the compiled predicate selects
\* the customers for whom the rule holds (compileWhereClause).
THEOREM CompilerIsRight == EngineSpec => []CompiledMeansRule
<1>1. EngineTypeOK => CompiledMeansRule
  <2> SUFFICES ASSUME EngineTypeOK, Accepted PROVE Select(Predicate, db) = Members(rule, db)
    BY DEF CompiledMeansRule
  <2>1. rule \in Rule /\ db \in Database
    BY EngineAssumption DEF EngineTypeOK
  <2> QED
    BY <2>1, PredicateMeans DEF Accepted, Predicate
<1> QED
  BY <1>1, TypeCorrect, PTL

\* For every rule the compiler accepts, the dependency graph knows exactly the segments that
\* the compiled predicate reads (extractSegmentRefs).
THEOREM ReferencesAreRight == EngineSpec => []RefsMatchReads
<1>1. EngineTypeOK => RefsMatchReads
  <2> SUFFICES ASSUME EngineTypeOK, Accepted PROVE SnapshotsRead(Predicate) = ExtractSegmentRefs(rule)
    BY DEF RefsMatchReads
  <2>1. rule \in Rule /\ db \in Database
    BY EngineAssumption DEF EngineTypeOK
  <2> QED
    BY <2>1, PredicateMeans DEF Accepted, Predicate
<1> QED
  BY <1>1, TypeCorrect, PTL

-----------------------------------------------------------------------------
(* Sums and counts over a window *)

\* What a transaction adds to a sum.
Counted(txs, rows, i) == IF i \in rows THEN txs[i].amount ELSE 0

\* What sequences of transactions are made of.
LEMMA TxsType ==
    ASSUME NEW txs \in Seq(Tx)
    PROVE  /\ Len(txs) \in Nat /\ DOMAIN txs = 1..Len(txs)
           /\ \A i \in 1..Len(txs) : txs[i].at \in Int /\ txs[i].amount \in Nat
<1>1. Len(txs) \in Nat /\ DOMAIN txs = 1..Len(txs) /\ \A i \in 1..Len(txs) : txs[i] \in Tx
  OBVIOUS
<1> QED
  BY <1>1 DEF Tx

\* The recursive definition of SumOf means what it says.
LEMMA SumDef ==
    ASSUME NEW txs \in Seq(Tx), NEW rows
    PROVE  \E sum : /\ sum[0] = 0
                    /\ \A i \in 0..Len(txs) : sum[i] \in Nat
                    /\ \A i \in 1..Len(txs) : sum[i] = sum[i - 1] + Counted(txs, rows, i)
                    /\ SumOf(txs, rows) = sum[Len(txs)]
<1> DEFINE len == Len(txs)
           Step(f) == [i \in 0..len |-> IF i = 0 THEN 0 ELSE f[i - 1] + Counted(txs, rows, i)]
           W == [i \in Nat |-> Nat]
           G == [i \in Nat |-> [v \in Nat |-> IF i < len THEN v + Counted(txs, rows, i + 1) ELSE v]]
<1>0. len \in Nat /\ \A i \in 1..len : Counted(txs, rows, i) \in Nat
  BY TxsType DEF Counted
<1>1. \E f : f = Step(f)
  <2>1. 0 \in W[0]
    OBVIOUS
  <2>2. \A i \in Nat : \A v \in W[i] : G[i][v] \in W[i + 1]
    <3>1. ASSUME NEW i \in Nat, NEW v \in Nat PROVE G[i][v] \in Nat
      BY <1>0
    <3> QED
      BY <3>1
  <2>3. PICK g : /\ g = [i \in Nat |-> IF i = 0 THEN 0 ELSE G[i - 1][g[i - 1]]]
                 /\ \A i \in Nat : g[i] \in W[i]
    <3> HIDE DEF W, G
    <3> QED
      BY <2>1, <2>2, Recursion
  <2> DEFINE f == [i \in 0..len |-> g[i]]
  <2>4. ASSUME NEW i \in 0..len PROVE f[i] = IF i = 0 THEN 0 ELSE f[i - 1] + Counted(txs, rows, i)
    <3>1. CASE i = 0
      BY <3>1, <2>3, <1>0
    <3>2. CASE i # 0
      <4>1. i - 1 \in Nat /\ i - 1 \in 0..len /\ i - 1 < len /\ (i - 1) + 1 = i /\ i \in Nat
        BY <3>2, <1>0
      <4>2. g[i] = G[i - 1][g[i - 1]] /\ g[i - 1] \in Nat
        BY <2>3, <4>1, <3>2
      <4>3. g[i] = g[i - 1] + Counted(txs, rows, i)
        BY <4>1, <4>2
      <4>4. f[i] = g[i] /\ f[i - 1] = g[i - 1]
        BY <4>1
      <4> QED
        BY <3>2, <4>3, <4>4
    <3> QED
      BY <3>1, <3>2
  <2>5. f = Step(f)
    BY <2>4
  <2> QED
    BY <2>5
<1> DEFINE w == CHOOSE f : f = Step(f)
<1>2. w = Step(w)
  BY <1>1
<1>3. SumOf(txs, rows) = w[len]
  BY DEF SumOf, Counted
<1>4. /\ w[0] = 0
      /\ \A i \in 1..len : w[i] = w[i - 1] + Counted(txs, rows, i)
  <2>1. \A i \in 0..len : w[i] = IF i = 0 THEN 0 ELSE w[i - 1] + Counted(txs, rows, i)
    <3>1. ASSUME NEW f, f = Step(f), NEW i \in 0..len
          PROVE  f[i] = IF i = 0 THEN 0 ELSE f[i - 1] + Counted(txs, rows, i)
      BY <3>1
    <3> HIDE DEF Step
    <3> HIDE DEF w
    <3> QED
      BY <1>2, <3>1
  <2> HIDE DEF w
  <2> QED
    BY <2>1, <1>0
<1> HIDE DEF w
<1>5. \A i \in 0..len : w[i] \in Nat
  <2> DEFINE S == {i \in Nat : i <= len => w[i] \in Nat}
  <2>1. 0 \in S
    BY <1>4
  <2>2. ASSUME NEW i \in Nat, i \in S PROVE i + 1 \in S
    <3>1. i + 1 <= len => i + 1 \in 1..len /\ w[i] \in Nat /\ (i + 1) - 1 = i
      BY <2>2, <1>0
    <3> QED
      BY <3>1, <1>0, <1>4
  <2>3. \A i \in Nat : i \in S
    <3> HIDE DEF S
    <3> QED
      BY <2>1, <2>2, Induction
  <2> QED
    BY <2>3, <1>0
<1> QED
  BY <1>3, <1>4, <1>5

\* A sum is at most another one when every part of it is.
LEMMA SumMonotone ==
    ASSUME NEW txs \in Seq(Tx), NEW txs2 \in Seq(Tx), Len(txs) = Len(txs2), NEW rows, NEW rows2,
           \A i \in 1..Len(txs) : Counted(txs, rows, i) <= Counted(txs2, rows2, i)
    PROVE  /\ SumOf(txs, rows) \in Nat /\ SumOf(txs2, rows2) \in Nat
           /\ SumOf(txs, rows) <= SumOf(txs2, rows2)
<1> DEFINE len == Len(txs)
<1>0. len \in Nat /\ \A i \in 1..len : Counted(txs, rows, i) \in Nat /\ Counted(txs2, rows2, i) \in Nat
  BY TxsType DEF Counted
<1>1. PICK s : /\ s[0] = 0
               /\ \A i \in 0..len : s[i] \in Nat
               /\ \A i \in 1..len : s[i] = s[i - 1] + Counted(txs, rows, i)
               /\ SumOf(txs, rows) = s[len]
  BY SumDef
<1>2. PICK t : /\ t[0] = 0
               /\ \A i \in 0..len : t[i] \in Nat
               /\ \A i \in 1..len : t[i] = t[i - 1] + Counted(txs2, rows2, i)
               /\ SumOf(txs2, rows2) = t[len]
  BY SumDef
<1> DEFINE S == {i \in Nat : i <= len => s[i] <= t[i]}
<1>3. 0 \in S
  BY <1>1, <1>2
<1>4. ASSUME NEW i \in Nat, i \in S PROVE i + 1 \in S
  <2> SUFFICES ASSUME i + 1 <= len PROVE s[i + 1] <= t[i + 1]
    OBVIOUS
  <2>1. i + 1 \in 1..len /\ i \in 0..len /\ (i + 1) - 1 = i /\ s[i] <= t[i]
    BY <1>4, <1>0
  <2>2. s[i + 1] = s[i] + Counted(txs, rows, i + 1) /\ t[i + 1] = t[i] + Counted(txs2, rows2, i + 1)
    BY <2>1, <1>1, <1>2
  <2>3. Counted(txs, rows, i + 1) <= Counted(txs2, rows2, i + 1)
    BY <2>1
  <2>4. s[i] \in Nat /\ t[i] \in Nat /\ Counted(txs, rows, i + 1) \in Nat /\ Counted(txs2, rows2, i + 1) \in Nat
    BY <2>1, <1>0, <1>1, <1>2
  <2> HIDE DEF S
  <2> QED
    BY <2>1, <2>2, <2>3, <2>4
<1>5. \A i \in Nat : i \in S
  <2> HIDE DEF S
  <2> QED
    BY <1>3, <1>4, Induction
<1> QED
  BY <1>0, <1>1, <1>2, <1>5

\* The rows of a window.
Recent(txs, days, now) == {i \in DOMAIN txs : now - txs[i].at <= days}

\* As time passes a window has fewer rows and a smaller sum.
LEMMA WindowShrinks ==
    ASSUME NEW txs \in Seq(Tx), NEW days \in Int, NEW past \in Int, NEW now \in Int, past <= now
    PROVE  /\ Cardinality(Recent(txs, days, now)) \in Nat /\ Cardinality(Recent(txs, days, past)) \in Nat
           /\ Cardinality(Recent(txs, days, now)) <= Cardinality(Recent(txs, days, past))
           /\ SumOf(txs, Recent(txs, days, now)) \in Nat /\ SumOf(txs, Recent(txs, days, past)) \in Nat
           /\ SumOf(txs, Recent(txs, days, now)) <= SumOf(txs, Recent(txs, days, past))
<1> DEFINE new == Recent(txs, days, now)
           old == Recent(txs, days, past)
<1>1. Len(txs) \in Nat /\ DOMAIN txs = 1..Len(txs)
  BY TxsType
<1>2. \A i \in DOMAIN txs : txs[i].at \in Int /\ txs[i].amount \in Nat
  BY <1>1, TxsType
<1>3. new \subseteq old /\ new \subseteq 1..Len(txs) /\ old \subseteq 1..Len(txs)
  BY <1>1, <1>2 DEF Recent
<1> HIDE DEF new, old
<1>4. IsFiniteSet(1..Len(txs))
  BY <1>1, FS_Interval
<1>5. IsFiniteSet(old)
  BY <1>3, <1>4, FS_Subset
<1>6. IsFiniteSet(new) /\ Cardinality(new) <= Cardinality(old)
  BY <1>3, <1>5, FS_Subset
<1>7. Cardinality(new) \in Nat /\ Cardinality(old) \in Nat
  BY <1>5, <1>6, FS_CardinalityType
<1>8. \A i \in 1..Len(txs) : Counted(txs, new, i) <= Counted(txs, old, i)
  <2>1. \A i \in 1..Len(txs) : txs[i].amount \in Nat
    BY <1>1, <1>2
  <2> QED
    BY <2>1, <1>3 DEF Counted
<1>9. /\ SumOf(txs, new) \in Nat /\ SumOf(txs, old) \in Nat
      /\ SumOf(txs, new) <= SumOf(txs, old)
  BY <1>8, SumMonotone
<1> QED
  BY <1>6, <1>7, <1>9 DEF new, old

-----------------------------------------------------------------------------
(* From leaves to rules *)

\* The leaves of a rule are leaves; a compound has those of the rules it joins.
LEMMA RuleLeavesDef ==
    /\ \A n \in Nat : \A r \in RuleOf[n] :
          /\ LeavesOf(RuleLeaves)[n][r] \subseteq RuleLeaves
          /\ r \in RuleLeaves => LeavesOf(RuleLeaves)[n][r] = {r}
    /\ \A n \in Nat : \A r \in RuleOf[n + 1] : IsCompound(r, RuleOf[n]) =>
          LeavesOf(RuleLeaves)[n + 1][r] = UNION {LeavesOf(RuleLeaves)[n][r.rules[i]] : i \in DOMAIN r.rules}
<1>1. \A n \in Nat : /\ LeavesOf(RuleLeaves)[n] \in [RuleOf[n] -> SUBSET RuleLeaves]
                    /\ \A r \in RuleOf[n] : LeavesOf(RuleLeaves)[n][r] = LeavesIn(r, LeavesOf(RuleLeaves)[n - 1])
  BY RuleCases, LeavesDef DEF RuleOf
<1>2. ASSUME NEW n \in Nat, NEW r \in RuleOf[n]
      PROVE  /\ LeavesOf(RuleLeaves)[n][r] \subseteq RuleLeaves
             /\ r \in RuleLeaves => LeavesOf(RuleLeaves)[n][r] = {r}
  BY <1>1, RuleCases DEF LeavesIn
<1>3. ASSUME NEW n \in Nat, NEW r \in RuleOf[n + 1], IsCompound(r, RuleOf[n])
      PROVE  LeavesOf(RuleLeaves)[n + 1][r] = UNION {LeavesOf(RuleLeaves)[n][r.rules[i]] : i \in DOMAIN r.rules}
  <2>1. n + 1 \in Nat /\ (n + 1) - 1 = n
    OBVIOUS
  <2>2. LeavesOf(RuleLeaves)[n + 1][r] = LeavesIn(r, LeavesOf(RuleLeaves)[n])
    BY <1>1, <2>1
  <2> QED
    BY <1>3, <2>2 DEF LeavesIn, IsCompound
<1> QED
  BY <1>2, <1>3

\* Whoever a leaf holds for in one database, it holds for in the other one.
LeavesFollow(leaves, d1, d2) ==
    \A l \in leaves : \A c \in CustomerIds : LeafHolds(l, c, d1) => LeafHolds(l, c, d2)

\* If its leaves hold for no fewer customers, a rule has no fewer members.
LEMMA MembersFollow ==
    ASSUME NEW d1 \in Database, NEW d2 \in Database
    PROVE  \A n \in Nat : \A r \in RuleOf[n] :
               LeavesFollow(LeavesOf(RuleLeaves)[n][r], d1, d2) => MembersOf(d1)[n][r] \subseteq MembersOf(d2)[n][r]
<1> DEFINE Good(n) == \A r \in RuleOf[n] :
               LeavesFollow(LeavesOf(RuleLeaves)[n][r], d1, d2) => MembersOf(d1)[n][r] \subseteq MembersOf(d2)[n][r]
           S == {n \in Nat : Good(n)}
<1>0. DOMAIN d1.rows = CustomerIds /\ DOMAIN d2.rows = CustomerIds
  BY DEF Database
<1>1. ASSUME NEW n \in Nat, NEW r \in RuleOf[n], r \in RuleLeaves, LeavesFollow(LeavesOf(RuleLeaves)[n][r], d1, d2)
      PROVE  MembersOf(d1)[n][r] \subseteq MembersOf(d2)[n][r]
  <2>1. LeavesOf(RuleLeaves)[n][r] = {r} /\ r.type # "compound"
    BY <1>1, RuleLeavesDef, RuleCases
  <2>2. MembersOf(d1)[n][r] = MembersIn(r, d1, MembersOf(d1)[n - 1]) /\ MembersOf(d2)[n][r] = MembersIn(r, d2, MembersOf(d2)[n - 1])
    BY MembersDef
  <2>3. MembersOf(d1)[n][r] = {c \in CustomerIds : LeafHolds(r, c, d1)} /\ MembersOf(d2)[n][r] = {c \in CustomerIds : LeafHolds(r, c, d2)}
    BY <1>0, <2>1, <2>2 DEF MembersIn
  <2> QED
    BY <1>1, <2>1, <2>3 DEF LeavesFollow
<1>2. ASSUME NEW n \in Nat, Good(n), NEW r \in RuleOf[n + 1], IsCompound(r, RuleOf[n]),
             LeavesFollow(LeavesOf(RuleLeaves)[n + 1][r], d1, d2)
      PROVE  MembersOf(d1)[n + 1][r] \subseteq MembersOf(d2)[n + 1][r]
  <2> DEFINE b1 == MembersOf(d1)[n]
             b2 == MembersOf(d2)[n]
  <2>0. n + 1 \in Nat /\ (n + 1) - 1 = n
    OBVIOUS
  <2>1. MembersOf(d1)[n + 1][r] = MembersIn(r, d1, b1) /\ MembersOf(d2)[n + 1][r] = MembersIn(r, d2, b2)
    BY <2>0, MembersDef
  <2>2. \A i \in DOMAIN r.rules : b1[r.rules[i]] \subseteq b2[r.rules[i]]
    <3>1. ASSUME NEW i \in DOMAIN r.rules PROVE b1[r.rules[i]] \subseteq b2[r.rules[i]]
      <4>1. r.rules[i] \in RuleOf[n]
        BY <1>2 DEF IsCompound
      <4>2. LeavesOf(RuleLeaves)[n][r.rules[i]] \subseteq LeavesOf(RuleLeaves)[n + 1][r]
        BY <1>2, RuleLeavesDef
      <4>3. LeavesFollow(LeavesOf(RuleLeaves)[n][r.rules[i]], d1, d2)
        BY <1>2, <4>2 DEF LeavesFollow
      <4> QED
        BY <1>2, <4>1, <4>3
    <3> QED
      BY <3>1
  <2> HIDE DEF b1, b2
  <2> DEFINE I == DOMAIN r.rules
  <2>3. CASE r.op = "and"
    <3>1. MembersIn(r, d1, b1) = {c \in CustomerIds : \A i \in I : c \in b1[r.rules[i]]}
      BY <1>0, <1>2, <2>3 DEF MembersIn, IsCompound
    <3>2. MembersIn(r, d2, b2) = {c \in CustomerIds : \A i \in I : c \in b2[r.rules[i]]}
      BY <1>0, <1>2, <2>3 DEF MembersIn, IsCompound
    <3> QED
      BY <2>1, <2>2, <3>1, <3>2
  <2>4. CASE r.op # "and"
    <3>1. MembersIn(r, d1, b1) = UNION {b1[r.rules[i]] : i \in I}
      BY <1>2, <2>4 DEF MembersIn, IsCompound
    <3>2. MembersIn(r, d2, b2) = UNION {b2[r.rules[i]] : i \in I}
      BY <1>2, <2>4 DEF MembersIn, IsCompound
    <3> QED
      BY <2>1, <2>2, <3>1, <3>2
  <2> QED
    BY <2>3, <2>4
<1>3. 0 \in S
  BY <1>1, RuleCases
<1>4. ASSUME NEW n \in Nat, n \in S PROVE n + 1 \in S
  <2>1. n + 1 \in Nat /\ Good(n)
    BY <1>4
  <2>2. ASSUME NEW r \in RuleOf[n + 1], LeavesFollow(LeavesOf(RuleLeaves)[n + 1][r], d1, d2)
        PROVE  MembersOf(d1)[n + 1][r] \subseteq MembersOf(d2)[n + 1][r]
    <3>1. CASE r \in RuleLeaves
      BY <2>1, <2>2, <3>1, <1>1
    <3>2. CASE IsCompound(r, RuleOf[n])
      <4> HIDE DEF Good
      <4> QED
        BY <2>1, <2>2, <3>2, <1>2
    <3> QED
      BY <3>1, <3>2, RuleCases
  <2> QED
    BY <2>1, <2>2
<1>5. \A n \in Nat : n \in S
  <2> HIDE DEF S
  <2> QED
    BY <1>3, <1>4, Induction
<1> QED
  BY <1>5

\* The compiler accepts a rule only if it knows the columns that its leaves compare.
Known(leaf) == leaf.type = "field_comparison" => leaf.field \in DOMAIN CustomerFieldMap

\* Every leaf of an accepted rule compares a known column, if it compares one.
LEMMA AcceptedLeaves ==
    \A n \in Nat : \A r \in RuleOf[n], p \in Nat :
        ~IsRejected(Compile[n][r][p]) => \A l \in LeavesOf(RuleLeaves)[n][r] : Known(l)
<1> DEFINE Good(n) == \A r \in RuleOf[n], p \in Nat :
               ~IsRejected(Compile[n][r][p]) => \A l \in LeavesOf(RuleLeaves)[n][r] : Known(l)
           S == {n \in Nat : Good(n)}
<1>1. ASSUME NEW n \in Nat, NEW r \in RuleOf[n], r \in RuleLeaves, NEW p \in Nat, ~IsRejected(Compile[n][r][p])
      PROVE  \A l \in LeavesOf(RuleLeaves)[n][r] : Known(l)
  <2>1. Compile[n][r] = [i \in Nat |-> CompileRule(r, i, Compile[n - 1])]
    BY CompileDef
  <2>2. ~IsRejected(CompileRule(r, p, Compile[n - 1]))
    BY <1>1, <2>1
  <2>3. Known(r)
    BY <2>2 DEF Known, CompileRule, CompileField, IsRejected, Rejected
  <2> QED
    BY <1>1, <2>3, RuleLeavesDef
<1>2. ASSUME NEW n \in Nat, Good(n), NEW r \in RuleOf[n + 1], IsCompound(r, RuleOf[n]), NEW p \in Nat,
             ~IsRejected(Compile[n + 1][r][p])
      PROVE  \A l \in LeavesOf(RuleLeaves)[n + 1][r] : Known(l)
  <2> DEFINE v == Compile[n]
             len == Len(r.rules)
  <2>0. n + 1 \in Nat /\ (n + 1) - 1 = n /\ len \in Nat /\ DOMAIN r.rules = 1..len /\ \A i \in 1..len : r.rules[i] \in RuleOf[n]
    BY <1>2 DEF IsCompound
  <2>1. v \in [RuleOf[n] -> [Nat -> PredicateOf(n)]]
    BY CompileDef
  <2>2. ~IsRejected(CompileCompound(r, p, v))
    <3>1. Compile[n + 1][r] = [i \in Nat |-> CompileRule(r, i, v)]
      BY <2>0, CompileDef
    <3> HIDE DEF v
    <3> QED
      BY <1>2, <3>1 DEF CompileRule, IsCompound
  <2>3. PICK done : /\ IsChain(done, r, p, v, n)
                    /\ CompileCompound(r, p, v) = IF r.rules = <<>> THEN Rejected ELSE done[len]
    <3> HIDE DEF v
    <3> QED
      BY <1>2, <2>1, ChainExists
  <2>4. ChainParts(done, r, p, v, len)
    <3> HIDE DEF v
    <3>1. ~IsRejected(done[len])
      BY <2>2, <2>3 DEF IsRejected, Rejected
    <3> QED
      BY <1>2, <3>1, <2>0, <2>1, <2>3, ChainMeans
  <2>5. ASSUME NEW i \in 1..len PROVE \A l \in LeavesOf(RuleLeaves)[n][r.rules[i]] : Known(l)
    <3> DEFINE at == p + Len(done[i - 1].params)
    <3>1. at \in Nat /\ ~IsRejected(Compile[n][r.rules[i]][at])
      BY <2>4 DEF ChainParts, SubOf
    <3> HIDE DEF at
    <3> QED
      BY <1>2, <2>0, <3>1
  <2>6. LeavesOf(RuleLeaves)[n + 1][r] = UNION {LeavesOf(RuleLeaves)[n][r.rules[i]] : i \in 1..len}
    BY <1>2, <2>0, RuleLeavesDef
  <2> QED
    BY <2>5, <2>6
<1>3. 0 \in S
  BY <1>1, RuleCases
<1>4. ASSUME NEW n \in Nat, n \in S PROVE n + 1 \in S
  <2>1. n + 1 \in Nat /\ Good(n)
    BY <1>4
  <2>2. ASSUME NEW r \in RuleOf[n + 1], NEW p \in Nat, ~IsRejected(Compile[n + 1][r][p])
        PROVE  \A l \in LeavesOf(RuleLeaves)[n + 1][r] : Known(l)
    <3>1. CASE r \in RuleLeaves
      BY <2>1, <2>2, <3>1, <1>1
    <3>2. CASE IsCompound(r, RuleOf[n])
      <4> HIDE DEF Good
      <4> QED
        BY <2>1, <2>2, <3>2, <1>2
    <3> QED
      BY <3>1, <3>2, RuleCases
  <2> QED
    BY <2>1, <2>2
<1>5. \A n \in Nat : n \in S
  <2> HIDE DEF S
  <2> QED
    BY <1>3, <1>4, Induction
<1> QED
  BY <1>5

-----------------------------------------------------------------------------
(* Shifting the data is the same as waiting *)

\* The database when the clock shows something else.
At(d, now) == [d EXCEPT !.now = now]

\* A database with another time is one.
LEMMA AtType ==
    ASSUME NEW d \in Database, NEW now \in Int
    PROVE  At(d, now) \in Database
  BY DEF At, Database

\* What a leaf about a window means, in terms of its rows.
LEMMA WindowHolds ==
    ASSUME NEW d, NEW l \in RuleLeaves, l.type \in {"date_window_count", "sum_threshold"}, NEW c
    PROVE  LeafHolds(l, c, d) <=>
               Compares(IF l.type = "date_window_count" THEN Cardinality(Recent(d.txs[c], l.windowDays, d.now))
                        ELSE SumOf(d.txs[c], Recent(d.txs[c], l.windowDays, d.now)),
                        l.operator, l.value)
  BY DEF LeafHolds, Recent

\* A leaf about columns or members depends on those only.
LEMMA DataHolds ==
    ASSUME NEW d1, NEW d2, NEW l \in RuleLeaves, l.type \in {"field_comparison", "segment_membership"}, NEW c,
           l.type = "field_comparison" => d1.rows[c][CustomerFieldMap[l.field]] = d2.rows[c][CustomerFieldMap[l.field]],
           d1.snapshots = d2.snapshots
    PROVE  LeafHolds(l, c, d1) <=> LeafHolds(l, c, d2)
  BY DEF LeafHolds

\* What shifting the data by a day changes, and what not.
LEMMA ShiftedParts ==
    ASSUME NEW d \in Database, NEW c \in CustomerIds
    PROVE  LET s == Shifted(d, 1) IN
           /\ s.now = d.now /\ s.snapshots = d.snapshots
           /\ s.txs[c] \in Seq(Tx) /\ Len(s.txs[c]) = Len(d.txs[c]) /\ d.txs[c] \in Seq(Tx)
           /\ \A i \in 1..Len(d.txs[c]) :
                 s.txs[c][i].at = d.txs[c][i].at - 1 /\ s.txs[c][i].amount = d.txs[c][i].amount
           /\ \A f \in CustomerColumns \ {"last_tx_at"} : s.rows[c][f] = d.rows[c][f]
<1> DEFINE txs == [e \in DOMAIN d.txs |-> [i \in DOMAIN d.txs[e] |-> [at |-> d.txs[e][i].at - 1, amount |-> d.txs[e][i].amount]]]
           rows == [e \in DOMAIN d.rows |-> [d.rows[e] EXCEPT !.last_tx_at = Earlier(d.rows[e].last_tx_at, 1)]]
           s == Shifted(d, 1)
           t == d.txs[c]
<1>1. s = [d EXCEPT !.txs = txs, !.rows = rows]
  BY Zenon DEF Shifted
<1>2. c \in DOMAIN d.txs /\ c \in DOMAIN d.rows /\ t \in Seq(Tx) /\ d.rows[c] \in Row
  BY DEF Database
<1>3. txs[c] = [i \in DOMAIN t |-> [at |-> t[i].at - 1, amount |-> t[i].amount]]
  BY <1>2, Zenon
<1>4. rows[c] = [d.rows[c] EXCEPT !.last_tx_at = Earlier(d.rows[c].last_tx_at, 1)]
  BY <1>2
<1>5. s.now = d.now /\ s.snapshots = d.snapshots /\ s.txs = txs /\ s.rows = rows
  <2> HIDE DEF txs, rows, s
  <2> QED
    BY <1>1 DEF Database
<1> HIDE DEF txs, rows, s
<1>6. s.txs[c] \in Seq(Tx)
  <2>1. s \in Database
    BY ShiftedType DEF s
  <2> QED
    BY <2>1 DEF Database
<1>7. DOMAIN t = 1..Len(t) /\ Len(t) \in Nat
  BY <1>2, TxsType
<1>8. /\ DOMAIN s.txs[c] = 1..Len(t)
      /\ \A i \in 1..Len(t) : s.txs[c][i].at = t[i].at - 1 /\ s.txs[c][i].amount = t[i].amount
  <2> HIDE DEF t
  <2> QED
    BY <1>3, <1>5, <1>7
<1>9. Len(s.txs[c]) = Len(t)
  <2>1. DOMAIN s.txs[c] = 1..Len(s.txs[c]) /\ Len(s.txs[c]) \in Nat
    BY <1>6, TxsType
  <2> QED
    BY <1>6, <1>7, <1>8, <2>1
<1>10. \A f \in CustomerColumns \ {"last_tx_at"} : s.rows[c][f] = d.rows[c][f]
  BY <1>2, <1>4, <1>5 DEF Row, CustomerColumns
<1> QED
  BY <1>2, <1>5, <1>6, <1>8, <1>9, <1>10 DEF s

\* The leaf compares last_tx_at with a literal date.
DatesLastTx(leaf) == leaf.type = "field_comparison" /\ leaf.field \in {"lastTxAt", "last_tx_at"}

\* A leaf cannot tell shifted data from a later clock, unless it has a literal date.
LEMMA ShiftedLeaf ==
    ASSUME NEW d \in Database, NEW l \in RuleLeaves, Known(l), ~DatesLastTx(l), NEW c \in CustomerIds
    PROVE  LeafHolds(l, c, Shifted(d, 1)) <=> LeafHolds(l, c, At(d, d.now + 1))
<1> DEFINE s == Shifted(d, 1)
           e == At(d, d.now + 1)
           t == d.txs[c]
           u == s.txs[c]
<1>1. /\ e.now = d.now + 1 /\ e.rows = d.rows /\ e.txs = d.txs /\ e.snapshots = d.snapshots
      /\ d.now \in Int
  BY DEF At, Database
<1>2. /\ s.now = d.now /\ s.snapshots = d.snapshots
      /\ u \in Seq(Tx) /\ Len(u) = Len(t) /\ t \in Seq(Tx)
      /\ \A i \in 1..Len(t) : u[i].at = t[i].at - 1 /\ u[i].amount = t[i].amount
      /\ \A f \in CustomerColumns \ {"last_tx_at"} : s.rows[c][f] = d.rows[c][f]
  BY ShiftedParts
<1> HIDE DEF s, e
<1>3. CASE l.type \in {"date_window_count", "sum_threshold"}
  <2> DEFINE days == l.windowDays
             old == Recent(u, days, s.now)
             new == Recent(t, days, e.now)
  <2>0. days \in Int
    BY <1>3, RuleLeafTypes
  <2>1. DOMAIN u = 1..Len(t) /\ DOMAIN t = 1..Len(t) /\ \A i \in 1..Len(t) : t[i].at \in Int /\ t[i].amount \in Nat
    BY <1>2, TxsType
  <2>2. \A i \in 1..Len(t) : (s.now - u[i].at <= days) <=> (e.now - t[i].at <= days)
    <3> HIDE DEF t, u, days
    <3> QED
      BY <1>1, <1>2, <2>0, <2>1
  <2>3. old = new
    BY <2>1, <2>2 DEF Recent
  <2>4. \A i \in 1..Len(t) : Counted(u, old, i) = Counted(t, new, i) /\ Counted(u, old, i) \in Nat
    <3> HIDE DEF old, new, t, u
    <3> QED
      BY <1>2, <2>1, <2>3 DEF Counted
  <2>5. SumOf(u, old) = SumOf(t, new)
    <3> HIDE DEF old, new, t, u
    <3>1. \A i \in 1..Len(t) : Counted(u, old, i) <= Counted(t, new, i) /\ Counted(t, new, i) <= Counted(u, old, i)
      BY <2>4
    <3>2. SumOf(u, old) \in Nat /\ SumOf(t, new) \in Nat /\ SumOf(u, old) <= SumOf(t, new)
      BY <1>2, <3>1, SumMonotone
    <3>3. SumOf(t, new) <= SumOf(u, old)
      BY <1>2, <3>1, SumMonotone
    <3> QED
      BY <3>2, <3>3
  <2>6. LeafHolds(l, c, s) <=>
            Compares(IF l.type = "date_window_count" THEN Cardinality(old) ELSE SumOf(u, old), l.operator, l.value)
    BY <1>3, WindowHolds
  <2>7. LeafHolds(l, c, e) <=>
            Compares(IF l.type = "date_window_count" THEN Cardinality(new) ELSE SumOf(t, new), l.operator, l.value)
    BY <1>1, <1>3, WindowHolds
  <2> HIDE DEF old, new, t, u
  <2> QED
    BY <2>3, <2>5, <2>6, <2>7 DEF s, e
<1>4. CASE l.type \in {"field_comparison", "segment_membership"}
  <2>1. ASSUME l.type = "field_comparison"
        PROVE  CustomerFieldMap[l.field] \in CustomerColumns \ {"last_tx_at"}
    BY <2>1 DEF Known, DatesLastTx, CustomerFieldMap, CustomerColumns
  <2>2. l.type = "field_comparison" => s.rows[c][CustomerFieldMap[l.field]] = e.rows[c][CustomerFieldMap[l.field]]
    BY <1>1, <1>2, <2>1
  <2>3. s.snapshots = e.snapshots
    BY <1>1, <1>2
  <2>4. LeafHolds(l, c, s) <=> LeafHolds(l, c, e)
    BY <1>4, <2>2, <2>3, DataHolds
  <2> QED
    BY <2>4 DEF s, e
<1> QED
  BY <1>3, <1>4, RuleLeafTypes

\* Shifting the data a day back selects whom a clock a day later would, for every accepted
\* rule that compares no last_tx_at with a literal date (SimulationService.advanceTime).
THEOREM ShiftIsRight == EngineSpec => []ShiftIsTime
<1>1. EngineTypeOK => ShiftIsTime
  <2> SUFFICES ASSUME EngineTypeOK, Accepted, ~ComparesLastTx(rule)
               PROVE  Select(Predicate, Shifted(db, 1)) = Select(Predicate, [db EXCEPT !.now = @ + 1])
    BY DEF ShiftIsTime
  <2> DEFINE s == Shifted(db, 1)
             e == At(db, db.now + 1)
  <2>1. rule \in Rule /\ db \in Database /\ db.now + 1 \in Int
    BY EngineAssumption DEF EngineTypeOK, Database
  <2>2. s \in Database /\ e \in Database
    BY <2>1, ShiftedType, AtType
  <2>3. MaxDepth \in Nat /\ rule \in RuleOf[MaxDepth]
    BY <2>1, DepthAssumption DEF Rule
  <2>4. Leaves(rule) \subseteq RuleLeaves /\ \A l \in Leaves(rule) : Known(l) /\ ~DatesLastTx(l)
    <3>1. ~IsRejected(Compile[MaxDepth][rule][0])
      BY DEF Accepted, Predicate, CompileWhereClause
    <3> QED
      BY <2>3, <3>1, AcceptedLeaves, RuleLeavesDef DEF Leaves, ComparesLastTx, DatesLastTx
  <2>5. LeavesFollow(Leaves(rule), s, e) /\ LeavesFollow(Leaves(rule), e, s)
    BY <2>1, <2>4, ShiftedLeaf DEF LeavesFollow
  <2> HIDE DEF s, e
  <2>6. MembersOf(s)[MaxDepth][rule] = MembersOf(e)[MaxDepth][rule]
    BY <2>2, <2>3, <2>5, MembersFollow DEF Leaves
  <2>7. Select(Predicate, s) = Members(rule, s) /\ Select(Predicate, e) = Members(rule, e)
    BY <2>1, <2>2, PredicateMeans DEF Accepted, Predicate
  <2>8. e = [db EXCEPT !.now = @ + 1]
    BY DEF e, At
  <2> QED
    BY <2>6, <2>7, <2>8 DEF Members, s
<1> QED
  BY <1>1, TypeCorrect, PTL

-----------------------------------------------------------------------------
(* What time does to a segment *)

\* A comparison with >= or > survives a larger number, one with <= or < a smaller one.
LEMMA ComparesOneWay ==
    ASSUME NEW x \in Int, NEW y \in Int, NEW v \in Int, x <= y
    PROVE  /\ \A o \in {">=", ">"} : Compares(x, o, v) => Compares(y, o, v)
           /\ \A o \in {"<=", "<"} : Compares(y, o, v) => Compares(x, o, v)
  BY DEF Compares

\* A window of one direction, at two times.
LEMMA TimeLeaf ==
    ASSUME NEW d \in Database, NEW past \in Int, NEW now \in Int, past <= now, NEW l \in RuleLeaves, NEW c \in CustomerIds
    PROVE  /\ (l.type \in {"date_window_count", "sum_threshold"} => l.operator \in {">=", ">"}) =>
                 (LeafHolds(l, c, At(d, now)) => LeafHolds(l, c, At(d, past)))
           /\ (l.type \in {"date_window_count", "sum_threshold"} => l.operator \in {"<=", "<"}) =>
                 (LeafHolds(l, c, At(d, past)) => LeafHolds(l, c, At(d, now)))
<1> DEFINE a == At(d, past)
           b == At(d, now)
           t == d.txs[c]
<1>1. /\ a.now = past /\ a.rows = d.rows /\ a.txs = d.txs /\ a.snapshots = d.snapshots
      /\ b.now = now /\ b.rows = d.rows /\ b.txs = d.txs /\ b.snapshots = d.snapshots
      /\ t \in Seq(Tx)
  BY DEF At, Database
<1> HIDE DEF a, b
<1>2. CASE l.type \in {"date_window_count", "sum_threshold"}
  <2> DEFINE old == Recent(t, l.windowDays, past)
             new == Recent(t, l.windowDays, now)
             x == IF l.type = "date_window_count" THEN Cardinality(new) ELSE SumOf(t, new)
             y == IF l.type = "date_window_count" THEN Cardinality(old) ELSE SumOf(t, old)
  <2>1. l.windowDays \in Int /\ l.value \in Int
    BY <1>2, RuleLeafTypes
  <2>2. x \in Int /\ y \in Int /\ x <= y
    BY <1>1, <2>1, WindowShrinks
  <2>3. LeafHolds(l, c, a) <=> Compares(y, l.operator, l.value)
    BY <1>1, <1>2, WindowHolds
  <2>4. LeafHolds(l, c, b) <=> Compares(x, l.operator, l.value)
    BY <1>1, <1>2, WindowHolds
  <2> HIDE DEF x, y
  <2>5. /\ \A o \in {">=", ">"} : Compares(x, o, l.value) => Compares(y, o, l.value)
        /\ \A o \in {"<=", "<"} : Compares(y, o, l.value) => Compares(x, o, l.value)
    BY <2>1, <2>2, ComparesOneWay
  <2> QED
    BY <1>2, <2>3, <2>4, <2>5 DEF a, b
<1>3. CASE l.type \in {"field_comparison", "segment_membership"}
  <2>1. LeafHolds(l, c, a) <=> LeafHolds(l, c, b)
    BY <1>1, <1>3, DataHolds
  <2> QED
    BY <2>1 DEF a, b
<1> QED
  BY <1>2, <1>3, RuleLeafTypes

\* A rule of windows of one direction, at two times.
LEMMA TimeRule ==
    ASSUME NEW d \in Database, NEW past \in Int, NEW now \in Int, past <= now, NEW r \in Rule
    PROVE  /\ OneWay(r, {">=", ">"}) => Members(r, At(d, now)) \subseteq Members(r, At(d, past))
           /\ OneWay(r, {"<=", "<"}) => Members(r, At(d, past)) \subseteq Members(r, At(d, now))
<1> DEFINE a == At(d, past)
           b == At(d, now)
<1>1. MaxDepth \in Nat /\ r \in RuleOf[MaxDepth]
  BY DepthAssumption DEF Rule
<1>2. Leaves(r) \subseteq RuleLeaves
  BY <1>1, RuleLeavesDef DEF Leaves
<1>3. a \in Database /\ b \in Database
  BY AtType
<1>4. OneWay(r, {">=", ">"}) => LeavesFollow(Leaves(r), b, a)
  BY <1>2, TimeLeaf DEF OneWay, LeavesFollow
<1>5. OneWay(r, {"<=", "<"}) => LeavesFollow(Leaves(r), a, b)
  BY <1>2, TimeLeaf DEF OneWay, LeavesFollow
<1> HIDE DEF a, b
<1>6. LeavesFollow(Leaves(r), b, a) => Members(r, b) \subseteq Members(r, a)
  BY <1>1, <1>3, MembersFollow DEF Leaves, Members
<1>7. LeavesFollow(Leaves(r), a, b) => Members(r, a) \subseteq Members(r, b)
  BY <1>1, <1>3, MembersFollow DEF Leaves, Members
<1> QED
  BY <1>4, <1>5, <1>6, <1>7 DEF a, b

\* While only the clock has moved, the members are those of the time of the evaluation,
\* which is as many days ago as there were changes, or fewer.
EvaluatedInPast ==
    Accepted /\ timeOnly =>
        \E past \in (db.now - changes)..db.now : members = Select(Predicate, At(db, past))

\* Nothing has been evaluated at first,
LEMMA PastInit == EngineInit => EvaluatedInPast
  BY Zenon DEF EngineInit, EvaluatedInPast

\* and the members are always those of a day that is past or today.
LEMMA PastStep == EngineTypeOK /\ EvaluatedInPast /\ [EngineNext]_engineVars => EvaluatedInPast'
<1> SUFFICES ASSUME EngineTypeOK, EvaluatedInPast, [EngineNext]_engineVars PROVE EvaluatedInPast'
  OBVIOUS
<1>0. db \in Database /\ db.now \in Int /\ changes \in Nat
  BY EngineAssumption DEF EngineTypeOK, Database
<1>1. ASSUME NEW c \in CustomerIds, NEW tx \in Transactions, Transact(c, tx) PROVE EvaluatedInPast'
  BY <1>1, Zenon DEF Transact, EvaluatedInPast
<1>2. ASSUME NEW s \in Segments, NEW ids \in SUBSET CustomerIds, ParentMoves(s, ids) PROVE EvaluatedInPast'
  BY <1>2, Zenon DEF ParentMoves, EvaluatedInPast
<1>3. CASE PassTime
  <2> SUFFICES ASSUME Accepted', timeOnly'
               PROVE  \E past \in (db'.now - changes')..db'.now : members' = Select(Predicate', At(db', past))
    BY Zenon DEF EvaluatedInPast
  <2>1. rule' = rule /\ members' = members /\ Predicate' = Predicate
    BY <1>3 DEF PassTime, Changed, Predicate
  <2>2. timeOnly /\ Accepted
    <3>1. timeOnly
      BY <1>3, Zenon DEF PassTime
    <3> QED
      BY <2>1, <3>1 DEF Accepted
  <2>3. db' = [db EXCEPT !.now = @ + 1] /\ changes' = changes + 1
    BY <1>3 DEF PassTime, Changed
  <2>4. db'.now = db.now + 1 /\ \A past : At(db', past) = At(db, past)
    BY <1>0, <2>3, Zenon DEF At, Database
  <2>5. PICK past \in (db.now - changes)..db.now : members = Select(Predicate, At(db, past))
    BY <2>2, Zenon DEF EvaluatedInPast
  <2>6. past \in (db'.now - changes')..db'.now
    BY <1>0, <2>3, <2>4
  <2> QED
    BY <2>1, <2>4, <2>5, <2>6
<1>4. CASE AdvanceTime
  BY <1>4, Zenon DEF AdvanceTime, EvaluatedInPast
<1>5. CASE Refresh
  <2>1. db' = db /\ changes' = changes /\ members' = Select(Predicate, db) /\ Predicate' = Predicate
    BY <1>5 DEF Refresh, Predicate
  <2>2. db = At(db, db.now)
    BY <1>0 DEF At, Database
  <2>3. db.now \in (db.now - changes)..db.now
    BY <1>0
  <2>4. \E past \in (db'.now - changes')..db'.now : members' = Select(Predicate', At(db', past))
    BY <2>1, <2>2, <2>3
  <2> QED
    BY <2>4, Zenon DEF EvaluatedInPast
<1>6. CASE UNCHANGED engineVars
  BY <1>6, Zenon DEF engineVars, EvaluatedInPast, Accepted, Predicate
<1> QED
  BY <1>1, <1>2, <1>3, <1>4, <1>5, <1>6 DEF EngineNext

\* While only the clock moves, a segment of >= and > windows loses members or keeps them and
\* one of <= and < windows gains some: the members of the last evaluation are stale in that
\* direction only (windows have no upper end, rule-compiler.ts).
THEOREM TimeIsOneWay == EngineSpec => []TimeMovesOneWay
<1>1. EngineSpec => []EvaluatedInPast
  BY TypeCorrect, PastInit, PastStep, PTL DEF EngineSpec
<1>2. EngineTypeOK /\ EvaluatedInPast => TimeMovesOneWay
  <2> SUFFICES ASSUME EngineTypeOK, EvaluatedInPast, Accepted, timeOnly
               PROVE  /\ OneWay(rule, {">=", ">"}) => Select(Predicate, db) \subseteq members
                      /\ OneWay(rule, {"<=", "<"}) => members \subseteq Select(Predicate, db)
    BY Zenon DEF TimeMovesOneWay
  <2>1. rule \in Rule /\ db \in Database /\ db.now \in Int /\ changes \in Nat
    BY EngineAssumption DEF EngineTypeOK, Database
  <2>2. PICK past \in (db.now - changes)..db.now : members = Select(Predicate, At(db, past))
    BY Zenon DEF EvaluatedInPast
  <2>3. past \in Int /\ past <= db.now
    BY <2>1, <2>2
  <2>4. db = At(db, db.now)
    BY <2>1 DEF At, Database
  <2> DEFINE a == At(db, past)
             b == At(db, db.now)
  <2>5. a \in Database /\ b \in Database
    BY <2>1, <2>3, AtType
  <2>6. Select(Predicate, a) = Members(rule, a) /\ Select(Predicate, b) = Members(rule, b)
    <3> HIDE DEF a, b
    <3> QED
      BY <2>1, <2>5, PredicateMeans DEF Accepted, Predicate
  <2>7. /\ OneWay(rule, {">=", ">"}) => Members(rule, b) \subseteq Members(rule, a)
        /\ OneWay(rule, {"<=", "<"}) => Members(rule, a) \subseteq Members(rule, b)
    BY <2>1, <2>3, TimeRule
  <2>8. Select(Predicate, db) = Select(Predicate, b)
    BY <2>4
  <2> HIDE DEF a, b
  <2>9. /\ OneWay(rule, {">=", ">"}) => Select(Predicate, b) \subseteq Select(Predicate, a)
        /\ OneWay(rule, {"<=", "<"}) => Select(Predicate, a) \subseteq Select(Predicate, b)
    BY <2>6, <2>7
  <2>10. members = Select(Predicate, a)
    BY <2>2 DEF a
  <2> QED
    BY <2>8, <2>9, <2>10
<1> QED
  BY <1>1, <1>2, TypeCorrect, PTL
=============================================================================
