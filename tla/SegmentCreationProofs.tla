----------------------- MODULE SegmentCreationProofs -----------------------
(***************************************************************************)
(* Theorems about SegmentCreation for any identifiers, names and requests: *)
(* the dependency graph that creations leave behind.                       *)
(***************************************************************************)
EXTENDS SegmentCreation, TLAPS

-----------------------------------------------------------------------------
(* The inductive invariant *)

Holding == {"searching", "linking", "committing"}
Begun == Holding \union {"parents", "inserting"}

\* A committed row has the columns of a row, from a transaction that has begun.
RowsAreWritten == \A i \in segments : row[i] \in Row /\ row[i].createdAt < clock

\* A running request refers to committed segments or to none that exists, ...
RequestsReferToSegments ==
    \A q \in Requests :
        /\ pc[q] # "idle" => dto[q] \in Dto /\ Refs(q) \subseteq segments \union {Unknown}
        /\ pc[q] \in Begun \ {"parents"} => Refs(q) \subseteq segments

\* ... those that were created before its transaction began.
RequestsAreYounger ==
    \A q \in Requests : pc[q] \in Begun =>
        began[q] < clock /\ \A p \in Refs(q) \intersect segments : row[p].createdAt < began[q]

\* From its insert to its end, and only then, a request has a row of its own that
\* nobody else sees, with what it asked for.
RequestsOwnTheirRows ==
    /\ \A q \in Requests :
        /\ pc[q] \in Holding => inserted[q] \in Ids \ segments /\ row[inserted[q]] = NewRow(q)
        /\ pc[q] \notin Holding => inserted[q] = None
    /\ \A p, q \in Requests : inserted[p] = inserted[q] /\ inserted[p] # None => p = q

\* A request that is about to commit has written all of its dependency rows.
LinksAreComplete ==
    \A q \in Requests :
        links[q] = IF pc[q] = "committing" THEN Links(inserted[q], Refs(q)) ELSE {}

\* The unique index covers uncommitted rows too.
Written == segments \union {inserted[q] : q \in {r \in Requests : inserted[r] # None}}
WrittenNamesAreUnique == \A i, j \in Written : row[i].name = row[j].name => i = j

CreationInv ==
    /\ TypeOK
    /\ RowsAreWritten
    /\ RequestsReferToSegments
    /\ RequestsAreYounger
    /\ RequestsOwnTheirRows
    /\ LinksAreComplete
    /\ WrittenNamesAreUnique
    /\ ParentsAreOlder
    /\ DependenciesMatchRules

-----------------------------------------------------------------------------
(* Every step preserves it *)

\* Before the first request there are no segments.
LEMMA CreationInit == Init => CreationInv
<1> SUFFICES ASSUME Init PROVE CreationInv
  OBVIOUS
<1>1. TypeOK
  BY DEF Init, TypeOK, Stages
<1>2. RowsAreWritten /\ RequestsReferToSegments /\ RequestsAreYounger /\ LinksAreComplete
  BY DEF Init, RowsAreWritten, RequestsReferToSegments, RequestsAreYounger,
         LinksAreComplete, Begun, Holding
<1>3. RequestsOwnTheirRows
  BY DEF Init, RequestsOwnTheirRows, Holding
<1>4. WrittenNamesAreUnique
  BY DEF Init, WrittenNamesAreUnique, Written
<1>5. ParentsAreOlder /\ DependenciesMatchRules
  BY DEF Init, ParentsAreOlder, DependenciesMatchRules
<1> QED
  BY <1>1, <1>2, <1>3, <1>4, <1>5 DEF CreationInv

\* An answer that commits nothing disturbs nothing: the row of the request was
\* its own.
LEMMA RollbackKeepsInv ==
    ASSUME CreationInv, NEW q \in Requests, Answered(q), UNCHANGED <<tables, clock>>,
           used' \in [creations : Nat, failures : Nat]
    PROVE  CreationInv'
<1> USE DEF CreationInv, tables
<1>1. TypeOK'
  BY DEF TypeOK, Answered, Stages
<1>2. RowsAreWritten' /\ ParentsAreOlder' /\ DependenciesMatchRules'
  BY DEF RowsAreWritten, ParentsAreOlder, DependenciesMatchRules
<1>3. RequestsReferToSegments' /\ RequestsAreYounger' /\ LinksAreComplete'
  BY DEF TypeOK, Answered, RequestsReferToSegments, RequestsAreYounger,
         LinksAreComplete, Begun, Holding, Refs
<1>4. RequestsOwnTheirRows'
  BY DEF TypeOK, Answered, RequestsOwnTheirRows, Holding, NewRow, Refs
<1>5. Written' \subseteq Written
  BY DEF TypeOK, Answered, Written
<1>6. WrittenNamesAreUnique'
  BY <1>5 DEF WrittenNamesAreUnique
<1> QED
  BY <1>1, <1>2, <1>3, <1>4, <1>6

\* A step of one request that writes no row keeps what is said of rows.
LEMMA RowsStay ==
    ASSUME CreationInv, UNCHANGED <<segments, row, deps, inserted>>, clock' \in Nat, clock' >= clock
    PROVE  /\ RowsAreWritten' /\ ParentsAreOlder' /\ DependenciesMatchRules'
           /\ WrittenNamesAreUnique'
<1>1. RowsAreWritten' /\ ParentsAreOlder' /\ DependenciesMatchRules'
  BY DEF CreationInv, TypeOK, RowsAreWritten, ParentsAreOlder, DependenciesMatchRules, Row
<1>2. WrittenNamesAreUnique'
  BY DEF CreationInv, WrittenNamesAreUnique, Written
<1> QED
  BY <1>1, <1>2

\* A new request refers to segments that are committed, or to none.
LEMMA PostKeepsInv ==
    ASSUME CreationInv, NEW q \in Requests, NEW d \in Dto, Post(q, d)
    PROVE  CreationInv'
<1> USE DEF CreationInv, Post, tables
<1>1. TypeOK'
  BY DEF TypeOK, Stages
<1>2. RequestsReferToSegments' /\ RequestsAreYounger' /\ LinksAreComplete'
  BY DEF TypeOK, RequestsReferToSegments, RequestsAreYounger, LinksAreComplete,
         Begun, Holding, Refs
<1>3. RequestsOwnTheirRows'
  BY DEF TypeOK, RequestsOwnTheirRows, Holding, NewRow, Refs
<1> QED
  BY <1>1, <1>2, <1>3, RowsStay DEF TypeOK

\* The transaction begins after every committed segment was created.
LEMMA BeginKeepsInv ==
    ASSUME CreationInv, NEW q \in Requests, Begin(q)
    PROVE  CreationInv'
<1> USE DEF CreationInv, Begin, tables
<1>1. TypeOK'
  BY DEF TypeOK, Stages
<1>2. RequestsReferToSegments'
  BY DEF TypeOK, RequestsReferToSegments, Begun, Holding, Refs
<1>3. RequestsAreYounger'
  BY DEF TypeOK, RequestsAreYounger, RowsAreWritten, Row, Begun, Holding, Refs
<1>4. LinksAreComplete'
  BY DEF TypeOK, LinksAreComplete, Refs
<1>5. RequestsOwnTheirRows'
  BY DEF TypeOK, RequestsOwnTheirRows, Holding, NewRow, Refs
<1> QED
  BY <1>1, <1>2, <1>3, <1>4, <1>5, RowsStay DEF TypeOK

\* Only known parents pass.
LEMMA CheckParentsKeepsInv ==
    ASSUME CreationInv, NEW q \in Requests, CheckParents(q)
    PROVE  CreationInv'
<1>1. CASE ParentsExist(Refs(q))
  <2> USE <1>1 DEF CreationInv, CheckParents, ParentsExist, tables
  <2>1. TypeOK'
    BY DEF TypeOK, Stages
  <2>2. RequestsReferToSegments' /\ RequestsAreYounger' /\ LinksAreComplete'
    BY DEF TypeOK, RequestsReferToSegments, RequestsAreYounger, LinksAreComplete,
           Begun, Holding, Refs
  <2>3. RequestsOwnTheirRows'
    BY DEF TypeOK, RequestsOwnTheirRows, Holding, NewRow, Refs
  <2> QED
    BY <2>1, <2>2, <2>3, RowsStay DEF TypeOK
<1>2. CASE ~ParentsExist(Refs(q))
  BY <1>2, RollbackKeepsInv DEF CheckParents, CreationInv, TypeOK
<1> QED
  BY <1>1, <1>2

\* The inserted row is nobody else's, and its name is new.
LEMMA InsertKeepsInv ==
    ASSUME CreationInv, NEW q \in Requests, NEW i \in Ids, Insert(q, i)
    PROVE  CreationInv'
<1> USE DEF CreationInv, Insert
<1>1. dto[q] \in Dto /\ began[q] \in Nat /\ NewRow(q) \in Row /\ NewRow(q) # None
  BY NoneAssumption DEF TypeOK, RequestsReferToSegments, NewRow, Dto, Row, Refs
<1>2. i \notin Written
  <2>1. \A j \in segments : row[j] # None
    BY NoneAssumption DEF RowsAreWritten
  <2>2. ASSUME NEW p \in Requests, inserted[p] # None PROVE row[inserted[p]] # None
    <3>1. pc[p] \in Holding /\ row[inserted[p]] = NewRow(p)
      BY <2>2 DEF RequestsOwnTheirRows
    <3>2. NewRow(p) \in Row
      BY <3>1 DEF NewRow, Row, Dto, Refs, TypeOK, RequestsReferToSegments, Holding
    <3> QED
      BY <3>1, <3>2, NoneAssumption
  <2> QED
    BY <2>1, <2>2 DEF Written
<1>3. i # None /\ pc[q] \notin Holding /\ inserted[q] = None
  BY IdAssumption DEF RequestsOwnTheirRows, Holding
<1>4. \A j \in Written : row'[j] = row[j]
  BY <1>2 DEF TypeOK
<1>5. TypeOK'
  BY <1>1 DEF TypeOK, Stages
<1>6. segments \subseteq Written
  BY DEF Written
<1>7. RowsAreWritten'
  BY <1>4, <1>6 DEF RowsAreWritten
<1>8. RequestsReferToSegments' /\ RequestsAreYounger' /\ LinksAreComplete'
  <2>1. RequestsReferToSegments'
    BY DEF TypeOK, RequestsReferToSegments, Begun, Holding, Refs
  <2>2. RequestsAreYounger'
    BY <1>4, <1>6 DEF TypeOK, RequestsAreYounger, Begun, Holding, Refs
  <2>3. LinksAreComplete'
    BY DEF TypeOK, LinksAreComplete, Links, Refs
  <2> QED
    BY <2>1, <2>2, <2>3
<1>9. RequestsOwnTheirRows'
  <2>1. \A p \in Requests : inserted[p] # i
    BY <1>2, <1>3 DEF Written
  <2>2. ASSUME NEW p \in Requests
        PROVE  /\ pc'[p] \in Holding => inserted'[p] \in Ids \ segments /\ row'[inserted'[p]] = NewRow(p)'
               /\ pc'[p] \notin Holding => inserted'[p] = None
    BY <1>2, <1>3, <2>1, <1>6 DEF TypeOK, RequestsOwnTheirRows, Holding, NewRow, Refs
  <2>3. ASSUME NEW p \in Requests, NEW r \in Requests, inserted'[p] = inserted'[r], inserted'[p] # None
        PROVE  p = r
    BY <2>1, <2>3 DEF TypeOK, RequestsOwnTheirRows
  <2> QED
    BY <2>2, <2>3 DEF RequestsOwnTheirRows
<1>10. WrittenNamesAreUnique'
  <2>1. Written' \subseteq Written \union {i}
    BY DEF Written, TypeOK
  <2>2. \A j \in Written : row[j].name # row'[i].name
    BY DEF NameOpen, SameName, Written, NewRow, TypeOK
  <2> QED
    BY <2>1, <2>2, <1>4 DEF WrittenNamesAreUnique
<1>11. ParentsAreOlder' /\ DependenciesMatchRules'
  BY <1>4, <1>6 DEF ParentsAreOlder, DependenciesMatchRules
<1> QED
  BY <1>5, <1>7, <1>8, <1>9, <1>10, <1>11

\* The search changes nothing, or rolls back.
LEMMA SearchKeepsInv ==
    ASSUME CreationInv, NEW q \in Requests, Search(q)
    PROVE  CreationInv'
<1>1. CASE pc' = [pc EXCEPT ![q] = "linking"] /\ UNCHANGED <<dto, began, inserted, links>>
  <2> USE <1>1 DEF CreationInv, Search, tables
  <2>1. TypeOK'
    BY DEF TypeOK, Stages
  <2>2. RequestsReferToSegments' /\ RequestsAreYounger' /\ LinksAreComplete'
    BY DEF TypeOK, RequestsReferToSegments, RequestsAreYounger, LinksAreComplete,
           Begun, Holding, Refs
  <2>3. RequestsOwnTheirRows'
    BY DEF TypeOK, RequestsOwnTheirRows, Holding, NewRow, Refs
  <2> QED
    BY <2>1, <2>2, <2>3, RowsStay DEF TypeOK
<1>2. CASE Answered(q)
  BY <1>2, RollbackKeepsInv DEF Search, CreationInv, TypeOK
<1> QED
  BY <1>1, <1>2 DEF Search

\* All dependency rows are written before the request can commit.
LEMMA LinkKeepsInv ==
    ASSUME CreationInv, NEW q \in Requests, Link(q)
    PROVE  CreationInv'
<1> USE DEF CreationInv, Link, tables
<1>1. Links(inserted[q], Refs(q)) \in SUBSET (Ids \X Ids)
  BY DEF Links, RequestsOwnTheirRows, TypeOK, Holding
<1>2. TypeOK'
  BY <1>1 DEF TypeOK, Stages
<1>3. RequestsReferToSegments' /\ RequestsAreYounger'
  BY DEF TypeOK, RequestsReferToSegments, RequestsAreYounger, Begun, Holding, Refs
<1>4. LinksAreComplete'
  BY DEF TypeOK, LinksAreComplete, Refs
<1>5. RequestsOwnTheirRows'
  BY DEF TypeOK, RequestsOwnTheirRows, Holding, NewRow, Refs
<1> QED
  BY <1>2, <1>3, <1>4, <1>5, RowsStay DEF TypeOK

\* A commit adds one segment, younger than those it refers to, and its edges.
LEMMA CommitKeepsInv ==
    ASSUME CreationInv, NEW q \in Requests, Commit(q)
    PROVE  CreationInv'
<1> USE DEF CreationInv, Commit, Answered
<1> DEFINE i == inserted[q]
<1>1. /\ i \in Ids \ segments /\ row[i] = NewRow(q) /\ i # None
      /\ links[q] = {<<p, i>> : p \in Refs(q)}
      /\ Refs(q) \subseteq segments /\ dto[q] \in Dto
      /\ began[q] \in Nat /\ began[q] < clock
      /\ \A p \in Refs(q) : row[p].createdAt < began[q]
  BY IdAssumption DEF TypeOK, RequestsOwnTheirRows, LinksAreComplete, Links, Holding, Begun,
     RequestsReferToSegments, RequestsAreYounger
<1>2. row[i] \in Row /\ row[i].refs = Refs(q) /\ row[i].createdAt = began[q]
  BY <1>1 DEF NewRow, Row, Dto, Refs
<1>3. TypeOK'
  BY <1>1 DEF TypeOK, Stages
<1>4. RowsAreWritten'
  BY <1>1, <1>2 DEF RowsAreWritten
<1>5. RequestsReferToSegments' /\ LinksAreComplete'
  BY DEF TypeOK, RequestsReferToSegments, LinksAreComplete, Begun, Holding, Refs
<1>6. RequestsAreYounger'
  <2>1. \A p \in Requests : pc[p] # "idle" => i \notin Refs(p)
    BY <1>1, IdAssumption DEF RequestsReferToSegments
  <2> QED
    BY <2>1 DEF TypeOK, RequestsAreYounger, Begun, Holding, Refs
<1>7. RequestsOwnTheirRows'
  BY <1>1 DEF TypeOK, RequestsOwnTheirRows, Holding, NewRow, Refs
<1>8. WrittenNamesAreUnique'
  <2>1. Written' \subseteq Written
    BY <1>1 DEF Written, TypeOK
  <2> QED
    BY <2>1 DEF WrittenNamesAreUnique
<1>9. ParentsAreOlder'
  <2>1. ASSUME NEW e \in links[q]
        PROVE  e[1] \in segments /\ e[2] = i /\ row[e[1]].createdAt < row[e[2]].createdAt
    BY <1>1, <1>2
  <2> QED
    BY <2>1 DEF ParentsAreOlder
<1>10. DependenciesMatchRules'
  <2>1. ASSUME NEW j \in segments'
        PROVE  {e \in deps' : e[2] = j} = {<<p, j>> : p \in row[j].refs}
    <3>1. CASE j = i
      <4>1. {e \in deps : e[2] = i} = {}
        BY <1>1 DEF ParentsAreOlder
      <4>2. {e \in links[q] : e[2] = i} = links[q]
        BY <1>1
      <4> QED
        BY <3>1, <4>1, <4>2, <1>1, <1>2
    <3>2. CASE j \in segments
      <4>1. {e \in links[q] : e[2] = j} = {}
        BY <1>1, <3>2
      <4>2. {e \in deps : e[2] = j} = {<<p, j>> : p \in row[j].refs}
        BY <3>2 DEF DependenciesMatchRules
      <4> QED
        BY <4>1, <4>2
    <3> QED
      BY <3>1, <3>2
  <2> QED
    BY <2>1 DEF DependenciesMatchRules
<1> QED
  BY <1>3, <1>4, <1>5, <1>6, <1>7, <1>8, <1>9, <1>10

\* A refresh changes nothing but snapshots.
LEMMA RefreshKeepsInv ==
    ASSUME CreationInv, NEW i \in Ids, Refresh(i)
    PROVE  CreationInv'
<1> USE DEF CreationInv, Refresh
<1>1. TypeOK'
  BY DEF TypeOK
<1>2. RequestsReferToSegments' /\ RequestsAreYounger' /\ LinksAreComplete'
  BY DEF RequestsReferToSegments, RequestsAreYounger, LinksAreComplete, Refs
<1>3. RequestsOwnTheirRows'
  BY DEF RequestsOwnTheirRows, NewRow, Refs
<1> QED
  BY <1>1, <1>2, <1>3, RowsStay DEF TypeOK

\* Whatever interleaves, the invariant survives.
LEMMA CreationStep == CreationInv /\ [Next]_vars => CreationInv'
<1> SUFFICES ASSUME CreationInv, [Next]_vars PROVE CreationInv'
  OBVIOUS
<1>1. ASSUME NEW q \in Requests, NEW d \in Dto, Post(q, d) PROVE CreationInv'
  BY <1>1, PostKeepsInv
<1>2. ASSUME NEW q \in Requests, Step(q) PROVE CreationInv'
  <2>1. CASE NameTaken(q)
    BY <2>1, RollbackKeepsInv DEF NameTaken, CreationInv, TypeOK
  <2>2. CASE Begin(q)
    BY <2>2, BeginKeepsInv
  <2>3. CASE CheckParents(q)
    BY <2>3, CheckParentsKeepsInv
  <2>4. ASSUME NEW i \in Ids, Insert(q, i) PROVE CreationInv'
    BY <2>4, InsertKeepsInv
  <2>5. CASE InsertFails(q)
    BY <2>5, RollbackKeepsInv DEF InsertFails, CreationInv, TypeOK
  <2>6. CASE Search(q)
    BY <2>6, SearchKeepsInv
  <2>7. CASE Link(q)
    BY <2>7, LinkKeepsInv
  <2>8. CASE Commit(q)
    BY <2>8, CommitKeepsInv
  <2> QED
    BY <1>2, <2>1, <2>2, <2>3, <2>4, <2>5, <2>6, <2>7, <2>8 DEF Step
<1>3. ASSUME NEW q \in Requests, Fail(q) PROVE CreationInv'
  <2>1. used' \in [creations : Nat, failures : Nat]
    BY <1>3 DEF Fail, CreationInv, TypeOK
  <2> QED
    BY <1>3, <2>1, RollbackKeepsInv DEF Fail
<1>4. ASSUME NEW i \in Ids, Refresh(i) PROVE CreationInv'
  BY <1>4, RefreshKeepsInv
<1>5. CASE UNCHANGED vars
  <2> USE <1>5 DEF CreationInv, vars, tables
  <2>1. TypeOK'
    BY DEF TypeOK
  <2>2. RequestsReferToSegments' /\ RequestsAreYounger' /\ LinksAreComplete'
    BY DEF RequestsReferToSegments, RequestsAreYounger, LinksAreComplete, Refs
  <2>3. RequestsOwnTheirRows'
    BY DEF RequestsOwnTheirRows, NewRow, Refs
  <2> QED
    BY <2>1, <2>2, <2>3, RowsStay DEF TypeOK
<1> QED
  BY <1>1, <1>2, <1>3, <1>4, <1>5 DEF Next

\* The invariant of every behaviour.
LEMMA CreationAlways == Spec => []CreationInv
  BY CreationInit, CreationStep, PTL DEF Spec

-----------------------------------------------------------------------------
(* Theorems *)

\* Types, for create() with any number of requests, names and identifiers.
THEOREM TypeCorrect == Spec => []TypeOK
<1>1. CreationInv => TypeOK
  BY DEF CreationInv
<1> QED
  BY <1>1, CreationAlways, PTL

\* create() never commits a segment that is not younger than every segment it
\* refers to: the order by created_at of the worker's pass puts parents before
\* children, and the graph that the cascade follows has no cycle.
THEOREM ParentsStayOlder == Spec => []ParentsAreOlder
<1>1. CreationInv => ParentsAreOlder
  BY DEF CreationInv
<1> QED
  BY <1>1, CreationAlways, PTL

\* The rows that the cascade reads are exactly the references in the rules,
\* whatever fails or is rejected halfway through create().
THEOREM GraphMatchesRules == Spec => []DependenciesMatchRules
<1>1. CreationInv => DependenciesMatchRules
  BY DEF CreationInv
<1> QED
  BY <1>1, CreationAlways, PTL

\* Two creations that both found the name free do not both commit.
THEOREM NamesStayUnique == Spec => []NamesAreUnique
<1>1. CreationInv => NamesAreUnique
  BY DEF CreationInv, WrittenNamesAreUnique, Written, NamesAreUnique
<1> QED
  BY <1>1, CreationAlways, PTL

\* The search of assertNoCycle and the check for a self-reference never find
\* anything: nobody can refer to a segment that is not committed.
SearchFindsNothing ==
    \A q \in Requests : pc[q] = "searching" =>
        Refs(q) \intersect ({inserted[q]} \union Descendants(inserted[q])) = {}

\* "Cycle detected" and "references itself" are answers that no request gets.
THEOREM NoCycleIsEverFound == Spec => []SearchFindsNothing
<1>1. ASSUME CreationInv, NEW q \in Requests, pc[q] = "searching"
      PROVE  Refs(q) \intersect ({inserted[q]} \union Descendants(inserted[q])) = {}
  <2>1. inserted[q] \notin segments /\ Refs(q) \subseteq segments
    BY <1>1 DEF CreationInv, RequestsOwnTheirRows, RequestsReferToSegments, Begun, Holding
  <2>2. \A e \in deps : e[1] # inserted[q]
    BY <1>1, <2>1 DEF CreationInv, ParentsAreOlder
  <2>3. Descendants(inserted[q]) = {}
    <3>1. \A e \in deps : e[1] \in {} \union {inserted[q]} => e[2] \in {}
      BY <2>2
    <3>2. {} \in SUBSET Ids
      OBVIOUS
    <3> QED
      BY <3>1, <3>2, Zenon DEF Descendants
  <2> QED
    BY <2>1, <2>3
<1>2. CreationInv => SearchFindsNothing
  BY <1>1 DEF SearchFindsNothing
<1> QED
  BY <1>2, CreationAlways, PTL
=============================================================================
