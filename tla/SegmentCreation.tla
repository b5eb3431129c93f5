-------------------------- MODULE SegmentCreation --------------------------
(***************************************************************************)
(* apps/api/src/segments/segments.service.ts: POST /segments, handled by   *)
(* several requests at once, and what it leaves in the tables segments and *)
(* segment_dependencies.  A creation looks for its name, then in one       *)
(* transaction checks that the segments its rules refer to exist, inserts  *)
(* the segment, searches for a cycle and inserts one dependency row per    *)
(* reference.  Statements see what other transactions have committed and   *)
(* what their own has written; the unique index on the name makes an       *)
(* insert wait for an uncommitted row with the same name.                  *)
(***************************************************************************)
EXTENDS Integers

CONSTANTS
    Ids,            \* the identifiers PostgreSQL will generate, one per insert
    Names,
    Requests,       \* concurrent requests
    Unknown,        \* an identifier no segment has
    None,           \* no segment
    MaxCreations,   \* bound: requests posted
    MaxFailures     \* bound: statements that fail

Dto == [name : Names, isStatic : BOOLEAN, refs : SUBSET (Ids \union {Unknown})]
Row == [name : Names, isStatic : BOOLEAN, refs : SUBSET (Ids \union {Unknown}), createdAt : Nat]

ASSUME IdAssumption == Unknown \notin Ids /\ None \notin Ids
ASSUME NoneAssumption == None \notin Dto /\ None \notin Row

VARIABLES
    segments,     \* the committed rows of table segments
    row,          \* row[i]: the columns of segment i, once inserted
    deps,         \* the committed rows <<parent, child>> of segment_dependencies
    snapshotted,  \* the segments with a membership snapshot
    pc,           \* pc[q]: where the request is
    dto,          \* dto[q]: what it asks for
    began,        \* began[q]: when its transaction began, now() in its statements
    inserted,     \* inserted[q]: the segment it has inserted and not yet committed
    links,        \* links[q]: the dependency rows it has inserted and not committed
    clock,        \* the database's clock, one tick per transaction
    used          \* how much of each bound has been used

tables == <<segments, row, deps, snapshotted>>
vars == <<tables, pc, dto, began, inserted, links, clock, used>>

Stages == {"idle", "checking", "parents", "inserting", "searching", "linking", "committing"}
TypeOK ==
    /\ segments \in SUBSET Ids
    /\ row \in [Ids -> Row \union {None}]
    /\ deps \in SUBSET (Ids \X Ids)
    /\ snapshotted \in SUBSET Ids
    /\ pc \in [Requests -> Stages]
    /\ dto \in [Requests -> Dto \union {None}]
    /\ began \in [Requests -> Nat]
    /\ inserted \in [Requests -> Ids \union {None}]
    /\ links \in [Requests -> SUBSET (Ids \X Ids)]
    /\ clock \in Nat
    /\ used \in [creations : Nat, failures : Nat]

Refs(q) == dto[q].refs
SameName(q, i) == row[i].name = dto[q].name

-----------------------------------------------------------------------------
(* One creation *)

\* POST /segments.  A client knows the identifiers of committed segments; any
\* other it sends is one that no segment has.
Post(q, d) ==
    /\ used.creations < MaxCreations
    /\ pc[q] = "idle"
    /\ d.refs \subseteq segments \union {Unknown}
    /\ pc' = [pc EXCEPT ![q] = "checking"]
    /\ dto' = [dto EXCEPT ![q] = d]
    /\ used' = [used EXCEPT !.creations = @ + 1]
    /\ UNCHANGED <<tables, began, inserted, links, clock>>

\* Mutant of Answered: a rejected creation leaves its transaction open.
AnsweredInTransaction(q) ==
    /\ pc' = [pc EXCEPT ![q] = "idle"]
    /\ dto' = [dto EXCEPT ![q] = None]
    /\ UNCHANGED <<began, inserted, links>>

\* The request is answered and its transaction, if any, over.
Answered(q) ==
    /\ pc' = [pc EXCEPT ![q] = "idle"]
    /\ dto' = [dto EXCEPT ![q] = None]
    /\ began' = [began EXCEPT ![q] = 0]
    /\ inserted' = [inserted EXCEPT ![q] = None]
    /\ links' = [links EXCEPT ![q] = {}]

\* A committed segment has the name: ConflictException.
NameTaken(q) ==
    /\ pc[q] = "checking"
    /\ \E i \in segments : SameName(q, i)
    /\ Answered(q)
    /\ UNCHANGED <<tables, clock, used>>

\* The name looks free; the transaction begins.
Begin(q) ==
    /\ pc[q] = "checking"
    /\ \A i \in segments : ~SameName(q, i)
    /\ pc' = [pc EXCEPT ![q] = IF Refs(q) = {} THEN "inserting" ELSE "parents"]
    /\ began' = [began EXCEPT ![q] = clock]
    /\ clock' = clock + 1
    /\ UNCHANGED <<tables, dto, inserted, links, used>>

\* found.length === parentIds.length
ParentsExist(refs) == refs \subseteq segments

\* assertParentsExist, and the exception it throws.
CheckParents(q) ==
    /\ pc[q] = "parents"
    /\ IF ParentsExist(Refs(q))
       THEN pc' = [pc EXCEPT ![q] = "inserting"] /\ UNCHANGED <<dto, began, inserted, links>>
       ELSE Answered(q)
    /\ UNCHANGED <<tables, clock, used>>

\* Mutant of NameOpen: there is no unique index.
NameAlwaysOpen(q) == TRUE

\* The unique index lets the row of q in: no row with its name is committed or
\* about to be.
NameOpen(q) ==
    /\ \A i \in segments : ~SameName(q, i)
    /\ \A p \in Requests : inserted[p] # None => ~SameName(q, inserted[p])

\* created_at is the default now(): when the transaction began.
NewRow(q) ==
    [name |-> dto[q].name, isStatic |-> dto[q].isStatic, refs |-> Refs(q), createdAt |-> began[q]]

\* mgr.save(segment): INSERT with a fresh identifier.
Insert(q, i) ==
    /\ pc[q] = "inserting"
    /\ NameOpen(q)
    /\ i \in Ids /\ row[i] = None
    /\ row' = [row EXCEPT ![i] = NewRow(q)]
    /\ inserted' = [inserted EXCEPT ![q] = i]
    /\ pc' = [pc EXCEPT ![q] = IF Refs(q) = {} THEN "committing" ELSE "searching"]
    /\ UNCHANGED <<segments, deps, snapshotted, dto, began, links, clock, used>>

\* The insert meets a row with the same name that is committed by now: the
\* statement fails, and with it the request (500, not 409).
InsertFails(q) ==
    /\ pc[q] = "inserting"
    /\ \E i \in segments : SameName(q, i)
    /\ Answered(q)
    /\ UNCHANGED <<tables, clock, used>>

\* What the search of assertNoCycle visits from i: its descendants.  (Nobody else
\* can refer to an uncommitted segment, so its reads over time are one step.)
Descendants(i) ==
    {c \in Ids : \A X \in SUBSET Ids :
        (\A e \in deps : e[1] \in X \union {i} => e[2] \in X) => c \in X}

\* The check for a reference to itself and assertNoCycle.
Search(q) ==
    /\ pc[q] = "searching"
    /\ IF Refs(q) \intersect ({inserted[q]} \union Descendants(inserted[q])) = {}
       THEN pc' = [pc EXCEPT ![q] = "linking"] /\ UNCHANGED <<dto, began, inserted, links>>
       ELSE Answered(q)
    /\ UNCHANGED <<tables, clock, used>>

\* Mutants of Links: the columns are swapped; only references to segments without
\* parents get a row.
LinksSwapped(i, refs) == {<<i, p>> : p \in refs}
LinksOfKnown(i, refs) == {<<p, i>> : p \in {r \in refs : row[r].refs = {}}}

\* One row per reference.
Links(i, refs) == {<<p, i>> : p \in refs}

\* mgr.save(dependencies): both columns are foreign keys.
Link(q) ==
    /\ pc[q] = "linking"
    /\ Refs(q) \subseteq segments
    /\ links' = [links EXCEPT ![q] = Links(inserted[q], Refs(q))]
    /\ pc' = [pc EXCEPT ![q] = "committing"]
    /\ UNCHANGED <<tables, dto, began, inserted, clock, used>>

Commit(q) ==
    /\ pc[q] = "committing"
    /\ segments' = segments \union {inserted[q]}
    /\ deps' = deps \union links[q]
    /\ Answered(q)
    /\ UNCHANGED <<row, snapshotted, clock, used>>

\* A statement fails, or the api stops: the transaction is rolled back.
Fail(q) ==
    /\ used.failures < MaxFailures
    /\ pc[q] # "idle"
    /\ Answered(q)
    /\ used' = [used EXCEPT !.failures = @ + 1]
    /\ UNCHANGED <<tables, clock>>

-----------------------------------------------------------------------------
(* Evaluation *)

\* POST /segments/:id/refresh writes a first snapshot.  (Nothing else does for
\* a static segment; a pass does for a dynamic one.)
Refresh(i) ==
    /\ i \in segments
    /\ snapshotted' = snapshotted \union {i}
    /\ UNCHANGED <<segments, row, deps, pc, dto, began, inserted, links, clock, used>>

-----------------------------------------------------------------------------
(* The specification *)

Init ==
    /\ segments = {}
    /\ row = [i \in Ids |-> None]
    /\ deps = {}
    /\ snapshotted = {}
    /\ pc = [q \in Requests |-> "idle"]
    /\ dto = [q \in Requests |-> None]
    /\ began = [q \in Requests |-> 0]
    /\ inserted = [q \in Requests |-> None]
    /\ links = [q \in Requests |-> {}]
    /\ clock = 0
    /\ used = [creations |-> 0, failures |-> 0]

Step(q) ==
    \/ NameTaken(q)
    \/ Begin(q)
    \/ CheckParents(q)
    \/ \E i \in Ids : Insert(q, i)
    \/ InsertFails(q)
    \/ Search(q)
    \/ Link(q)
    \/ Commit(q)

Next ==
    \/ \E q \in Requests, d \in Dto : Post(q, d)
    \/ \E q \in Requests : Step(q) \/ Fail(q)
    \/ \E i \in Ids : Refresh(i)

Spec == Init /\ [][Next]_vars

\* A request goes on: the event loop and the database make progress, and an
\* insert that waits for the index goes on when the row it waits for is settled.
FairSpec == Spec /\ \A q \in Requests : WF_vars(Step(q))

-----------------------------------------------------------------------------
(* Properties *)

\* A segment is created after the segments it depends on, whatever creations
\* interleave: the graph that the cascade follows has no cycle, and a pass in
\* order of created_at meets parents before children.  (EvalPipeline assumes it.)
ParentsAreOlder ==
    \A e \in deps :
        /\ e[1] \in segments /\ e[2] \in segments
        /\ row[e[1]].createdAt < row[e[2]].createdAt

\* The cascade reaches a segment from exactly those segments that its rules read:
\* no failure, rejection or race leaves a segment with some of its dependency
\* rows, or dependency rows without their segment.
DependenciesMatchRules ==
    \A i \in segments : {e \in deps : e[2] = i} = {<<p, i>> : p \in row[i].refs}

\* Two creations that both found the name free do not both succeed.
NamesAreUnique ==
    \A i, j \in segments : row[i].name = row[j].name => i = j

\* Every creation is answered: nobody waits for a name that a finished request holds.
CreationsEnd ==
    \A q \in Requests : pc[q] # "idle" ~> pc[q] = "idle"

\* A static segment is fixed at its creation (README, "static segments").
StaticFixedAtCreation ==
    \A i \in segments : row[i].isStatic => i \in snapshotted
=============================================================================
