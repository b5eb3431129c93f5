--------------------------- MODULE SegmentLedger ---------------------------
(***************************************************************************)
(* What an evaluation of a segment promises, with no database, lock or     *)
(* clock in sight.  A segment has one membership.  An evaluation either    *)
(* changes nothing or replaces the membership and leaves the caller with   *)
(* the exact difference; the caller then announces the difference, or dies *)
(* and the difference is never announced.  DeltaCalculator implements this *)
(* module when the clocks of the evaluating processes agree.               *)
(***************************************************************************)
CONSTANTS Customers, Segments, Evaluators

VARIABLES
    members,    \* members[s]: the membership of segment s
    holding     \* holding[e]: the deltas evaluator e has to announce (at most one)

vars == <<members, holding>>

\* A delta names its segment and who joined and who left it.
Delta == [seg : Segments, added : SUBSET Customers, removed : SUBSET Customers]

Init ==
    /\ members = [s \in Segments |-> {}]
    /\ holding = [e \in Evaluators |-> {}]

\* Evaluator e moves segment s to a different membership and is handed the
\* exact difference.
Record(e, s, new) ==
    /\ holding[e] = {}
    /\ new # members[s]
    /\ members' = [members EXCEPT ![s] = new]
    /\ holding' = [holding EXCEPT ![e] =
            {[seg     |-> s,
              added   |-> new \ members[s],
              removed |-> members[s] \ new]}]

\* Evaluator e announces its delta.
Announce(e) ==
    /\ holding[e] # {}
    /\ holding' = [holding EXCEPT ![e] = {}]
    /\ UNCHANGED members

\* The process that runs the evaluators in dead stops: what they hold is lost.
Lose(dead) ==
    /\ holding' = [e \in Evaluators |-> IF e \in dead THEN {} ELSE holding[e]]
    /\ UNCHANGED members

Next ==
    \/ \E e \in Evaluators, s \in Segments, new \in SUBSET Customers : Record(e, s, new)
    \/ \E e \in Evaluators : Announce(e)
    \/ \E dead \in SUBSET Evaluators : Lose(dead)

Spec == Init /\ [][Next]_vars
=============================================================================
