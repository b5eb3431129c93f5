----------------------------- MODULE MCDiamond -----------------------------
(***************************************************************************)
(* EvalPipeline for TLC on the diamond of the README: B and C refer to A,  *)
(* D has the members of B and those of C.  The data decides which one of   *)
(* two customers is a member of A.                                         *)
(***************************************************************************)
EXTENDS EvalPipeline

CONSTANTS A, B, C, D, ann, bob

MCParents ==
    [s \in Segments |-> CASE s = A -> {} [] s \in {B, C} -> {A} [] s = D -> {B, C}]

MCCreatedAt ==
    [s \in Segments |-> CASE s = A -> 0 [] s = B -> 1 [] s = C -> 2 [] s = D -> 3]

\* Two customers trade places, as with a bulk import or time that moves on.
MCMatches(s, d, m) ==
    IF s = A THEN {IF d = 0 THEN ann ELSE bob}
    ELSE UNION {m[p] : p \in Parents[s]}
=============================================================================
