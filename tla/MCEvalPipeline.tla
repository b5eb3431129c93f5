--------------------------- MODULE MCEvalPipeline ---------------------------
(***************************************************************************)
(* EvalPipeline for TLC on a chain of segments, the last of which may be   *)
(* static.  A membership is whether the one customer that matters is a     *)
(* member.                                                                 *)
(***************************************************************************)
EXTENDS EvalPipeline

CONSTANTS root, middle, leaf

\* A chain: middle refers to root and leaf to middle.
ChainParents ==
    [s \in Segments |-> CASE s = root -> {} [] s = middle -> {root} [] s = leaf -> {middle}]

\* Parents exist before their children; other segments were created in between.
MCCreatedAt ==
    [s \in Segments |-> CASE s = root -> 2 [] s = middle -> 5 [] s = leaf -> 9]

\* The root looks at the data; the others at their parents' snapshots.
MCMatches(s, d, m) == IF Parents[s] = {} THEN d = 1 ELSE \A p \in Parents[s] : m[p]
=============================================================================
