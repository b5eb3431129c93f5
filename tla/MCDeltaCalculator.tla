------------------------- MODULE MCDeltaCalculator -------------------------
(***************************************************************************)
(* DeltaCalculator for TLC: a manual refresh in the api racing with the    *)
(* evaluation pass and a cascade handler in the worker.                    *)
(***************************************************************************)
EXTENDS DeltaCalculator

CONSTANTS api, worker, refresh, pass, cascade

\* Which process runs which call.
MCHost ==
    [e \in Evaluators |-> IF e = refresh THEN api ELSE worker]

\* The clocks agree.
NoSkew == [p \in Processes |-> 0]
=============================================================================
