---------------------------- MODULE MCMessaging ----------------------------
(***************************************************************************)
(* Debouncer and DeltaFeed for TLC: how the messages that make the worker  *)
(* evaluate are held back, and how the deltas it records are handed on.    *)
(* They share no variable, so one run checks them side by side: a          *)
(* behaviour follows the part it starts with, the other stays as it is.    *)
(***************************************************************************)
EXTENDS Debouncer, DeltaFeed

VARIABLE part

MessagingInit == part \in {"timer", "feed"} /\ Init /\ FeedInit

TimerStep == part = "timer" /\ Next /\ UNCHANGED <<part, feedVars>>
FeedStep == part = "feed" /\ FeedNext /\ UNCHANGED <<part, vars>>

MessagingSpec ==
    MessagingInit /\ [][TimerStep \/ FeedStep]_<<part, vars, feedVars>> /\ Fairness
=============================================================================
