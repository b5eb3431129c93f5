----------------------------- MODULE MCClient -----------------------------
(***************************************************************************)
(* DetailPage, ClientDirectory and SimulatePage for TLC: what one browser  *)
(* keeps of members, segments and customers.  They share no variable, so   *)
(* one run checks them side by side: a behaviour follows the part it       *)
(* starts with, the others stay as they are.                               *)
(***************************************************************************)
EXTENDS Naturals

CONSTANTS
    Customers, Segments, Seeded, None, MaxLog, MaxItems,
    MaxEvaluations, MaxRefreshes, MaxNavigations, MaxFailures,
    MaxDeltas, MaxCommands, MaxVisits, MaxOthers

\* None is no segment, and no segment is one of the reasons in Page!excuse.
ASSUME ClientAssumption ==
    /\ Seeded \subseteq Segments
    /\ None \notin Segments /\ Segments \intersect {"overtaken", "swapped", "switched"} = {}
    /\ MaxLog \in Nat /\ MaxItems \in Nat

VARIABLES
    part,
    members, version, unsent, wire, online, request, page, delivered, excuse, pageUsed,
    known, requests, fetched, directory, ticker, list, detail, latest, directoryUsed,
    customer, cache, form, running, seen, formUsed

pageVars == <<members, version, unsent, wire, online, request, page, delivered, excuse, pageUsed>>
directoryVars == <<known, requests, fetched, directory, ticker, list, detail, latest, directoryUsed>>
formVars == <<customer, cache, form, running, seen, formUsed>>

Page == INSTANCE DetailPage WITH used <- pageUsed
Directory == INSTANCE ClientDirectory WITH used <- directoryUsed
Simulate == INSTANCE SimulatePage WITH page <- form, used <- formUsed

ClientInit ==
    part \in {"page", "directory", "forms"} /\ Page!Init /\ Directory!Init /\ Simulate!Init

PageNext == part = "page" /\ Page!Next /\ UNCHANGED <<part, directoryVars, formVars>>
DirectoryNext == part = "directory" /\ Directory!Next /\ UNCHANGED <<part, pageVars, formVars>>
FormsNext == part = "forms" /\ Simulate!Next /\ UNCHANGED <<part, pageVars, directoryVars>>

ClientSpec ==
    /\ ClientInit
    /\ [][PageNext \/ DirectoryNext \/ FormsNext]_<<part, pageVars, directoryVars, formVars>>
    /\ Simulate!Fairness

-----------------------------------------------------------------------------
(* The properties of the instances *)

\* The variables of each part have their types.
TypesOK == Page!TypeOK /\ Directory!TypeOK /\ Simulate!TypeOK

\* The member list is the latest snapshot, unless for one of the reasons there are.
SettledListIsRight == Page!SettledListIsRight

\* Items of the ticker have the names the directory has.
TickerIsNamed == Directory!TickerIsNamed

\* Cards keep their latest delta when the list is rebuilt.
CardsKeepTheirDelta == Directory!CardsKeepTheirDelta

\* An answer never takes from the directory what the browser could have known before.
DirectoryIsComplete == Directory!DirectoryIsComplete

\* The customers remembered have the patches the browser knows to be done.
OwnPatchesAreRemembered == Simulate!OwnPatchesAreRemembered

\* The buttons come back after a command that succeeds.
SuccessFreesForms == Simulate!SuccessFreesForms
=============================================================================
