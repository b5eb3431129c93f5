---------------------------- MODULE SimulatePage ----------------------------
(***************************************************************************)
(* client/src/app/pages/simulate/simulate.component.ts with                *)
(* services/customers.service.ts and services/simulation.service.ts: the   *)
(* forms that change customer data, and the customers the browser          *)
(* remembers for them and for the member rows of the segment pages.        *)
(*                                                                         *)
(* The customer is the version of its profile: the number of patches the   *)
(* api has served, of this browser and of others.  The simulate page is    *)
(* left and opened again at any time; a request goes on without it.  The   *)
(* activity log is left out.                                               *)
(***************************************************************************)
EXTENDS Integers, FiniteSetsExt

CONSTANTS
    None,
    MaxCommands,   \* bound: commands run
    MaxVisits,     \* bound: pages opened
    MaxFailures,   \* bound: requests that fail
    MaxOthers      \* bound: patches by other clients

VARIABLES
    customer,  \* in the database: the version of the profile
    cache,     \* cache$: None, or the version its GET /customers has read and whether it has come
    page,      \* the simulate page: None, or its number and busy
    running,   \* requests in flight: form, page, and the version when the api has done its work
    seen,      \* history: the version of the last patch known to this browser to be done
    used

vars == <<customer, cache, page, running, seen, used>>

-----------------------------------------------------------------------------

Forms == {"transaction", "profile", "advance", "bulk"}

Version == Nat \union {None}

Request == [form : Forms, page : Nat, wrote : Version]

NewPage(number) == [number |-> number, busy |-> FALSE]

\* The requests of the page that is open.
Own == {r \in running : page # None /\ r.page = page.number}

TypeOK ==
    /\ cache \in [read : Version, here : BOOLEAN] \union {None}
    /\ page \in [number : Nat, busy : BOOLEAN] \union {None}
    /\ running \in SUBSET Request
    /\ Cardinality(Own) <= 1 /\ (Own # {} => page.busy)

Used(what) == used' = [used EXCEPT ![what] = @ + 1]

-----------------------------------------------------------------------------
(* CustomersService *)

\* list: the request whose answer is shared, or a new one.
List == cache' = IF cache = None THEN [read |-> None, here |-> FALSE] ELSE cache

\* The api reads the customers for the request,
ListServed ==
    /\ cache # None /\ cache.read = None
    /\ cache' = [cache EXCEPT !.read = customer]
    /\ UNCHANGED <<customer, page, running, seen, used>>

\* and the answer comes: shareReplay keeps it.
ListAnswered ==
    /\ cache # None /\ cache.read # None /\ ~cache.here
    /\ cache' = [cache EXCEPT !.here = TRUE]
    /\ UNCHANGED <<customer, page, running, seen, used>>

\* The request fails: shareReplay starts over with the next subscriber.
ListFails ==
    /\ cache # None /\ ~cache.here
    /\ used.failures < MaxFailures /\ Used("failures")
    /\ cache' = None
    /\ UNCHANGED <<customer, page, running, seen>>

\* Mutant of Invalidates: a patch leaves the customers remembered.
NeverInvalidates(form) == FALSE

\* The forms whose success drops the customers remembered.
Invalidates(form) == form = "profile"

-----------------------------------------------------------------------------
(* The pages *)

\* The simulate page is opened: a new component.
OpenSimulate ==
    /\ page = None
    /\ used.visits < MaxVisits /\ Used("visits")
    /\ List
    /\ page' = NewPage(used.visits)
    /\ UNCHANGED <<customer, running, seen>>

\* A segment page is opened: its member rows show the customers.
OpenSegment ==
    /\ used.visits < MaxVisits /\ Used("visits")
    /\ List
    /\ page' = None
    /\ UNCHANGED <<customer, running, seen>>

\* A button: run.
Run(form) ==
    /\ used.commands < MaxCommands /\ Used("commands")
    /\ page # None /\ ~page.busy
    /\ page' = [page EXCEPT !.busy = TRUE]
    /\ running' = running \union {[form |-> form, page |-> page.number, wrote |-> None]}
    /\ UNCHANGED <<customer, cache, seen>>

-----------------------------------------------------------------------------
(* The requests *)

\* What the api writes to the customer: the other forms leave the profile.
Written(form) == IF form = "profile" THEN customer + 1 ELSE customer

Serve(r) ==
    /\ r \in running /\ r.wrote = None
    /\ customer' = Written(r.form)
    /\ running' = (running \ {r}) \union {[r EXCEPT !.wrote = customer']}
    /\ UNCHANGED <<cache, page, seen, used>>

\* Another client patches the profile: this browser hears nothing of it.
OthersPatch ==
    /\ used.others < MaxOthers /\ Used("others")
    /\ customer' = customer + 1
    /\ UNCHANGED <<cache, page, running, seen>>

\* Mutant of Ended: busy is left to the next component.
NotEnded(p) == p

\* complete, after next.
Ended(p) == [p EXCEPT !.busy = FALSE]

\* The answer of the api: next and complete.  A component that is gone writes to itself.
Succeed(r) ==
    /\ r \in running /\ r.wrote # None
    /\ running' = running \ {r}
    /\ cache' = IF Invalidates(r.form) THEN None ELSE cache
    /\ page' = IF r \in Own THEN Ended(page) ELSE page
    /\ seen' = IF r.form = "profile" THEN Max({seen, r.wrote}) ELSE seen
    /\ UNCHANGED <<customer, used>>

\* The request fails, before or after the api has done its work: error alone is called.
FailRequest(r) ==
    /\ r \in running
    /\ used.failures < MaxFailures /\ Used("failures")
    /\ running' = running \ {r}
    /\ UNCHANGED <<customer, cache, page, seen>>

-----------------------------------------------------------------------------
(* The specification *)

Init ==
    /\ customer = 0 /\ cache = None /\ page = None
    /\ running = {} /\ seen = 0
    /\ used = [commands |-> 0, visits |-> 0, failures |-> 0, others |-> 0]

Next ==
    \/ ListServed \/ ListAnswered \/ ListFails
    \/ OpenSimulate \/ OpenSegment \/ OthersPatch
    \/ \E form \in Forms : Run(form)
    \/ \E r \in running : Serve(r) \/ Succeed(r) \/ FailRequest(r)

\* The api answers.
Fairness == WF_vars(\E r \in running : Serve(r)) /\ WF_vars(\E r \in running : Succeed(r))

Spec == Init /\ [][Next]_vars /\ Fairness

-----------------------------------------------------------------------------
(* Properties *)

\* The customers remembered have every patch this browser knows to be done, however its
\* patches, its requests for the list and its changes of page overlap, and whatever others
\* patch meanwhile: those patches the list may lack (updateProfile, list, invalidate).
OwnPatchesAreRemembered ==
    cache # None /\ cache.read # None => cache.read >= seen

\* The buttons of the page come back after each command that succeeds.
SuccessFreesForms ==
    (page # None /\ page.busy /\ used.failures = 0)
        ~> (page = None \/ ~page.busy \/ used.failures > 0)
=============================================================================
