----------------------------- MODULE DetailPage -----------------------------
(***************************************************************************)
(* client/src/app/pages/segment-detail/segment-detail.component.ts, with   *)
(* services/deltas.service.ts and services/segments.service.ts: the page   *)
(* of one segment, in one browser.                                         *)
(*                                                                         *)
(* The member list comes from the answer to a refresh, which the api sends *)
(* over HTTP, and from then on from the deltas of the socket.io            *)
(* connection, in whatever order the two arrive.  The component stays the  *)
(* same when the route changes from one segment to another: a link of the  *)
(* live ticker leads from page to page.                                    *)
(***************************************************************************)
EXTENDS Integers, FiniteSetsExt, SequencesExt

CONSTANTS
    Customers,
    Segments,
    None,
    MaxLog,            \* entries kept in the delta log
    MaxEvaluations,    \* bound: evaluations that change a segment
    MaxRefreshes,      \* bound: clicks on "Refresh & load members"
    MaxNavigations,    \* bound: changes of the route
    MaxFailures        \* bound: failing requests and lost connections

VARIABLES
    members, version,  \* of each segment: its latest snapshot and how many there have been
    unsent,            \* recorded deltas that are not yet broadcast
    wire,              \* deltas on the way to this browser, in the order of the broadcasts
    online,            \* the socket is connected
    request,           \* the refresh in flight: its segment, and the answer once there is one
    page,              \* the fields of the component
    delivered,         \* delivered[s]: the highest version among the deltas of s received
    excuse,            \* history: why the list may differ from the latest snapshot; a segment
                       \* stands for a delta of it that was missed
    used

vars == <<members, version, unsent, wire, online, request, page, delivered, excuse, used>>

-----------------------------------------------------------------------------

NoRequest == [segment |-> None, ids |-> {}, version |-> 0, answered |-> FALSE]

\* A new component on the route of s: api.get(s) is on the way.
Opened(s) ==
    [getting |-> s, shown |-> None, alive |-> TRUE, error |-> FALSE,
     subs |-> [t \in Segments |-> 0], listed |-> FALSE, rows |-> {}, refreshing |-> FALSE,
     added |-> {}, removed |-> {}, timers |-> 0, log |-> <<>>]

TypeOK ==
    /\ members \in [Segments -> SUBSET Customers]
    /\ page.getting \in Segments \union {None} /\ page.shown \in Segments \union {None}
    /\ page.rows \subseteq Customers /\ Len(page.log) <= MaxLog
    /\ (page.refreshing <=> request.segment # None)
    /\ (page.added \union page.removed # {} => page.timers > 0)
    /\ (page.listed => page.shown # None)

Used(what) == used' = [used EXCEPT ![what] = @ + 1]

-----------------------------------------------------------------------------
(* The servers *)

Evaluated(s, ids) ==
    [segment |-> s, version |-> version[s] + 1,
     added |-> ids \ members[s], removed |-> members[s] \ ids]

Recorded(s, ids) ==
    /\ members' = [members EXCEPT ![s] = ids]
    /\ version' = [version EXCEPT ![s] = @ + 1]
    /\ unsent' = unsent \union {Evaluated(s, ids)}

\* A pass or a cascade of the worker records a delta.
Evaluate(s, ids) ==
    /\ used.evaluations < MaxEvaluations /\ ids # members[s]
    /\ Recorded(s, ids)
    /\ Used("evaluations")
    /\ UNCHANGED <<wire, online, request, page, delivered, excuse>>

\* A delta is broadcast; a browser that is not connected misses it.
Broadcast(d) ==
    /\ d \in unsent /\ unsent' = unsent \ {d}
    /\ wire' = IF online THEN Append(wire, d) ELSE wire
    /\ excuse' = IF online THEN excuse ELSE excuse \union {d.segment}
    /\ UNCHANGED <<members, version, online, request, page, delivered, used>>

\* The api handles the refresh: it evaluates, and answers with all members.
Answer(ids) ==
    LET s == request.segment IN
    /\ s # None /\ ~request.answered
    /\ \/ ids = members[s] /\ UNCHANGED <<members, version, unsent, used>>
       \/ ids # members[s] /\ used.evaluations < MaxEvaluations /\ Recorded(s, ids) /\ Used("evaluations")
    /\ request' = [segment |-> s, ids |-> ids, version |-> version'[s], answered |-> TRUE]
    /\ UNCHANGED <<wire, online, page, delivered, excuse>>

-----------------------------------------------------------------------------
(* The component *)

\* paramMap emits another id: switchMap abandons the request before.
Navigate(s) ==
    /\ used.navigations < MaxNavigations /\ Used("navigations")
    /\ s # page.shown \/ page.getting # None
    /\ page' = IF page.alive THEN [page EXCEPT !.getting = s] ELSE page
    /\ UNCHANGED <<members, version, unsent, wire, online, request, delivered, excuse>>

\* The page is left and opened again: everything begins anew.
Reopen(s) ==
    /\ used.navigations < MaxNavigations /\ Used("navigations")
    /\ page' = Opened(s)
    /\ request' = NoRequest /\ excuse' = excuse \intersect Segments
    /\ UNCHANGED <<members, version, unsent, wire, online, delivered>>

\* api.get answers: the segment is shown and its deltas subscribed to, in addition to
\* those subscribed to before; the member list is left as it is.
SegmentArrives ==
    LET s == page.getting IN
    /\ s # None
    /\ page' = [page EXCEPT !.getting = None, !.shown = s, !.subs[s] = @ + 1]
    /\ excuse' = IF page.shown \notin {None, s} /\ (page.listed \/ page.refreshing)
                 THEN excuse \union {"switched"} ELSE excuse
    /\ UNCHANGED <<members, version, unsent, wire, online, request, delivered, used>>

\* It fails: the subscription to the route is over.
SegmentFails ==
    /\ page.getting # None /\ used.failures < MaxFailures /\ Used("failures")
    /\ page' = [page EXCEPT !.getting = None, !.alive = FALSE, !.error = TRUE]
    /\ UNCHANGED <<members, version, unsent, wire, online, request, delivered, excuse>>

\* The button.
Refresh ==
    /\ page.shown # None /\ ~page.refreshing
    /\ used.refreshes < MaxRefreshes /\ Used("refreshes")
    /\ page' = [page EXCEPT !.refreshing = TRUE]
    /\ request' = [NoRequest EXCEPT !.segment = page.shown]
    /\ UNCHANGED <<members, version, unsent, wire, online, delivered, excuse>>

\* Mutant of MemberList: the new ids are added to the rows there are.
MergedList(ids) == page.rows \union ids

\* applyMemberList.
MemberList(ids) == ids

\* The answer is applied, whatever segment is shown now.
RefreshDone ==
    LET s == request.segment
        stale == IF request.version < delivered[s] THEN {"overtaken"} ELSE {}
        older == \E d \in unsent \union ToSet(wire) : d.segment = s /\ d.version <= request.version
        missed == excuse \intersect (IF request.version < version[s] \/ older THEN Segments
                                     ELSE Segments \ {s})
        other == IF s # page.shown THEN {"switched"} ELSE {} IN
    /\ request.answered
    /\ page' = [page EXCEPT !.refreshing = FALSE, !.listed = TRUE, !.rows = MemberList(request.ids)]
    /\ request' = NoRequest
    /\ excuse' = stale \union missed \union other
    /\ UNCHANGED <<members, version, unsent, wire, online, delivered, used>>

\* Mutant of FailedRefresh: the flag is reset on success only.
FailedStuck(p) == [p EXCEPT !.error = TRUE]

FailedRefresh(p) == [p EXCEPT !.refreshing = FALSE, !.error = TRUE]

RefreshFails ==
    /\ request.segment # None /\ used.failures < MaxFailures /\ Used("failures")
    /\ page' = FailedRefresh(page)
    /\ request' = NoRequest
    /\ UNCHANGED <<members, version, unsent, wire, online, delivered, excuse>>

\* The delta applied to the rows.
Applied(rows, d) == (rows \union d.added) \ d.removed

\* setTimeout for each handling of a delta.
Timers(p, n) == p.timers + n

\* The delta at the head of the wire, handled once for each subscription to its segment.
HandleDelta ==
    LET d == Head(wire)
        n == page.subs[d.segment]
        entries == [i \in 1..n |-> d]
        late == IF d.version < delivered[d.segment] THEN {"swapped"} ELSE {}
        foreign == IF d.segment # page.shown THEN {"switched"} ELSE {} IN
    /\ wire # <<>> /\ wire' = Tail(wire)
    /\ delivered' = [delivered EXCEPT ![d.segment] = Max({@, d.version})]
    /\ page' = IF n = 0 THEN page
               ELSE LET logged == [page EXCEPT !.log =
                                     SubSeq(entries \o @, 1, Min({MaxLog, n + Len(@)}))] IN
                    IF ~page.listed THEN logged
                    ELSE [logged EXCEPT !.rows = Applied(@, d), !.added = d.added,
                                        !.removed = d.removed, !.timers = Timers(page, n)]
    /\ excuse' = IF n = 0 \/ ~page.listed THEN excuse \union (late \ foreign)
                 ELSE excuse \union late \union foreign
    /\ UNCHANGED <<members, version, unsent, online, request, used>>

\* 1500 ms after a delta the highlights go out, those of a later one too.
TimerFires ==
    /\ page.timers > 0
    /\ page' = [page EXCEPT !.timers = @ - 1, !.added = {}, !.removed = {}]
    /\ UNCHANGED <<members, version, unsent, wire, online, request, delivered, excuse, used>>

\* The connection breaks, with what is on the way; after the reconnect nothing is
\* loaded again.
Offline ==
    /\ online /\ used.failures < MaxFailures /\ Used("failures")
    /\ online' = FALSE /\ wire' = <<>>
    /\ excuse' = excuse \union {d.segment : d \in ToSet(wire)}
    /\ UNCHANGED <<members, version, unsent, request, page, delivered>>

Online ==
    /\ ~online /\ online' = TRUE
    /\ UNCHANGED <<members, version, unsent, wire, request, page, delivered, excuse, used>>

-----------------------------------------------------------------------------
(* The specification *)

Init ==
    /\ members = [s \in Segments |-> {}] /\ version = [s \in Segments |-> 0]
    /\ unsent = {} /\ wire = <<>> /\ online = TRUE
    /\ request = NoRequest
    /\ \E s \in Segments : page = Opened(s)
    /\ delivered = [s \in Segments |-> 0]
    /\ excuse = {}
    /\ used = [evaluations |-> 0, refreshes |-> 0, navigations |-> 0, failures |-> 0]

Next ==
    \/ \E s \in Segments, ids \in SUBSET Customers : Evaluate(s, ids)
    \/ \E d \in unsent : Broadcast(d)
    \/ \E ids \in SUBSET Customers : Answer(ids)
    \/ \E s \in Segments : Navigate(s) \/ Reopen(s)
    \/ SegmentArrives \/ SegmentFails
    \/ Refresh \/ RefreshDone \/ RefreshFails
    \/ HandleDelta \/ TimerFires \/ Offline \/ Online

Spec == Init /\ [][Next]_vars

-----------------------------------------------------------------------------
(* Properties *)

\* Nothing about the shown segment is on its way.
Settled ==
    /\ page.listed /\ ~page.refreshing /\ page.getting = None /\ wire = <<>>
    /\ unsent = {}

\* What was missed of the other segments does not count.
Excuses == excuse \ (Segments \ {page.shown})

Right == page.rows = members[page.shown]

\* The list is the latest snapshot, unless a delta was missed while offline, arrived
\* before an older answer or after a younger delta, or the page has changed segments
\* since: nothing else leads it astray (handleDelta, applyMemberList).
SettledListIsRight == Settled /\ Excuses = {} => Right

\* Changing from the page of one segment to that of another shows the members of that
\* other one (README.md:122-124).
SwitchingIsHarmless == Settled /\ Excuses \subseteq {"switched"} => Right
=============================================================================
