-------------------------- MODULE ClientDirectory --------------------------
(***************************************************************************)
(* What one browser knows of the segments: the directory of                *)
(* services/segments-cache.service.ts, which the list page, the ticker,    *)
(* the page of a segment and the summaries of rules share.                 *)
(*                                                                         *)
(* The directory starts empty and is filled by the answer to one request;  *)
(* a segment page puts its segment into it as well.  Requests, answers,    *)
(* deltas, timeouts and the user take their turns in any order.  Segments  *)
(* are created by others meanwhile.                                        *)
(***************************************************************************)
EXTENDS Integers, FiniteSetsExt, SequencesExt

CONSTANTS
    Segments,
    None,
    Seeded,           \* the segments there are when the browser starts
    MaxItems,         \* MAX_ITEMS of the ticker
    MaxDeltas,        \* bound: deltas received
    MaxVisits,        \* bound: pages opened
    MaxFailures       \* bound: requests for the list that fail

VARIABLES
    known,     \* the segments in the database
    requests,  \* GET /segments in flight: None, or the segments answered
    fetched, directory,
    ticker,    \* the items of the ticker, the newest first
    list,      \* the list page
    detail,    \* the page of a segment
    latest,    \* history: the latest delta of each segment since it is listed
    used

vars == <<known, requests, fetched, directory, ticker, list, detail, latest, used>>

-----------------------------------------------------------------------------

Deltas == [segment : Segments, added : 0 .. 1, removed : 0 .. 1]

NewItem == [flash |-> None, lastDelta |-> None, timers |-> 0]

NoPage == [open |-> FALSE, items |-> << >>]

Used(what) == used' = [used EXCEPT ![what] = @ + 1]

Listed == DOMAIN list.items

TypeOK ==
    /\ directory \subseteq known /\ known \subseteq Segments
    /\ Len(ticker) <= MaxItems
    /\ \A s \in Listed : list.items[s].flash # None => list.items[s].timers > 0
    /\ {detail.shown, detail.getting} \subseteq known \union {None}

-----------------------------------------------------------------------------
(* SegmentsCacheService, and who listens to it *)

\* Mutant of Refreshed: the list page forgets what it has shown.
RefreshedAnew(segments) == [s \in segments |-> NewItem]

\* The list page keeps its items and takes new ones for the segments it has not had.
Refreshed(segments) == [s \in segments |-> IF s \in Listed THEN list.items[s] ELSE NewItem]

\* Mutant of Renamed: the ticker keeps the labels it has.
LabelsKept(items, segments) == items

\* refreshNames: items whose segment has no name keep their label.
Renamed(items, segments) ==
    [i \in DOMAIN items |-> [items[i] EXCEPT !.named = @ \/ items[i].delta.segment \in segments]]

\* subject.next.
Emit(segments) ==
    /\ directory' = segments
    /\ ticker' = Renamed(ticker, segments)
    /\ list' = IF list.open
               THEN [list EXCEPT !.items = Refreshed(segments)] ELSE list
    /\ latest' = [s \in Segments |-> IF s \in segments THEN latest[s] ELSE None]

\* all$() asks for the list as long as no answer has come.
NeedsFetch == ~fetched

Fetching == requests' = IF NeedsFetch THEN Append(requests, None) ELSE requests

\* GET /segments is evaluated.
Evaluate(i) ==
    /\ requests[i] = None
    /\ requests' = [requests EXCEPT ![i] = known]
    /\ UNCHANGED <<known, fetched, directory, ticker, list, detail, latest, used>>

\* The answer replaces the directory.
Arrive(i) ==
    /\ requests[i] # None
    /\ requests' = RemoveAt(requests, i)
    /\ fetched' = TRUE
    /\ Emit(requests[i])
    /\ UNCHANGED <<known, detail, used>>

\* The request fails; all$() has subscribed to it with no handler of errors, and the
\* subject, whose errors the list page would show, has none.
FetchFails(i) ==
    /\ used.failures < MaxFailures /\ Used("failures")
    /\ requests' = RemoveAt(requests, i)
    /\ UNCHANGED <<known, fetched, directory, ticker, list, detail, latest>>

Create(s) ==
    /\ s \notin known /\ known' = known \union {s}
    /\ UNCHANGED <<requests, fetched, directory, ticker, list, detail, latest, used>>

-----------------------------------------------------------------------------
(* The pages: one of them is open at a time *)

Visit == used.visits < MaxVisits /\ Used("visits")

\* The list page subscribes: the directory emits at once what it has, which
\* ends the loading of the page before the answer comes.
OpenList ==
    /\ Visit
    /\ Fetching
    /\ list' = [open |-> TRUE, items |-> [s \in directory |-> NewItem]]
    /\ latest' = [s \in Segments |-> None]
    /\ detail' = [shown |-> None, getting |-> None]
    /\ UNCHANGED <<known, fetched, directory, ticker>>

\* The route of s: a segment page that is open is kept, and asks for s if it is another.
Routed(s) ==
    IF detail.shown = s /\ detail.getting = None THEN detail ELSE [detail EXCEPT !.getting = s]

\* A card of the list page, or the address bar.
OpenDetail(s) ==
    /\ Visit /\ s \in known
    /\ detail' = Routed(s)
    /\ list' = NoPage /\ latest' = [t \in Segments |-> None]
    /\ UNCHANGED <<known, requests, fetched, directory, ticker>>

\* Mutant of Upserted: the segment is all there is.
UpsertedAlone(s) == {s}

\* upsert.
Upserted(s) == directory \union {s}

SegmentArrives ==
    LET s == detail.getting IN
    /\ s # None
    /\ Emit(Upserted(s))
    /\ detail' = [shown |-> s, getting |-> None]
    /\ UNCHANGED <<known, requests, fetched, used>>

-----------------------------------------------------------------------------
(* Deltas *)

Flash(d, before) ==
    IF d.added > d.removed THEN "add" ELSE IF d.removed > 0 THEN "remove" ELSE before

\* append of the ticker.
Ticked(d) ==
    IF d.added = 0 /\ d.removed = 0 THEN ticker
    ELSE LET items == <<[delta |-> d, named |-> d.segment \in directory]>> \o ticker IN
         SubSeq(items, 1, Min({MaxItems, Len(items)}))

\* applyDelta, with its timeout.
Lit(item, d) ==
    [flash |-> Flash(d, item.flash), lastDelta |-> d, timers |-> item.timers + 1]

\* A delta arrives: the ticker and the list page handle it.
HandleDelta(d) ==
    /\ used.deltas < MaxDeltas /\ Used("deltas")
    /\ d.segment \in known
    /\ ticker' = Ticked(d)
    /\ IF d.segment \in Listed
       THEN /\ list' = [list EXCEPT !.items[d.segment] = Lit(@, d)]
            /\ latest' = [latest EXCEPT ![d.segment] = d]
       ELSE UNCHANGED <<list, latest>>
    /\ UNCHANGED <<known, requests, fetched, directory, detail>>

\* 1200 ms after a delta the flash of its card goes out.
FlashEnds(s) ==
    /\ s \in Listed /\ list.items[s].timers > 0
    /\ list' = [list EXCEPT !.items[s].timers = @ - 1, !.items[s].flash = None]
    /\ UNCHANGED <<known, requests, fetched, directory, ticker, detail, latest, used>>

\* dismiss, which opens the page of the segment.
Dismiss(i) ==
    /\ Visit
    /\ ticker' = RemoveAt(ticker, i)
    /\ detail' = Routed(ticker[i].delta.segment)
    /\ list' = NoPage /\ latest' = [t \in Segments |-> None]
    /\ UNCHANGED <<known, requests, fetched, directory>>

Clear ==
    /\ ticker # << >> /\ ticker' = << >>
    /\ UNCHANGED <<known, requests, fetched, directory, list, detail, latest, used>>

-----------------------------------------------------------------------------
(* The specification *)

\* The application starts on some page; the ticker has subscribed.
Init ==
    /\ known = Seeded
    /\ requests = <<None>> /\ fetched = FALSE /\ directory = {}
    /\ ticker = << >>
    /\ list = NoPage /\ detail = [shown |-> None, getting |-> None]
    /\ latest = [s \in Segments |-> None]
    /\ used = [deltas |-> 0, visits |-> 0, failures |-> 0]

Next ==
    \/ \E i \in DOMAIN requests : Evaluate(i) \/ Arrive(i) \/ FetchFails(i)
    \/ \E s \in Segments : Create(s) \/ OpenDetail(s) \/ FlashEnds(s)
    \/ OpenList \/ SegmentArrives \/ Clear
    \/ \E d \in Deltas : HandleDelta(d)
    \/ \E i \in DOMAIN ticker : Dismiss(i)

Spec == Init /\ [][Next]_vars

-----------------------------------------------------------------------------
(* Properties *)

\* An item of the ticker shows the name of its segment whenever the directory has it,
\* whichever of the delta and the name came first (append, refreshNames).
TickerIsNamed ==
    \A i \in DOMAIN ticker : ticker[i].delta.segment \in directory => ticker[i].named

\* Each card shows the latest delta of its segment since it is listed, even when answers
\* have rebuilt the list in between.
CardsKeepTheirDelta == \A s \in Listed : list.items[s].lastDelta = latest[s]

\* Once the list has been answered the directory has every segment the browser could have
\* known at its start, whatever answers and segment pages have written since.
DirectoryIsComplete == fetched => Seeded \subseteq directory
=============================================================================
