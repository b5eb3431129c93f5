---------------------------- MODULE ClientProofs ----------------------------
(***************************************************************************)
(* MCClient for any segments, customers, sizes of the logs and bounds: the *)
(* member list of a segment page, the directory of segments with the       *)
(* ticker and the cards, and the customers the browser remembers.          *)
(***************************************************************************)
EXTENDS MCClient, FiniteSetTheorems, SequenceTheorems, TLAPS

-----------------------------------------------------------------------------
(* The page of a segment *)

Delta == [segment : Segments, version : Nat, added : SUBSET Customers, removed : SUBSET Customers]
Answers == [segment : Segments \union {None}, ids : SUBSET Customers, version : Nat, answered : BOOLEAN]
Component ==
    [getting : Segments \union {None}, shown : Segments \union {None}, alive : BOOLEAN, error : BOOLEAN,
     subs : [Segments -> Nat], listed : BOOLEAN, rows : SUBSET Customers, refreshing : BOOLEAN,
     added : SUBSET Customers, removed : SUBSET Customers, timers : Nat, log : Seq(Delta)]
Tags == {"overtaken", "swapped", "switched"}

\* Deltas of s on the way to the browser.
Pending(s) == {d \in unsent \union Range(wire) : d.segment = s}
Mentions(d, c) == c \in d.added \union d.removed

PageTypes ==
    /\ members \in [Segments -> SUBSET Customers]
    /\ version \in [Segments -> Nat] /\ delivered \in [Segments -> Nat]
    /\ unsent \subseteq Delta /\ wire \in Seq(Delta)
    /\ request \in Answers /\ page \in Component

\* Versions of what is on the way, and the fields of the component that go together.
PageFacts ==
    /\ \A s \in Segments : delivered[s] <= version[s]
    /\ \A s \in Segments : \A d \in Pending(s) : d.version <= version[s] /\ d.added \intersect d.removed = {}
    /\ request.answered => request.segment # None /\ request.version <= version[request.segment]
    /\ page.refreshing <=> request.segment # None
    /\ page.added \union page.removed # {} => page.timers > 0
    /\ page.listed \/ page.refreshing => page.shown # None
    /\ page.shown # None => page.subs[page.shown] > 0
    /\ Len(page.log) <= MaxLog

\* Unless a delta was missed, the last one on the way that mentions a customer is right about it.
Truthful(s) ==
    s \notin excuse => \A d \in Pending(s), c \in Customers :
        /\ d.version >= delivered[s] /\ Mentions(d, c)
        /\ \A e \in Pending(s) : e.version > d.version => ~Mentions(e, c)
        => (c \in d.added <=> c \in members[s])

\* An answer that is not overtaken is right about whom no later delta on the way mentions.
AnswerIsGood ==
    request.answered =>
        LET s == request.segment  v == request.version IN
        /\ v = version[s] => request.ids = members[s]
        /\ s \notin excuse /\ v >= delivered[s] => \A c \in Customers :
              \/ c \in request.ids <=> c \in members[s]
              \/ \E d \in Pending(s) : d.version > v /\ Mentions(d, c)

\* So is the list, unless there is an excuse or a delta has been overtaken.
ListIsGood ==
    LET s == page.shown IN
    page.listed /\ excuse \intersect (Tags \union {s}) = {} /\ (\A d \in Pending(s) : d.version >= delivered[s])
    => \A c \in Customers : \/ c \in page.rows <=> c \in members[s]
                            \/ \E d \in Pending(s) : Mentions(d, c)

PageInv == PageTypes /\ PageFacts /\ (\A s \in Segments : Truthful(s)) /\ AnswerIsGood /\ ListIsGood

\* The smaller of two numbers, as slice() takes it.
LEMMA MinOfTwo ==
    ASSUME NEW a \in Int, NEW b \in Int
    PROVE  Page!Min({a, b}) = IF a <= b THEN a ELSE b
BY DEF Page!Min

\* The larger of two numbers: the latest version delivered.
LEMMA MaxOfTwo ==
    ASSUME NEW a \in Int, NEW b \in Int
    PROVE  Page!Max({a, b}) = IF a <= b THEN b ELSE a
BY DEF Page!Max

\* A function on 1..n is a sequence of length n.
LEMMA SeqOf ==
    ASSUME NEW S, NEW n \in Nat, NEW f \in [1..n -> S]
    PROVE  f \in Seq(S) /\ Len(f) = n
<1>1. f \in Seq(S)
  OBVIOUS
<1> QED
  BY <1>1, LenProperties

\* What is on the wire when a message is sent and when one is received.
LEMMA WireFacts ==
    ASSUME NEW S, NEW w \in Seq(S)
    PROVE  /\ Page!ToSet(w) = Range(w) /\ Range(w) \subseteq S
           /\ \A d \in S : Append(w, d) \in Seq(S) /\ Range(Append(w, d)) = Range(w) \union {d}
           /\ w # <<>> => /\ Head(w) \in S /\ Tail(w) \in Seq(S)
                          /\ Range(w) = {Head(w)} \union Range(Tail(w))
<1>0. w \in [1..Len(w) -> S] /\ Len(w) \in Nat /\ DOMAIN w = 1..Len(w)
  BY LenProperties
<1>1. Page!ToSet(w) = Range(w) /\ Range(w) \subseteq S
  BY <1>0 DEF Page!ToSet, Range
<1>2. ASSUME NEW d \in S PROVE Append(w, d) \in Seq(S) /\ Range(Append(w, d)) = Range(w) \union {d}
  <2>1. /\ Append(w, d) \in Seq(S) /\ DOMAIN Append(w, d) = 1..(Len(w) + 1)
        /\ \A i \in 1..Len(w) : Append(w, d)[i] = w[i]
        /\ Append(w, d)[Len(w) + 1] = d
    BY AppendProperties, LenProperties
  <2>2. ASSUME NEW x \in Range(Append(w, d)) PROVE x \in Range(w) \union {d}
    BY <2>1, <1>0 DEF Range
  <2>3. ASSUME NEW x \in Range(w) PROVE x \in Range(Append(w, d))
    <3>1. PICK i \in 1..Len(w) : x = w[i]
      BY <1>0 DEF Range
    <3>2. i \in 1..(Len(w) + 1) /\ Append(w, d)[i] = x
      BY <3>1, <2>1, <1>0
    <3> QED
      BY <3>2, <2>1 DEF Range
  <2>4. d \in Range(Append(w, d))
    BY <2>1, <1>0 DEF Range
  <2> QED
    BY <2>1, <2>2, <2>3, <2>4
<1>3. ASSUME w # <<>>
      PROVE  /\ Head(w) \in S /\ Tail(w) \in Seq(S)
             /\ Range(w) = {Head(w)} \union Range(Tail(w))
  <2>1. /\ Len(w) \in Nat \ {0} /\ w[1] = Head(w) /\ w[1] \in S
        /\ Tail(w) \in Seq(S) /\ DOMAIN Tail(w) = 1..(Len(w) - 1)
        /\ \A i \in 1..(Len(w) - 1) : Tail(w)[i] = w[i + 1]
    BY <1>3, <1>0, HeadTailProperties, EmptySeq, LenProperties, ElementOfSeq
  <2>2. ASSUME NEW x \in Range(w) PROVE x \in {Head(w)} \union Range(Tail(w))
    <3>1. PICK i \in 1..Len(w) : x = w[i]
      BY <1>0 DEF Range
    <3>2. CASE i = 1
      BY <3>1, <3>2, <2>1
    <3>3. CASE i # 1
      <4>1. i - 1 \in 1..(Len(w) - 1) /\ Tail(w)[i - 1] = x
        BY <3>1, <3>3, <2>1
      <4> QED
        BY <4>1, <2>1 DEF Range
    <3> QED
      BY <3>2, <3>3
  <2>3. ASSUME NEW x \in Range(Tail(w)) PROVE x \in Range(w)
    <3>1. PICK i \in 1..(Len(w) - 1) : x = w[i + 1]
      BY <2>1 DEF Range
    <3>2. i + 1 \in 1..Len(w)
      BY <2>1
    <3> QED
      BY <3>1, <3>2, <1>0 DEF Range
  <2>4. Head(w) \in Range(w)
    BY <2>1, <1>0 DEF Range
  <2> QED
    BY <2>1, <2>2, <2>3, <2>4
<1> QED
  BY <1>1, <1>2, <1>3

\* What is on the way to the browser stays, and so does what is recorded.
LEMMA ComponentStep ==
    ASSUME PageInv, UNCHANGED <<members, version, delivered, unsent, wire>>,
           \A s \in Segments : s \in excuse' <=> s \in excuse,
           page' \in Component, request' \in Answers,
           request' = request \/ ~request'.answered,
           page'.refreshing <=> request'.segment # None,
           page'.added \union page'.removed # {} => page'.timers > 0,
           page'.listed \/ page'.refreshing => page'.shown # None,
           page'.shown # None => page'.subs[page'.shown] > 0,
           Len(page'.log) <= MaxLog,
           ListIsGood'
    PROVE  PageInv'
<1>1. \A s : Pending(s)' = Pending(s)
  BY DEF Pending
<1>2. PageTypes'
  BY DEF PageInv, PageTypes
<1>3. PageFacts'
  BY <1>1 DEF PageInv, PageFacts
<1>4. \A s \in Segments : Truthful(s)'
  BY <1>1 DEF PageInv, Truthful
<1>5. AnswerIsGood'
  <2> SUFFICES ASSUME request' = request, request.answered PROVE AnswerIsGood'
    BY DEF AnswerIsGood
  <2>1. request.segment \in Segments
    BY DEF PageInv, PageTypes, PageFacts, Answers
  <2> QED
    BY <1>1, <2>1 DEF PageInv, AnswerIsGood
<1> QED
  BY <1>2, <1>3, <1>4, <1>5 DEF PageInv

\* The list stays good when neither it nor its segment changes and no excuse goes away.
LEMMA ListStays ==
    ASSUME PageInv, UNCHANGED <<members, delivered, unsent, wire>>,
           page'.shown = page.shown, page'.listed = page.listed, page'.rows = page.rows,
           excuse \subseteq excuse'
    PROVE  ListIsGood'
<1>1. \A s : Pending(s)' = Pending(s)
  BY DEF Pending
<1> QED
  BY <1>1 DEF PageInv, ListIsGood

\* A change of route only asks for another segment; what the page shows stays.
LEMMA NavigateStep ==
    ASSUME PageInv, NEW s \in Segments, Page!Navigate(s)
    PROVE  PageInv'
<1>1. /\ UNCHANGED <<members, version, unsent, wire, request, delivered, excuse>>
      /\ page' = page \/ page' = [page EXCEPT !.getting = s]
  BY DEF Page!Navigate
<1>2. /\ page' \in Component
      /\ page'.shown = page.shown /\ page'.listed = page.listed /\ page'.rows = page.rows
      /\ page'.refreshing = page.refreshing /\ page'.added = page.added /\ page'.removed = page.removed
      /\ page'.timers = page.timers /\ page'.subs = page.subs /\ page'.log = page.log
  BY <1>1 DEF PageInv, PageTypes, Component
<1>3. ListIsGood'
  BY <1>1, <1>2, ListStays
<1> QED
  BY <1>1, <1>2, <1>3, ComponentStep DEF PageInv, PageTypes, PageFacts

\* A page opened anew has no list to be wrong.
LEMMA ReopenStep ==
    ASSUME PageInv, NEW s \in Segments, Page!Reopen(s)
    PROVE  PageInv'
<1>1. /\ UNCHANGED <<members, version, unsent, wire, delivered>> /\ page' = Page!Opened(s)
      /\ request' = Page!NoRequest /\ excuse' = excuse \intersect Segments
  BY DEF Page!Reopen
<1>2. Page!Opened(s) \in Component
  BY EmptySeq DEF Page!Opened, Component
<1>3. Page!NoRequest \in Answers
  BY DEF Page!NoRequest, Answers
<1>4. /\ Page!Opened(s).shown = None /\ ~Page!Opened(s).listed /\ ~Page!Opened(s).refreshing
      /\ Page!Opened(s).added = {} /\ Page!Opened(s).removed = {} /\ Page!Opened(s).log = <<>>
      /\ ~Page!NoRequest.answered /\ Page!NoRequest.segment = None
  BY DEF Page!Opened, Page!NoRequest
<1>5. Len(<<>>) <= MaxLog
  BY ClientAssumption, EmptySeq
<1>6. ListIsGood'
  BY <1>1, <1>4 DEF ListIsGood
<1> QED
  BY <1>1, <1>2, <1>3, <1>4, <1>5, <1>6, ComponentStep

\* The segment of the route arrives: one subscription more, and a list shown before is excused.
LEMMA SegmentArrivesStep ==
    ASSUME PageInv, Page!SegmentArrives
    PROVE  PageInv'
<1> DEFINE s == page.getting
<1>1. /\ s # None /\ UNCHANGED <<members, version, unsent, wire, request, delivered>>
      /\ page' = [page EXCEPT !.getting = None, !.shown = s, !.subs[s] = page.subs[s] + 1]
      /\ excuse' = IF page.shown \notin {None, s} /\ (page.listed \/ page.refreshing)
                   THEN excuse \union {"switched"} ELSE excuse
  BY DEF Page!SegmentArrives
<1>2. page \in Component /\ s \in Segments /\ page.subs \in [Segments -> Nat]
  BY <1>1 DEF PageInv, PageTypes, Component
<1>3. [page.subs EXCEPT ![s] = page.subs[s] + 1] \in [Segments -> Nat]
  BY <1>2
<1>4. /\ page' \in Component
      /\ page'.shown = s /\ page'.listed = page.listed /\ page'.rows = page.rows
      /\ page'.refreshing = page.refreshing /\ page'.added = page.added /\ page'.removed = page.removed
      /\ page'.timers = page.timers /\ page'.subs = [page.subs EXCEPT ![s] = page.subs[s] + 1]
      /\ page'.log = page.log
  <2> HIDE DEF s
  <2> QED
    BY <1>1, <1>2, <1>3 DEF Component
<1> HIDE DEF s
<1>5. page'.subs[s] > 0
  BY <1>2, <1>4
<1>6. ListIsGood'
  <2>1. CASE page.shown = s
    BY <2>1, <1>1, <1>4, ListStays
  <2>2. CASE page.shown # s /\ page.listed
    <3>1. "switched" \in excuse'
      BY <2>2, <1>1 DEF PageInv, PageFacts
    <3> QED
      BY <3>1 DEF ListIsGood, Tags
  <2>3. CASE ~page.listed
    BY <2>3, <1>4 DEF ListIsGood
  <2> QED
    BY <2>1, <2>2, <2>3
<1>7. \A t \in Segments : t \in excuse' <=> t \in excuse
  BY <1>1, ClientAssumption
<1> QED
  BY <1>1, <1>2, <1>4, <1>5, <1>6, <1>7, ComponentStep DEF PageInv, PageTypes, PageFacts

\* The steps that change neither the list nor what is on its way.
LEMMA SmallSteps ==
    ASSUME PageInv, Page!SegmentFails \/ Page!Refresh \/ Page!RefreshFails \/ Page!TimerFires \/ Page!Online
    PROVE  PageInv'
<1>0. /\ UNCHANGED <<members, version, unsent, wire, delivered, excuse>>
      /\ page \in Component /\ request \in Answers
  BY DEF PageInv, PageTypes, Page!SegmentFails, Page!Refresh, Page!RefreshFails, Page!TimerFires, Page!Online
<1>1. Page!NoRequest \in Answers /\ ~Page!NoRequest.answered /\ Page!NoRequest.segment = None
  BY DEF Page!NoRequest, Answers
<1>2. /\ page' \in Component /\ request' \in Answers
      /\ page'.shown = page.shown /\ page'.listed = page.listed /\ page'.rows = page.rows
      /\ page'.subs = page.subs /\ page'.log = page.log
      /\ request' = request \/ ~request'.answered
      /\ page'.refreshing <=> request'.segment # None
      /\ page'.refreshing => page.shown # None
      /\ page'.added \union page'.removed # {} => page'.timers > 0
  <2>0. /\ page.refreshing => page.shown # None
        /\ page.refreshing <=> request.segment # None
        /\ page.added \union page.removed # {} => page.timers > 0
    BY DEF PageInv, PageFacts
  <2>1. CASE Page!SegmentFails
    BY <2>0, <2>1, <1>0 DEF Page!SegmentFails, Component
  <2>2. CASE Page!Refresh
    <3>1. /\ page' = [page EXCEPT !.refreshing = TRUE] /\ page.shown # None
          /\ request' = [Page!NoRequest EXCEPT !.segment = page.shown]
      BY <2>2 DEF Page!Refresh
    <3>2. page.shown \in Segments
      BY <3>1, <1>0 DEF Component
    <3>3. request' \in Answers /\ ~request'.answered /\ request'.segment # None
      BY <3>1, <3>2, <1>1, ClientAssumption DEF Answers
    <3> QED
      BY <3>1, <3>3, <2>0, <1>0 DEF Component
  <2>3. CASE Page!RefreshFails
    <3>1. page' = [page EXCEPT !.refreshing = FALSE, !.error = TRUE] /\ request' = Page!NoRequest
      BY <2>3 DEF Page!RefreshFails, Page!FailedRefresh
    <3> QED
      BY <3>1, <2>0, <1>0, <1>1 DEF Component
  <2>4. CASE Page!TimerFires
    <3>1. /\ page' = [page EXCEPT !.timers = page.timers - 1, !.added = {}, !.removed = {}]
          /\ page.timers > 0 /\ request' = request
      BY <2>4 DEF Page!TimerFires
    <3>2. page.timers \in Nat
      BY <1>0 DEF Component
    <3> DEFINE n == page.timers - 1
    <3>3. n \in Nat /\ page' = [page EXCEPT !.timers = n, !.added = {}, !.removed = {}]
      BY <3>1, <3>2
    <3> HIDE DEF n
    <3>4. page' \in Component /\ page'.added = {} /\ page'.removed = {}
      BY <3>3, <1>0 DEF Component
    <3>5. /\ page'.shown = page.shown /\ page'.listed = page.listed /\ page'.rows = page.rows
          /\ page'.subs = page.subs /\ page'.log = page.log /\ page'.refreshing = page.refreshing
      BY <3>3, <1>0 DEF Component
    <3> QED
      BY <3>1, <3>4, <3>5, <2>0, <1>0
  <2>5. CASE Page!Online
    BY <2>0, <2>5, <1>0 DEF Page!Online
  <2> QED
    BY <2>1, <2>2, <2>3, <2>4, <2>5
<1>3. ListIsGood'
  BY <1>0, <1>2, ListStays
<1> QED
  BY <1>0, <1>2, <1>3, ComponentStep DEF PageInv, PageFacts

\* The answer becomes the list: a delta it does not contain is still on the wire, or is excused.
LEMMA RefreshDoneStep ==
    ASSUME PageInv, Page!RefreshDone
    PROVE  PageInv'
<1> DEFINE s == request.segment
           v == request.version
           older == \E d \in unsent \union Range(wire) : d.segment = s /\ d.version <= v
           stale == IF v < delivered[s] THEN {"overtaken"} ELSE {}
           missed == excuse \intersect (IF v < version[s] \/ older THEN Segments ELSE Segments \ {s})
           other == IF s # page.shown THEN {"switched"} ELSE {}
<1>1. /\ request.answered
      /\ page' = [page EXCEPT !.refreshing = FALSE, !.listed = TRUE, !.rows = request.ids]
      /\ request' = Page!NoRequest /\ excuse' = stale \union missed \union other
      /\ UNCHANGED <<members, version, unsent, wire, delivered>>
  BY WireFacts DEF Page!RefreshDone, Page!MemberList, PageInv, PageTypes
<1>2. page \in Component /\ request \in Answers
  BY DEF PageInv, PageTypes
<1>3. s \in Segments /\ v <= version[s] /\ v \in Nat /\ version[s] \in Nat /\ delivered[s] \in Nat
  BY <1>1, <1>2 DEF PageInv, PageTypes, PageFacts, Answers
<1>4. /\ page' \in Component
      /\ page'.shown = page.shown /\ page'.listed /\ page'.rows = request.ids
      /\ ~page'.refreshing /\ page'.added = page.added /\ page'.removed = page.removed
      /\ page'.timers = page.timers /\ page'.subs = page.subs /\ page'.log = page.log
  <2>1. request.ids \in SUBSET Customers
    BY <1>2 DEF Answers
  <2> QED
    BY <2>1, <1>1, <1>2 DEF Component
<1>5. /\ Page!NoRequest \in Answers /\ ~Page!NoRequest.answered /\ Page!NoRequest.segment = None
  BY DEF Page!NoRequest, Answers
<1>6. \A t : Pending(t)' = Pending(t)
  BY <1>1 DEF Pending
<1>7. ASSUME s \in excuse, s \notin excuse' PROVE v = version[s] /\ Pending(s) = {}
  <2>1. ~older /\ ~(v < version[s])
    BY <1>1, <1>3, <1>7
  <2>2. v = version[s]
    BY <2>1, <1>3
  <2>3. \A d \in Pending(s) : d.version <= v
    BY <2>2, <1>3 DEF PageInv, PageFacts
  <2> QED
    BY <2>1, <2>2, <2>3 DEF Pending
<1>8. \A t \in Segments \ {s} : t \in excuse' <=> t \in excuse
  BY <1>1, ClientAssumption
<1> HIDE DEF older, stale, missed, other
<1>9. ASSUME NEW t \in Segments PROVE Truthful(t)'
  <2>1. CASE t \notin excuse' /\ t \notin excuse
    BY <2>1, <1>1, <1>6 DEF PageInv, Truthful
  <2>2. CASE t \notin excuse' /\ t \in excuse
    <3>1. Pending(t) = {}
      BY <2>2, <1>7, <1>8
    <3> QED
      BY <3>1, <1>6 DEF Truthful
  <2>3. CASE t \in excuse'
    BY <2>3 DEF Truthful
  <2> QED
    BY <2>1, <2>2, <2>3
<1>10. ListIsGood'
  <2> SUFFICES ASSUME excuse' \intersect (Tags \union {page.shown}) = {}, NEW c \in Customers
               PROVE  \/ c \in page'.rows <=> c \in members[page.shown]
                      \/ \E d \in Pending(page.shown) : Mentions(d, c)
    BY <1>1, <1>4, <1>6 DEF ListIsGood
  <2>1. s = page.shown /\ v >= delivered[s]
    BY <1>1, <1>3 DEF Tags, stale, other
  <2>2. s \notin excuse'
    BY <2>1
  <2>3. CASE s \notin excuse
    BY <2>1, <2>3, <1>1, <1>4 DEF PageInv, AnswerIsGood
  <2>4. CASE s \in excuse
    <3>1. v = version[s]
      BY <2>2, <2>4, <1>7
    <3>2. request.ids = members[s]
      BY <3>1, <1>1 DEF PageInv, AnswerIsGood
    <3> QED
      BY <3>2, <2>1, <1>4
  <2> QED
    BY <2>3, <2>4
<1>11. PageTypes'
  BY <1>1, <1>4, <1>5 DEF PageInv, PageTypes
<1>12. PageFacts'
  <2>1. page.shown # None
    BY <1>1, <1>2, <1>3, ClientAssumption DEF PageInv, PageFacts
  <2> QED
    BY <2>1, <1>1, <1>4, <1>5, <1>6 DEF PageInv, PageFacts
<1>13. AnswerIsGood'
  BY <1>1, <1>5 DEF AnswerIsGood
<1> QED
  BY <1>9, <1>10, <1>11, <1>12, <1>13 DEF PageInv

\* Deltas get lost, and their segments are excused.
LEMMA LossStep ==
    ASSUME PageInv, UNCHANGED <<members, version, request, page, delivered>>,
           unsent' \subseteq Delta, wire' \in Seq(Delta), excuse \subseteq excuse',
           unsent' \union Range(wire') \subseteq unsent \union Range(wire),
           \A d \in unsent \union Range(wire) :
               d \in unsent' \union Range(wire') \/ d.segment \in excuse'
    PROVE  PageInv'
<1>1. \A s : Pending(s)' \subseteq Pending(s) /\ (s \notin excuse' => Pending(s)' = Pending(s))
  BY DEF Pending
<1>2. PageTypes'
  BY DEF PageInv, PageTypes
<1>3. PageFacts'
  BY <1>1 DEF PageInv, PageFacts
<1>4. \A s \in Segments : Truthful(s)'
  BY <1>1 DEF PageInv, Truthful
<1>5. AnswerIsGood'
  <2> SUFFICES ASSUME request.answered PROVE AnswerIsGood'
    BY DEF AnswerIsGood
  <2> QED
    BY <1>1 DEF PageInv, AnswerIsGood
<1>6. ListIsGood'
  BY <1>1 DEF PageInv, ListIsGood
<1> QED
  BY <1>2, <1>3, <1>4, <1>5, <1>6 DEF PageInv

\* A delta that is sent passes from unsent to the wire, and stays pending.
LEMMA BroadcastStep ==
    ASSUME PageInv, NEW d \in unsent, Page!Broadcast(d)
    PROVE  PageInv'
<1>1. /\ unsent' = unsent \ {d} /\ UNCHANGED <<members, version, request, page, delivered>>
      /\ wire' = IF online THEN Append(wire, d) ELSE wire
      /\ excuse' = IF online THEN excuse ELSE excuse \union {d.segment}
  BY DEF Page!Broadcast
<1>2. d \in Delta /\ wire \in Seq(Delta) /\ unsent \subseteq Delta
  BY DEF PageInv, PageTypes
<1>3. Append(wire, d) \in Seq(Delta) /\ Range(Append(wire, d)) = Range(wire) \union {d}
  BY <1>2, WireFacts
<1> QED
  BY <1>1, <1>2, <1>3, LossStep

\* A lost connection loses what is on the wire, and excuses its segments.
LEMMA OfflineStep ==
    ASSUME PageInv, Page!Offline
    PROVE  PageInv'
<1>1. /\ wire' = <<>> /\ UNCHANGED <<members, version, unsent, request, page, delivered>>
      /\ excuse' = excuse \union {d.segment : d \in Range(wire)}
  BY WireFacts DEF Page!Offline, PageInv, PageTypes
<1>2. unsent \subseteq Delta /\ <<>> \in Seq(Delta) /\ Range(<<>>) = {}
  BY EmptySeq DEF PageInv, PageTypes, Range
<1> QED
  BY <1>1, <1>2, LossStep

\* A delta is recorded: it is the latest of its segment, and tells whom it changes.
LEMMA RecordedStep ==
    ASSUME PageInv, NEW s \in Segments, NEW ids \in SUBSET Customers, Page!Recorded(s, ids),
           UNCHANGED <<wire, page, delivered, excuse>>,
           \/ request' = request
           \/ request.segment = s /\ request' = [segment |-> s, ids |-> ids, version |-> version'[s], answered |-> TRUE]
    PROVE  PageInv'
<1> DEFINE e == Page!Evaluated(s, ids)
<1>1. /\ members' = [members EXCEPT ![s] = ids] /\ version' = [version EXCEPT ![s] = version[s] + 1]
      /\ unsent' = unsent \union {e}
  BY DEF Page!Recorded
<1>2. /\ e.segment = s /\ e.version = version[s] + 1
      /\ e.added = ids \ members[s] /\ e.removed = members[s] \ ids
  BY DEF Page!Evaluated
<1>3. /\ members \in [Segments -> SUBSET Customers] /\ version \in [Segments -> Nat] /\ delivered \in [Segments -> Nat]
      /\ unsent \subseteq Delta /\ wire \in Seq(Delta)
      /\ request \in Answers /\ page \in Component
  BY DEF PageInv, PageTypes
<1>4. e \in Delta
  BY <1>3 DEF Page!Evaluated, Delta
<1> HIDE DEF e
<1>5. Pending(s)' = Pending(s) \union {e} /\ \A t : t # s => Pending(t)' = Pending(t)
  BY <1>1, <1>2 DEF Pending
<1>6. /\ members'[s] = ids /\ version'[s] = version[s] + 1
      /\ \A t \in Segments : t # s => members'[t] = members[t] /\ version'[t] = version[t]
  BY <1>1, <1>3
<1>7. \A d \in Pending(s) : d.version <= version[s] /\ d.version \in Nat
  <2>1. Range(wire) \subseteq Delta
    BY <1>3, WireFacts
  <2>2. \A d \in Pending(s) : d \in Delta
    BY <2>1, <1>3 DEF Pending
  <2> QED
    BY <2>2 DEF PageInv, PageFacts, Delta
<1>8. \A c \in Customers : ~Mentions(e, c) => (c \in members[s] <=> c \in ids)
  BY <1>2 DEF Mentions
<1>9. request' \in Answers
  <2>1. version'[s] \in Nat
    BY <1>3, <1>6
  <2>2. [segment |-> s, ids |-> ids, version |-> version'[s], answered |-> TRUE] \in Answers
    BY <2>1 DEF Answers
  <2> QED
    BY <2>2, <1>3
<1>10. PageTypes'
  BY <1>1, <1>3, <1>4, <1>9 DEF PageTypes
<1>11. PageFacts'
  <2>1. \A t \in Segments : delivered[t] <= version'[t]
    BY <1>3, <1>6 DEF PageInv, PageFacts
  <2>2. \A t \in Segments : \A d \in Pending(t)' : d.version <= version'[t] /\ d.added \intersect d.removed = {}
    <3>1. \A t \in Segments : \A d \in Pending(t) : d.version <= version[t] /\ d.added \intersect d.removed = {}
      BY DEF PageInv, PageFacts
    <3>2. \A d \in Pending(s) : d.version <= version'[s]
      BY <1>3, <1>6, <1>7
    <3>3. e.version <= version'[s] /\ e.added \intersect e.removed = {}
      BY <1>2, <1>3, <1>6
    <3> QED
      BY <3>1, <3>2, <3>3, <1>5, <1>6
  <2>3. request'.answered => request'.segment # None /\ request'.version <= version'[request'.segment]
    <3>1. CASE request' = request /\ request.answered
      <4>1. request.segment \in Segments /\ request.version <= version[request.segment] /\ request.version \in Nat
        BY <3>1, <1>3 DEF PageInv, PageFacts, Answers
      <4>2. version[request.segment] <= version'[request.segment] /\ version'[request.segment] \in Nat
        BY <4>1, <1>3, <1>6
      <4> QED
        BY <4>1, <4>2, <3>1, <1>3, ClientAssumption
    <3>2. CASE request' # request
      BY <3>2, <1>3, <1>6, ClientAssumption
    <3> QED
      BY <3>1, <3>2
  <2>4. request'.segment = request.segment
    OBVIOUS
  <2> QED
    BY <2>1, <2>2, <2>3, <2>4 DEF PageInv, PageFacts
<1>12. ASSUME NEW t \in Segments PROVE Truthful(t)'
  <2>1. CASE t # s
    BY <2>1, <1>5, <1>6 DEF PageInv, Truthful
  <2>2. CASE t = s
    <3> SUFFICES ASSUME s \notin excuse, NEW d \in Pending(s) \union {e}, NEW c \in Customers,
                        d.version >= delivered[s], Mentions(d, c),
                        \A f \in Pending(s) \union {e} : f.version > d.version => ~Mentions(f, c)
                 PROVE  c \in d.added <=> c \in ids
      BY <2>2, <1>5, <1>6 DEF Truthful
    <3>1. CASE d = e
      BY <3>1, <1>2 DEF Mentions
    <3>2. CASE d \in Pending(s)
      <4>1. e.version > d.version
        BY <3>2, <1>2, <1>3, <1>7
      <4>2. c \in members[s] <=> c \in ids
        BY <4>1, <1>8
      <4>3. c \in d.added <=> c \in members[s]
        BY <3>2 DEF PageInv, Truthful
      <4> QED
        BY <4>2, <4>3
    <3> QED
      BY <3>1, <3>2
  <2> QED
    BY <2>1, <2>2
<1>13. AnswerIsGood'
  <2>1. CASE request' = request /\ request.answered
    <3> DEFINE t == request.segment
               v == request.version
    <3>1. t \in Segments /\ v \in Nat /\ v <= version[t]
      BY <2>1, <1>3 DEF PageInv, PageFacts, Answers
    <3>2. CASE t # s
      BY <3>1, <3>2, <2>1, <1>5, <1>6 DEF PageInv, AnswerIsGood
    <3>3. CASE t = s
      <4>1. v # version'[s] /\ e.version > v
        BY <3>1, <3>3, <1>2, <1>3, <1>6
      <4>2. ASSUME s \notin excuse, v >= delivered[s], NEW c \in Customers
            PROVE  \/ c \in request.ids <=> c \in ids
                   \/ \E d \in Pending(s)' : d.version > v /\ Mentions(d, c)
        <5>1. \/ c \in request.ids <=> c \in members[s]
              \/ \E d \in Pending(s) : d.version > v /\ Mentions(d, c)
          BY <4>2, <3>3, <2>1 DEF PageInv, AnswerIsGood
        <5> QED
          BY <5>1, <4>1, <1>5, <1>8
      <4> QED
        BY <4>1, <4>2, <3>3, <2>1, <1>6 DEF AnswerIsGood
    <3> QED
      BY <3>2, <3>3
  <2>2. CASE request' # request
    BY <2>2, <1>6 DEF AnswerIsGood
  <2>3. CASE ~request'.answered
    BY <2>3 DEF AnswerIsGood
  <2> QED
    BY <2>1, <2>2, <2>3
<1>14. ListIsGood'
  <2>1. CASE page.shown # s /\ page.listed
    <3>1. page.shown \in Segments
      BY <2>1, <1>3 DEF PageInv, PageFacts, Component
    <3> QED
      BY <3>1, <2>1, <1>5, <1>6 DEF PageInv, ListIsGood
  <2>2. CASE page.shown = s
    <3> SUFFICES ASSUME page.listed, excuse \intersect (Tags \union {s}) = {},
                        \A d \in Pending(s) \union {e} : d.version >= delivered[s], NEW c \in Customers
                 PROVE  \/ c \in page.rows <=> c \in ids
                        \/ \E d \in Pending(s) \union {e} : Mentions(d, c)
      BY <2>2, <1>5, <1>6 DEF ListIsGood
    <3>1. \/ c \in page.rows <=> c \in members[s]
          \/ \E d \in Pending(s) : Mentions(d, c)
      BY <2>2 DEF PageInv, ListIsGood
    <3> QED
      BY <3>1, <1>8
  <2>3. CASE ~page.listed
    BY <2>3 DEF ListIsGood
  <2> QED
    BY <2>1, <2>2, <2>3
<1> QED
  BY <1>10, <1>11, <1>12, <1>13, <1>14 DEF PageInv

\* An evaluation changes the members and leaves the delta that says so.
LEMMA EvaluateStep ==
    ASSUME PageInv, NEW s \in Segments, NEW ids \in SUBSET Customers, Page!Evaluate(s, ids)
    PROVE  PageInv'
BY RecordedStep DEF Page!Evaluate

\* The answer of the api has the members of this moment, so every delta on the way is contained in it.
LEMMA AnswerStep ==
    ASSUME PageInv, NEW ids \in SUBSET Customers, Page!Answer(ids)
    PROVE  PageInv'
<1> DEFINE s == request.segment
<1>1. /\ s # None /\ ~request.answered /\ UNCHANGED <<wire, page, delivered, excuse>>
      /\ request' = [segment |-> s, ids |-> ids, version |-> version'[s], answered |-> TRUE]
      /\ \/ ids = members[s] /\ UNCHANGED <<members, version, unsent>>
         \/ Page!Recorded(s, ids)
  BY DEF Page!Answer
<1>2. request \in Answers /\ s \in Segments
  BY <1>1 DEF PageInv, PageTypes, Answers
<1>3. CASE Page!Recorded(s, ids)
  BY <1>1, <1>2, <1>3, RecordedStep
<1>4. CASE ids = members[s] /\ UNCHANGED <<members, version, unsent>>
  <2>1. \A t : Pending(t)' = Pending(t)
    BY <1>1, <1>4 DEF Pending
  <2>2. version[s] \in Nat
    BY <1>2 DEF PageInv, PageTypes
  <2>3. request' \in Answers
    BY <1>1, <1>2, <1>4, <2>2 DEF Answers
  <2>4. /\ request'.segment = s /\ request'.ids = ids /\ request'.version = version[s]
    BY <1>1, <1>4
  <2>5. PageTypes'
    BY <1>1, <1>4, <2>3 DEF PageInv, PageTypes
  <2>6. PageFacts'
    BY <1>1, <1>2, <1>4, <2>1, <2>2, <2>4, ClientAssumption DEF PageInv, PageFacts
  <2>7. \A t \in Segments : Truthful(t)'
    BY <1>1, <1>4, <2>1 DEF PageInv, Truthful
  <2>8. AnswerIsGood'
    BY <1>4, <2>4 DEF AnswerIsGood
  <2>9. ListIsGood'
    BY <1>1, <1>4, <2>1 DEF PageInv, ListIsGood
  <2> QED
    BY <2>5, <2>6, <2>7, <2>8, <2>9 DEF PageInv
<1> QED
  BY <1>1, <1>3, <1>4

\* The log keeps its first MaxLog entries.
LEMMA LogFacts ==
    ASSUME NEW S, NEW d \in S, NEW n \in Nat, NEW log \in Seq(S), NEW max \in Nat
    PROVE  LET entries == [i \in 1..n |-> d]
               kept == SubSeq(entries \o log, 1, Page!Min({max, n + Len(log)})) IN
           kept \in Seq(S) /\ Len(kept) <= max
<1> DEFINE entries == [i \in 1..n |-> d]
           m == Page!Min({max, n + Len(log)})
<1>1. entries \in Seq(S) /\ Len(entries) = n
  <2>1. entries \in [1..n -> S]
    OBVIOUS
  <2> HIDE DEF entries
  <2> QED
    BY <2>1, SeqOf
<1> HIDE DEF entries
<1>2. Len(log) \in Nat
  BY LenProperties
<1>3. entries \o log \in Seq(S) /\ Len(entries \o log) = n + Len(log)
  BY <1>1, ConcatProperties
<1>4. m \in Nat /\ m <= max /\ m <= n + Len(log)
  BY <1>2, MinOfTwo
<1> HIDE DEF m
<1>5. /\ SubSeq(entries \o log, 1, m) \in Seq(S)
      /\ Len(SubSeq(entries \o log, 1, m)) = IF 1 <= m THEN m - 1 + 1 ELSE 0
  BY <1>3, <1>4, SubSeqProperties
<1>6. Len(SubSeq(entries \o log, 1, m)) <= max
  BY <1>4, <1>5
<1> QED
  BY <1>5, <1>6, Zenon DEF entries, m

\* The delta at the head of the wire is handled.
LEMMA HandleDeltaStep ==
    ASSUME PageInv, Page!HandleDelta
    PROVE  PageInv'
<1>0. PICK d, t : d = Head(wire) /\ t = d.segment
  OBVIOUS
<1> DEFINE n == page.subs[t]
           late == IF d.version < delivered[t] THEN {"swapped"} ELSE {}
           foreign == IF t # page.shown THEN {"switched"} ELSE {}
           entries == [i \in 1..n |-> d]
           kept == SubSeq(entries \o page.log, 1, Page!Min({MaxLog, n + Len(page.log)}))
           rows == (page.rows \union d.added) \ d.removed
<1>1. /\ wire # <<>> /\ wire' = Tail(wire)
      /\ delivered' = [delivered EXCEPT ![t] = Page!Max({delivered[t], d.version})]
      /\ UNCHANGED <<members, version, unsent, request>>
  BY <1>0 DEF Page!HandleDelta
<1>2. page' = IF n = 0 THEN page
              ELSE IF ~page.listed THEN [page EXCEPT !.log = kept]
              ELSE [page EXCEPT !.log = kept, !.rows = rows, !.added = d.added,
                                !.removed = d.removed, !.timers = page.timers + n]
  BY <1>0 DEF Page!HandleDelta, Page!Applied, Page!Timers
<1>3. excuse' = IF n = 0 \/ ~page.listed THEN excuse \union (late \ foreign)
                ELSE excuse \union late \union foreign
  BY <1>0 DEF Page!HandleDelta
<1>4. /\ members \in [Segments -> SUBSET Customers] /\ version \in [Segments -> Nat] /\ delivered \in [Segments -> Nat]
      /\ unsent \subseteq Delta /\ wire \in Seq(Delta)
      /\ request \in Answers /\ page \in Component
  BY DEF PageInv, PageTypes
<1>5. /\ d \in Delta /\ Tail(wire) \in Seq(Delta) /\ Range(wire) = {d} \union Range(Tail(wire))
      /\ Range(wire) \subseteq Delta
  BY <1>0, <1>1, <1>4, WireFacts
<1>6. /\ t \in Segments /\ d.version \in Nat /\ d.added \in SUBSET Customers /\ d.removed \in SUBSET Customers
  BY <1>0, <1>5 DEF Delta
<1>7. /\ n \in Nat /\ page.log \in Seq(Delta) /\ page.timers \in Nat /\ page.rows \in SUBSET Customers
      /\ page.subs \in [Segments -> Nat] /\ page.listed \in BOOLEAN
  BY <1>4, <1>6 DEF Component
<1>8. kept \in Seq(Delta) /\ Len(kept) <= MaxLog
  BY <1>5, <1>7, LogFacts, ClientAssumption
<1>9. rows \in SUBSET Customers /\ page.timers + n \in Nat
  <2>1. rows \in SUBSET Customers
    BY <1>6, <1>7
  <2> HIDE DEF n
  <2> QED
    BY <2>1, <1>7
<1> HIDE DEF n, kept, rows
<1>10. /\ page' \in Component /\ Len(page'.log) <= MaxLog
       /\ page'.shown = page.shown /\ page'.listed = page.listed /\ page'.refreshing = page.refreshing
       /\ page'.subs = page.subs
       /\ page'.rows = IF n = 0 \/ ~page.listed THEN page.rows ELSE rows
       /\ page'.added \union page'.removed # {} => page'.timers > 0
  <2>0. Len(page.log) <= MaxLog /\ (page.added \union page.removed # {} => page.timers > 0)
    BY DEF PageInv, PageFacts
  <2>1. CASE n = 0
    BY <2>0, <2>1, <1>2, <1>4
  <2>2. CASE n # 0 /\ ~page.listed
    <3>1. page' = [page EXCEPT !.log = kept]
      BY <2>2, <1>2
    <3> QED
      BY <3>1, <2>0, <2>2, <1>4, <1>8 DEF Component
  <2>3. CASE n # 0 /\ page.listed
    <3> DEFINE m == page.timers + n
    <3>1. m \in Nat /\ m > 0
      BY <2>3, <1>7
    <3>2. page' = [page EXCEPT !.log = kept, !.rows = rows, !.added = d.added,
                               !.removed = d.removed, !.timers = m]
      BY <2>3, <1>2
    <3> HIDE DEF m
    <3> QED
      BY <3>1, <3>2, <2>3, <1>4, <1>6, <1>8, <1>9 DEF Component
  <2> QED
    BY <2>1, <2>2, <2>3, <1>7
<1>11. /\ \A x \in Segments : x # t => delivered'[x] = delivered[x]
       /\ delivered'[t] = IF d.version < delivered[t] THEN delivered[t] ELSE d.version
       /\ delivered'[t] \in Nat /\ delivered' \in [Segments -> Nat]
  <2> DEFINE m == Page!Max({delivered[t], d.version})
  <2>1. delivered[t] \in Nat
    BY <1>4, <1>6
  <2>2. m = IF d.version < delivered[t] THEN delivered[t] ELSE d.version
    BY <2>1, <1>6, MaxOfTwo
  <2>3. m \in Nat
    BY <2>1, <2>2, <1>6
  <2> HIDE DEF m
  <2>4. delivered' = [delivered EXCEPT ![t] = m]
    BY <1>1 DEF m
  <2> QED
    BY <2>2, <2>3, <2>4, <1>4, <1>6
<1>12. /\ d \in Pending(t)
       /\ \A x : Pending(x)' \subseteq Pending(x)
       /\ \A x : x # t => Pending(x)' = Pending(x)
       /\ \A x \in Pending(t) : x = d \/ x \in Pending(t)'
  BY <1>0, <1>1, <1>5 DEF Pending
<1>13. \A x \in Pending(t) : x.version \in Nat /\ x.version <= version[t] /\ x.added \intersect x.removed = {}
  <2>1. \A x \in Pending(t) : x \in Delta
    BY <1>4, <1>5 DEF Pending
  <2> QED
    BY <2>1, <1>6 DEF Delta, PageInv, PageFacts
<1>14. /\ \A x \in Segments : x \in excuse' <=> x \in excuse
       /\ excuse \subseteq excuse'
  BY <1>3, ClientAssumption
<1>15. PageTypes'
  BY <1>1, <1>4, <1>5, <1>10, <1>11 DEF PageTypes
<1>16. PageFacts'
  <2>1. \A x \in Segments : delivered'[x] <= version'[x]
    BY <1>1, <1>11, <1>12, <1>13, <1>6 DEF PageInv, PageFacts
  <2>2. \A x \in Segments : \A e \in Pending(x)' : e.version <= version'[x] /\ e.added \intersect e.removed = {}
    BY <1>1, <1>12 DEF PageInv, PageFacts
  <2> QED
    BY <2>1, <2>2, <1>1, <1>10 DEF PageInv, PageFacts
<1>17. ASSUME NEW x \in Segments PROVE Truthful(x)'
  <2>1. CASE x # t
    BY <2>1, <1>1, <1>11, <1>12, <1>14 DEF PageInv, Truthful
  <2>2. CASE x = t
    <3> SUFFICES ASSUME t \notin excuse, NEW e \in Pending(t)', NEW c \in Customers,
                        e.version >= delivered'[t], Mentions(e, c),
                        \A f \in Pending(t)' : f.version > e.version => ~Mentions(f, c)
                 PROVE  c \in e.added <=> c \in members[t]
      BY <2>2, <1>1, <1>14 DEF Truthful
    <3>1. e \in Pending(t) /\ e.version \in Nat /\ delivered[t] \in Nat
      BY <1>4, <1>6, <1>12, <1>13
    <3>2. e.version >= delivered[t] /\ ~(d.version > e.version)
      BY <3>1, <1>6, <1>11
    <3>3. \A f \in Pending(t) : f.version > e.version => ~Mentions(f, c)
      BY <3>2, <1>12
    <3> QED
      BY <3>1, <3>2, <3>3, <1>6 DEF PageInv, Truthful
  <2> QED
    BY <2>1, <2>2
<1>18. AnswerIsGood'
  <2> SUFFICES ASSUME request.answered PROVE AnswerIsGood'
    BY <1>1 DEF AnswerIsGood
  <2>0. PICK s, v : s = request.segment /\ v = request.version
    OBVIOUS
  <2>1. s \in Segments /\ v \in Nat
    BY <2>0, <1>4 DEF PageInv, PageFacts, Answers
  <2>2. CASE s # t
    BY <2>0, <2>1, <2>2, <1>1, <1>11, <1>12, <1>14 DEF PageInv, AnswerIsGood
  <2>3. CASE s = t
    <3>1. v = version[s] => request.ids = members[s]
      BY <2>0 DEF PageInv, AnswerIsGood
    <3>2. ASSUME s \notin excuse, v >= delivered'[s], NEW c \in Customers
          PROVE  \/ c \in request.ids <=> c \in members[s]
                 \/ \E e \in Pending(s)' : e.version > v /\ Mentions(e, c)
      <4>1. v >= delivered[s] /\ ~(d.version > v)
        BY <3>2, <2>1, <2>3, <1>4, <1>6, <1>11
      <4>2. \/ c \in request.ids <=> c \in members[s]
            \/ \E e \in Pending(s) : e.version > v /\ Mentions(e, c)
        BY <2>0, <3>2, <4>1 DEF PageInv, AnswerIsGood
      <4> QED
        BY <4>1, <4>2, <2>3, <1>12
    <3> QED
      BY <3>1, <3>2, <1>1, <1>14, <2>0, <2>1 DEF AnswerIsGood
  <2> QED
    BY <2>2, <2>3
<1>19. ListIsGood'
  <2>0. PICK s : s = page.shown
    OBVIOUS
  <2>1. SUFFICES ASSUME page.listed, excuse' \intersect (Tags \union {s}) = {},
                        \A e \in Pending(s)' : e.version >= delivered'[s], NEW c \in Customers
                 PROVE  \/ c \in page'.rows <=> c \in members[s]
                        \/ \E e \in Pending(s)' : Mentions(e, c)
    BY <1>1, <1>10, <2>0 DEF ListIsGood
  <2>2. s \in Segments /\ page.subs[s] > 0 /\ excuse \intersect (Tags \union {s}) = {}
    BY <2>0, <2>1, <1>4, <1>14 DEF PageInv, PageFacts, Component
  <2>3. CASE t # s
    <3>1. n = 0
      BY <2>0, <2>1, <2>3, <1>3 DEF Tags
    <3>2. page'.rows = page.rows
      BY <3>1, <1>10
    <3> QED
      BY <3>2, <2>0, <2>1, <2>2, <2>3, <1>11, <1>12 DEF PageInv, ListIsGood
  <2>4. CASE t = s
    <3>1. n # 0 /\ page'.rows = rows
      BY <2>1, <2>2, <2>4, <1>7, <1>10 DEF n
    <3>2. d.version >= delivered[s] /\ delivered'[s] = d.version
      <4>1. ~(d.version < delivered[t])
        BY <2>1, <2>4, <1>3 DEF Tags
      <4> QED
        BY <4>1, <2>4, <1>4, <1>6, <1>11
    <3>3. CASE \E e \in Pending(s)' : Mentions(e, c)
      BY <3>3
    <3>4. CASE \A e \in Pending(s)' : ~Mentions(e, c)
      <4>1. CASE Mentions(d, c)
        <5>1. \A e \in Pending(t) : e.version > d.version => ~Mentions(e, c)
          BY <3>4, <2>4, <1>6, <1>12
        <5>2. c \in d.added <=> c \in members[t]
          BY <4>1, <5>1, <3>2, <2>2, <2>4, <1>6, <1>12 DEF PageInv, Truthful
        <5>3. c \in rows <=> c \in d.added
          BY <4>1, <1>12, <1>13 DEF Mentions, rows
        <5> QED
          BY <5>2, <5>3, <3>1, <2>4
      <4>2. CASE ~Mentions(d, c)
        <5>1. \A e \in Pending(s) : ~Mentions(e, c)
          BY <4>2, <3>4, <2>4, <1>12
        <5>2. \A e \in Pending(s) : e.version >= delivered[s]
          <6>1. \A e \in Pending(s)' : e.version >= delivered[s]
            BY <2>1, <3>2, <1>4, <1>6, <1>12, <1>13, <2>4
          <6> QED
            BY <6>1, <3>2, <1>12, <2>4
        <5>3. c \in page.rows <=> c \in members[s]
          BY <5>1, <5>2, <2>0, <2>1, <2>2 DEF PageInv, ListIsGood
        <5>4. c \in rows <=> c \in page.rows
          BY <4>2 DEF Mentions, rows
        <5> QED
          BY <5>3, <5>4, <3>1
      <4> QED
        BY <4>1, <4>2
    <3> QED
      BY <3>3, <3>4
  <2> QED
    BY <2>3, <2>4
<1> QED
  BY <1>15, <1>16, <1>17, <1>18, <1>19 DEF PageInv

\* A browser starts with nothing on its way.
LEMMA PageStarts ==
    ASSUME Page!Init
    PROVE  PageInv
<1>1. /\ members = [s \in Segments |-> {}] /\ version = [s \in Segments |-> 0]
      /\ delivered = [s \in Segments |-> 0] /\ unsent = {} /\ wire = <<>> /\ excuse = {}
      /\ request = Page!NoRequest
  BY DEF Page!Init
<1>2. PICK s \in Segments : page = Page!Opened(s)
  BY DEF Page!Init
<1>3. page \in Component /\ request \in Answers
  BY <1>1, <1>2, EmptySeq DEF Page!Opened, Component, Page!NoRequest, Answers
<1>4. /\ page.shown = None /\ ~page.listed /\ ~page.refreshing
      /\ page.added = {} /\ page.removed = {} /\ page.log = <<>>
      /\ ~request.answered /\ request.segment = None
  BY <1>1, <1>2 DEF Page!Opened, Page!NoRequest
<1>5. Range(<<>>) = {} /\ Len(<<>>) <= MaxLog
  BY ClientAssumption, EmptySeq DEF Range
<1>6. \A t : Pending(t) = {}
  BY <1>1, <1>5 DEF Pending
<1>7. PageTypes
  BY <1>1, <1>3, EmptySeq DEF PageTypes
<1>8. PageFacts
  BY <1>1, <1>4, <1>5, <1>6 DEF PageFacts
<1> QED
  BY <1>4, <1>6, <1>7, <1>8 DEF PageInv, Truthful, AnswerIsGood, ListIsGood

\* Every step of the page keeps the invariant,
LEMMA PageGoesOn ==
    ASSUME PageInv, Page!Next
    PROVE  PageInv'
<1>1. ASSUME NEW s \in Segments, NEW ids \in SUBSET Customers, Page!Evaluate(s, ids) PROVE PageInv'
  BY <1>1, EvaluateStep
<1>2. ASSUME NEW d \in unsent, Page!Broadcast(d) PROVE PageInv'
  BY <1>2, BroadcastStep
<1>3. ASSUME NEW ids \in SUBSET Customers, Page!Answer(ids) PROVE PageInv'
  BY <1>3, AnswerStep
<1>4. ASSUME NEW s \in Segments, Page!Navigate(s) \/ Page!Reopen(s) PROVE PageInv'
  BY <1>4, NavigateStep, ReopenStep
<1>5. CASE Page!SegmentArrives
  BY <1>5, SegmentArrivesStep
<1>6. CASE Page!SegmentFails \/ Page!Refresh \/ Page!RefreshFails \/ Page!TimerFires \/ Page!Online
  BY <1>6, SmallSteps
<1>7. CASE Page!RefreshDone
  BY <1>7, RefreshDoneStep
<1>8. CASE Page!HandleDelta
  BY <1>8, HandleDeltaStep
<1>9. CASE Page!Offline
  BY <1>9, OfflineStep
<1> QED
  BY <1>1, <1>2, <1>3, <1>4, <1>5, <1>6, <1>7, <1>8, <1>9 DEF Page!Next

\* and steps of other parts do.
LEMMA PageRests ==
    ASSUME PageInv, UNCHANGED pageVars
    PROVE  PageInv'
<1>1. UNCHANGED <<members, version, unsent, wire, request, page, delivered, excuse>>
  BY DEF pageVars
<1>2. \A s : Pending(s)' = Pending(s)
  BY <1>1 DEF Pending
<1> QED
  BY <1>1, <1>2 DEF PageInv, PageTypes, PageFacts, Truthful, AnswerIsGood, ListIsGood

\* With nothing on the way of a page at rest, no delta is left to mention anybody.
LEMMA SettledIsRight ==
    ASSUME PageInv
    PROVE  Page!SettledListIsRight
<1> SUFFICES ASSUME page.listed, wire = <<>>, unsent = {}, Page!Excuses = {}
             PROVE  page.rows = members[page.shown]
  BY DEF Page!SettledListIsRight, Page!Settled, Page!Right
<1> DEFINE s == page.shown
<1>1. /\ s \in Segments /\ page.rows \subseteq Customers /\ members[s] \subseteq Customers
  BY DEF PageInv, PageTypes, PageFacts, Component
<1>2. excuse \intersect (Tags \union {s}) = {}
  BY <1>1, ClientAssumption DEF Page!Excuses, Tags
<1>3. \A t : Pending(t) = {}
  BY EmptySeq DEF Pending, Range
<1>4. \A c \in Customers : c \in page.rows <=> c \in members[s]
  BY <1>2, <1>3 DEF PageInv, ListIsGood
<1> QED
  BY <1>1, <1>4

\* The invariant contains the types.
LEMMA PageTypesFollow ==
    ASSUME PageInv
    PROVE  Page!TypeOK
BY DEF PageInv, PageTypes, PageFacts, Component, Page!TypeOK

-----------------------------------------------------------------------------
(* The directory of segments, the ticker and the cards *)

\* Answers have the segments there were at the start; items of the ticker are named if
\* they can be; a flash has a timer that ends it.
Reply(segments) == {None} \union {r \in SUBSET segments : Seeded \subseteq r}
Item(segments, names) ==
    {x \in [delta : {d \in Directory!Deltas : d.segment \in segments}, named : BOOLEAN] :
        x.delta.segment \in names => x.named}
Card ==
    {x \in [flash : {None, "add", "remove"}, lastDelta : Directory!Deltas \union {None}, timers : Nat] :
        x.flash # None => x.timers > 0}
Detail(segments) == [shown : segments \union {None}, getting : segments \union {None}]

DirectoryTypes ==
    /\ directory \subseteq known /\ known \subseteq Segments /\ Seeded \subseteq known
    /\ requests \in Seq(Reply(known)) /\ (fetched => Seeded \subseteq directory)
    /\ ticker \in Seq(Item(known, directory)) /\ Len(ticker) <= MaxItems
    /\ detail \in Detail(known)
    /\ latest \in [Segments -> Directory!Deltas \union {None}]

\* The cards are those of segments that are known, and a segment with no card has no delta.
CardsAreRight ==
    \E S \in SUBSET known :
        /\ list \in [open : BOOLEAN, items : [S -> Card]]
        /\ ~list.open => S = {}
        /\ \A s \in S : list.items[s].lastDelta = latest[s]
        /\ \A s \in Segments \ S : latest[s] = None

DirectoryInv == DirectoryTypes /\ CardsAreRight

\* A sequence over a set is one over any larger set.
LEMMA SeqGrows ==
    ASSUME NEW S, NEW T, S \subseteq T, NEW w \in Seq(S)
    PROVE  w \in Seq(T)
<1>1. Len(w) \in Nat /\ w \in [1..Len(w) -> S]
  BY LenProperties
<1> DEFINE n == Len(w)
<1> HIDE DEF n
<1>2. w \in [1..n -> T]
  BY <1>1 DEF n
<1> QED
  BY <1>1, <1>2, SeqOf DEF n

\* An answer taken out leaves a sequence of the others.
LEMMA RemoveAtFacts ==
    ASSUME NEW S, NEW w \in Seq(S), NEW i \in DOMAIN w
    PROVE  Directory!RemoveAt(w, i) \in Seq(S) /\ Len(Directory!RemoveAt(w, i)) <= Len(w)
<1>1. Len(w) \in Nat /\ DOMAIN w = 1..Len(w) /\ \A j \in 1..Len(w) : w[j] \in S
  BY LenProperties
<1>2. i \in 1..Len(w)
  BY <1>1
<1>3. /\ SubSeq(w, 1, i - 1) \in Seq(S)
      /\ Len(SubSeq(w, 1, i - 1)) = IF 1 <= i - 1 THEN i - 1 - 1 + 1 ELSE 0
  <2>1. 1 \in Int /\ i - 1 \in Int /\ \A j \in 1..(i - 1) : w[j] \in S
    BY <1>1, <1>2
  <2> QED
    BY <2>1, SubSeqProperties
<1>4. /\ SubSeq(w, i + 1, Len(w)) \in Seq(S)
      /\ Len(SubSeq(w, i + 1, Len(w))) = IF i + 1 <= Len(w) THEN Len(w) - (i + 1) + 1 ELSE 0
  <2>1. i + 1 \in Int /\ Len(w) \in Int /\ \A j \in (i + 1)..Len(w) : w[j] \in S
    BY <1>1, <1>2
  <2> QED
    BY <2>1, SubSeqProperties
<1>5. /\ SubSeq(w, 1, i - 1) \o SubSeq(w, i + 1, Len(w)) \in Seq(S)
      /\ Len(SubSeq(w, 1, i - 1) \o SubSeq(w, i + 1, Len(w)))
         = Len(SubSeq(w, 1, i - 1)) + Len(SubSeq(w, i + 1, Len(w)))
  BY <1>3, <1>4, ConcatProperties
<1> QED
  BY <1>1, <1>2, <1>3, <1>4, <1>5 DEF Directory!RemoveAt

\* The newest first, and no more than there is room for.
LEMMA NewestFirst ==
    ASSUME NEW S, NEW w \in Seq(S), NEW x \in S, NEW max \in Nat
    PROVE  LET all == <<x>> \o w
               kept == SubSeq(all, 1, Page!Min({max, Len(all)})) IN
           kept \in Seq(S) /\ Len(kept) <= max
<1> DEFINE all == <<x>> \o w
           m == Page!Min({max, Len(all)})
<1>1. <<x>> \in Seq(S) /\ Len(<<x>>) = 1
  OBVIOUS
<1>2. all \in Seq(S)
  BY <1>1, ConcatProperties
<1> HIDE DEF all
<1>3. Len(all) \in Nat /\ \A j \in 1..Len(all) : all[j] \in S
  BY <1>2, LenProperties
<1>4. m \in Nat /\ m <= max /\ m <= Len(all)
  BY <1>3, MinOfTwo
<1> HIDE DEF m
<1>5. /\ SubSeq(all, 1, m) \in Seq(S)
      /\ Len(SubSeq(all, 1, m)) = IF 1 <= m THEN m - 1 + 1 ELSE 0
  BY <1>3, <1>4, SubSeqProperties
<1>6. Len(SubSeq(all, 1, m)) <= max
  BY <1>4, <1>5
<1> QED
  BY <1>5, <1>6, Zenon DEF all, m

\* What holds for a list of known segments holds when more are known.
LEMMA CardsStay ==
    ASSUME CardsAreRight, known \subseteq known', UNCHANGED <<list, latest>>
    PROVE  CardsAreRight'
BY DEF CardsAreRight

\* No list page is open.
LEMMA NoCards ==
    ASSUME list' = Directory!NoPage, latest' = [s \in Segments |-> None]
    PROVE  CardsAreRight'
<1>1. list' = [open |-> FALSE, items |-> <<>>]
  BY DEF Directory!NoPage
<1>2. <<>> \in [{} -> Card]
  OBVIOUS
<1>3. list' \in [open : BOOLEAN, items : [{} -> Card]]
  BY <1>1, <1>2
<1> QED
  BY <1>1, <1>3 DEF CardsAreRight

\* The directory emits what an answer or a page has put into it.
LEMMA EmitStep ==
    ASSUME DirectoryInv, NEW segments \in SUBSET known, Directory!Emit(segments), known' = known,
           requests' \in Seq(Reply(known)), detail' \in Detail(known), fetched' => Seeded \subseteq segments
    PROVE  DirectoryInv'
<1>1. /\ directory' = segments /\ ticker' = Directory!Renamed(ticker, segments)
      /\ list' = IF list.open THEN [list EXCEPT !.items = Directory!Refreshed(segments)] ELSE list
      /\ latest' = [s \in Segments |-> IF s \in segments THEN latest[s] ELSE None]
  BY DEF Directory!Emit
<1>2. /\ ticker \in Seq(Item(known, directory)) /\ Len(ticker) <= MaxItems
      /\ latest \in [Segments -> Directory!Deltas \union {None}] /\ known \subseteq Segments
  BY DEF DirectoryInv, DirectoryTypes
<1>3. ticker' \in Seq(Item(known, segments)) /\ Len(ticker') <= MaxItems
  <2> DEFINE n == Len(ticker)
  <2>1. /\ n \in Nat /\ DOMAIN ticker = 1..n
        /\ \A i \in 1..n : ticker[i] \in Item(known, directory)
    BY <1>2, LenProperties
  <2>2. ticker' = [i \in 1..n |-> [ticker[i] EXCEPT !.named = @ \/ ticker[i].delta.segment \in segments]]
    BY <1>1, <2>1 DEF Directory!Renamed
  <2> HIDE DEF n
  <2>3. ASSUME NEW i \in 1..n
        PROVE  [ticker[i] EXCEPT !.named = @ \/ ticker[i].delta.segment \in segments] \in Item(known, segments)
    <3> DEFINE x == ticker[i]
               b == x.named \/ x.delta.segment \in segments
    <3>1. x \in [delta : {d \in Directory!Deltas : d.segment \in known}, named : BOOLEAN]
      BY <2>1 DEF Item
    <3>2. b \in BOOLEAN /\ (x.delta.segment \in segments => b)
      BY <3>1
    <3> HIDE DEF x, b
    <3>3. [x EXCEPT !.named = b] \in Item(known, segments)
      BY <3>1, <3>2 DEF Item
    <3> QED
      BY <3>3 DEF x, b
  <2>4. ticker' \in [1..n -> Item(known, segments)]
    BY <2>2, <2>3
  <2> QED
    BY <1>2, <2>1, <2>4, SeqOf DEF n
<1>4. latest' \in [Segments -> Directory!Deltas \union {None}]
  BY <1>1, <1>2
<1>5. CardsAreRight'
  <2>1. PICK S \in SUBSET known :
           /\ list \in [open : BOOLEAN, items : [S -> Card]]
           /\ ~list.open => S = {}
           /\ \A s \in S : list.items[s].lastDelta = latest[s]
           /\ \A s \in Segments \ S : latest[s] = None
    BY DEF DirectoryInv, CardsAreRight
  <2>2. CASE ~list.open
    <3>1. list' = list /\ S = {} /\ \A s \in Segments : latest'[s] = None
      BY <1>1, <2>1, <2>2
    <3> QED
      BY <3>1, <2>1 DEF CardsAreRight
  <2>3. CASE list.open
    <3> DEFINE f == Directory!Refreshed(segments)
    <3>1. f = [s \in segments |-> IF s \in S THEN list.items[s] ELSE Directory!NewItem]
      BY <2>1 DEF Directory!Refreshed, Directory!Listed
    <3>2. Directory!NewItem \in Card /\ Directory!NewItem.lastDelta = None
      BY DEF Directory!NewItem, Card
    <3>3. f \in [segments -> Card]
      BY <2>1, <3>1, <3>2
    <3>4. \A s \in segments : f[s].lastDelta = latest'[s]
      BY <1>1, <1>2, <2>1, <3>1, <3>2
    <3> HIDE DEF f
    <3>5. list' \in [open : BOOLEAN, items : [segments -> Card]] /\ list'.items = f /\ list'.open
      BY <1>1, <2>1, <2>3, <3>3 DEF f
    <3>6. \A s \in Segments \ segments : latest'[s] = None
      BY <1>1
    <3> QED
      BY <3>4, <3>5, <3>6 DEF CardsAreRight
  <2> QED
    BY <2>1, <2>2, <2>3
<1> QED
  BY <1>1, <1>2, <1>3, <1>4, <1>5 DEF DirectoryInv, DirectoryTypes

\* A request for the list is answered with the known segments, arrives, or fails.
LEMMA RequestSteps ==
    ASSUME DirectoryInv, NEW i \in DOMAIN requests,
           Directory!Evaluate(i) \/ Directory!Arrive(i) \/ Directory!FetchFails(i)
    PROVE  DirectoryInv'
<1>1. /\ requests \in Seq(Reply(known)) /\ known \subseteq Segments /\ Seeded \subseteq known
      /\ DOMAIN requests = 1..Len(requests) /\ requests[i] \in Reply(known)
  BY LenProperties DEF DirectoryInv, DirectoryTypes
<1>2. CASE Directory!Evaluate(i)
  <2>1. /\ requests' = [requests EXCEPT ![i] = known]
        /\ UNCHANGED <<known, fetched, directory, ticker, list, detail, latest>>
    BY <1>2 DEF Directory!Evaluate
  <2>2. known \in Reply(known)
    BY <1>1 DEF Reply
  <2>3. requests' \in Seq(Reply(known))
    BY <1>1, <2>1, <2>2, ExceptSeq
  <2> QED
    BY <2>1, <2>3, CardsStay DEF DirectoryInv, DirectoryTypes
<1>3. requests' = Directory!RemoveAt(requests, i) => requests' \in Seq(Reply(known))
  BY <1>1, RemoveAtFacts
<1>4. CASE Directory!Arrive(i)
  <2>1. /\ requests[i] # None /\ Directory!Emit(requests[i]) /\ fetched'
        /\ requests' = Directory!RemoveAt(requests, i) /\ UNCHANGED <<known, detail>>
    BY <1>4 DEF Directory!Arrive
  <2>2. requests[i] \in SUBSET known /\ Seeded \subseteq requests[i]
    BY <1>1, <2>1 DEF Reply
  <2>3. detail' \in Detail(known)
    BY <2>1 DEF DirectoryInv, DirectoryTypes
  <2> QED
    BY <1>3, <2>1, <2>2, <2>3, EmitStep
<1>5. CASE Directory!FetchFails(i)
  <2>1. /\ requests' = Directory!RemoveAt(requests, i)
        /\ UNCHANGED <<known, fetched, directory, ticker, list, detail, latest>>
    BY <1>5 DEF Directory!FetchFails
  <2> QED
    BY <1>3, <2>1, CardsStay DEF DirectoryInv, DirectoryTypes
<1> QED
  BY <1>2, <1>4, <1>5

\* A segment that is created becomes known; answers computed before it stay without it.
LEMMA CreateStep ==
    ASSUME DirectoryInv, NEW s \in Segments, Directory!Create(s)
    PROVE  DirectoryInv'
<1>1. /\ known' = known \union {s}
      /\ UNCHANGED <<requests, fetched, directory, ticker, list, detail, latest>>
  BY DEF Directory!Create
<1>2. Reply(known) \subseteq Reply(known') /\ Detail(known) \subseteq Detail(known')
  BY <1>1 DEF Reply, Detail
<1>3. Item(known, directory) \subseteq Item(known', directory)
  BY <1>1 DEF Item
<1>4. requests' \in Seq(Reply(known')) /\ ticker' \in Seq(Item(known', directory))
  BY <1>1, <1>2, <1>3, SeqGrows DEF DirectoryInv, DirectoryTypes
<1>5. Reply(known)' = Reply(known') /\ Item(known, directory)' = Item(known', directory) /\ Detail(known)' = Detail(known')
  BY <1>1 DEF Reply, Item, Detail
<1>6. directory' \subseteq known' /\ known' \subseteq Segments /\ Seeded \subseteq known' /\ detail' \in Detail(known')
  BY <1>1, <1>2 DEF DirectoryInv, DirectoryTypes
<1>7. CardsAreRight'
  BY <1>1, CardsStay DEF DirectoryInv
<1> QED
  BY <1>1, <1>4, <1>5, <1>6, <1>7 DEF DirectoryInv, DirectoryTypes

\* The user goes to the list page, or to the page of a segment.
LEMMA VisitSteps ==
    ASSUME DirectoryInv, Directory!OpenList \/ \E s \in Segments : Directory!OpenDetail(s)
    PROVE  DirectoryInv'
<1>1. /\ UNCHANGED <<known, fetched, directory, ticker>>
      /\ latest' = [s \in Segments |-> None]
  BY DEF Directory!OpenList, Directory!OpenDetail
<1>2. latest' \in [Segments -> Directory!Deltas \union {None}]
  BY <1>1
<1>3. CASE Directory!OpenList
  <2>1. /\ requests' = requests \/ requests' = Append(requests, None)
        /\ list' = [open |-> TRUE, items |-> [s \in directory |-> Directory!NewItem]]
        /\ detail' = [shown |-> None, getting |-> None]
    BY <1>3 DEF Directory!OpenList, Directory!Fetching
  <2>2. None \in Reply(known) /\ detail' \in Detail(known)
    BY <2>1 DEF Reply, Detail
  <2>3. requests' \in Seq(Reply(known))
    <3>1. requests \in Seq(Reply(known))
      BY DEF DirectoryInv, DirectoryTypes
    <3>2. Append(requests, None) \in Seq(Reply(known))
      BY <2>2, <3>1, AppendProperties
    <3> QED
      BY <2>1, <3>1, <3>2
  <2>4. Directory!NewItem \in Card /\ Directory!NewItem.lastDelta = None
    BY DEF Directory!NewItem, Card
  <2>5. list' \in [open : BOOLEAN, items : [directory -> Card]] /\ list'.open
        /\ \A s \in directory : list'.items[s].lastDelta = None
    BY <2>1, <2>4
  <2>6. directory \in SUBSET known /\ known \subseteq Segments
    BY DEF DirectoryInv, DirectoryTypes
  <2>7. CardsAreRight'
    BY <1>1, <2>5, <2>6 DEF CardsAreRight
  <2> QED
    BY <1>1, <1>2, <2>2, <2>3, <2>7 DEF DirectoryInv, DirectoryTypes
<1>4. ASSUME NEW s \in Segments, Directory!OpenDetail(s) PROVE DirectoryInv'
  <2>1. s \in known /\ detail' = Directory!Routed(s) /\ list' = Directory!NoPage /\ requests' = requests
    BY <1>4 DEF Directory!OpenDetail
  <2>2. detail' \in Detail(known)
    BY <2>1 DEF Directory!Routed, Detail, DirectoryInv, DirectoryTypes
  <2>3. CardsAreRight'
    BY <1>1, <2>1, NoCards
  <2> QED
    BY <1>1, <1>2, <2>1, <2>2, <2>3 DEF DirectoryInv, DirectoryTypes
<1> QED
  BY <1>3, <1>4

\* The page of a segment puts it into the directory, and names its items in the ticker.
LEMMA DirectoryArrivesStep ==
    ASSUME DirectoryInv, Directory!SegmentArrives
    PROVE  DirectoryInv'
<1> DEFINE s == detail.getting
<1>1. /\ s # None /\ Directory!Emit(directory \union {s})
      /\ detail' = [shown |-> s, getting |-> None] /\ UNCHANGED <<known, requests, fetched>>
  BY DEF Directory!SegmentArrives, Directory!Upserted
<1>2. s \in known
  BY <1>1 DEF DirectoryInv, DirectoryTypes, Detail
<1>3. detail' \in Detail(known)
  BY <1>1, <1>2 DEF Detail
<1>4. directory \union {s} \in SUBSET known /\ (fetched' => Seeded \subseteq directory \union {s})
  BY <1>1, <1>2 DEF DirectoryInv, DirectoryTypes
<1>5. requests' \in Seq(Reply(known))
  BY <1>1 DEF DirectoryInv, DirectoryTypes
<1> QED
  BY <1>1, <1>3, <1>4, <1>5, EmitStep

\* The user removes items of the ticker.
LEMMA TickerSteps ==
    ASSUME DirectoryInv, Directory!Clear \/ \E i \in DOMAIN ticker : Directory!Dismiss(i)
    PROVE  DirectoryInv'
<1>1. UNCHANGED <<known, requests, fetched, directory>>
  BY DEF Directory!Clear, Directory!Dismiss
<1>2. ticker \in Seq(Item(known, directory)) /\ Len(ticker) <= MaxItems /\ MaxItems \in Nat
  BY ClientAssumption DEF DirectoryInv, DirectoryTypes
<1>3. CASE Directory!Clear
  <2>1. ticker' = <<>> /\ UNCHANGED <<list, detail, latest>>
    BY <1>3 DEF Directory!Clear
  <2>2. ticker' \in Seq(Item(known, directory)) /\ Len(ticker') <= MaxItems
    BY <1>2, <2>1, EmptySeq
  <2> QED
    BY <1>1, <2>1, <2>2, CardsStay DEF DirectoryInv, DirectoryTypes
<1>4. ASSUME NEW i \in DOMAIN ticker, Directory!Dismiss(i) PROVE DirectoryInv'
  <2>1. /\ ticker' = Directory!RemoveAt(ticker, i) /\ detail' = Directory!Routed(ticker[i].delta.segment)
        /\ list' = Directory!NoPage /\ latest' = [t \in Segments |-> None]
    BY <1>4 DEF Directory!Dismiss
  <2>2. ticker' \in Seq(Item(known, directory)) /\ Len(ticker') <= Len(ticker)
    BY <1>2, <2>1, RemoveAtFacts
  <2>3. Len(ticker) \in Nat /\ Len(ticker') \in Nat /\ ticker[i] \in Item(known, directory)
    BY <1>2, <2>2, LenProperties
  <2>4. ticker[i].delta.segment \in known
    BY <2>3 DEF Item
  <2>5. detail' \in Detail(known)
    BY <2>1, <2>4 DEF Directory!Routed, Detail, DirectoryInv, DirectoryTypes
  <2>6. latest' \in [Segments -> Directory!Deltas \union {None}]
    BY <2>1
  <2>7. CardsAreRight'
    BY <2>1, NoCards
  <2> QED
    BY <1>1, <1>2, <2>2, <2>3, <2>5, <2>6, <2>7 DEF DirectoryInv, DirectoryTypes
<1> QED
  BY <1>3, <1>4

\* A card that is changed keeps the delta that was received last.
LEMMA CardSteps ==
    ASSUME DirectoryInv, NEW s \in known, NEW x \in Card, s \in Directory!Listed,
           list' = [list EXCEPT !.items[s] = x], known' = known,
           latest' = [latest EXCEPT ![s] = x.lastDelta]
    PROVE  CardsAreRight'
<1>1. PICK S \in SUBSET known :
         /\ list \in [open : BOOLEAN, items : [S -> Card]]
         /\ ~list.open => S = {}
         /\ \A t \in S : list.items[t].lastDelta = latest[t]
         /\ \A t \in Segments \ S : latest[t] = None
  BY DEF DirectoryInv, CardsAreRight
<1>2. s \in S /\ s \in Segments /\ latest \in [Segments -> Directory!Deltas \union {None}]
  BY <1>1 DEF Directory!Listed, DirectoryInv, DirectoryTypes
<1> DEFINE f == [list.items EXCEPT ![s] = x]
<1>3. f \in [S -> Card] /\ f[s] = x /\ \A t \in S : t # s => f[t] = list.items[t]
  BY <1>1, <1>2
<1>4. list' = [list EXCEPT !.items = f]
  BY <1>1
<1> HIDE DEF f
<1>5. list' \in [open : BOOLEAN, items : [S -> Card]] /\ list'.items = f /\ list'.open = list.open
  BY <1>1, <1>3, <1>4
<1>6. latest'[s] = x.lastDelta /\ \A t \in Segments : t # s => latest'[t] = latest[t]
  BY <1>2
<1>7. known \subseteq Segments
  BY DEF DirectoryInv, DirectoryTypes
<1> QED
  BY <1>1, <1>2, <1>3, <1>5, <1>6, <1>7 DEF CardsAreRight

\* A delta goes to the ticker, named if the directory has its segment, and to the card if there is one.
LEMMA DirectoryDeltaStep ==
    ASSUME DirectoryInv, NEW d \in Directory!Deltas, Directory!HandleDelta(d)
    PROVE  DirectoryInv'
<1>1. /\ d.segment \in known /\ ticker' = Directory!Ticked(d)
      /\ UNCHANGED <<known, requests, fetched, directory, detail>>
  BY DEF Directory!HandleDelta
<1>2. /\ ticker \in Seq(Item(known, directory)) /\ Len(ticker) <= MaxItems /\ MaxItems \in Nat
      /\ latest \in [Segments -> Directory!Deltas \union {None}] /\ known \subseteq Segments
  BY ClientAssumption DEF DirectoryInv, DirectoryTypes
<1>3. ticker' \in Seq(Item(known, directory)) /\ Len(ticker') <= MaxItems
  <2>1. CASE d.added = 0 /\ d.removed = 0
    BY <1>1, <1>2, <2>1 DEF Directory!Ticked
  <2>2. CASE ~(d.added = 0 /\ d.removed = 0)
    <3> DEFINE x == [delta |-> d, named |-> d.segment \in directory]
    <3>1. x \in Item(known, directory)
      <4>1. d \in {e \in Directory!Deltas : e.segment \in known} /\ (d.segment \in directory) \in BOOLEAN
        BY <1>1
      <4>2. x \in [delta : {e \in Directory!Deltas : e.segment \in known}, named : BOOLEAN]
        BY <4>1
      <4> QED
        BY <4>2 DEF Item
    <3> HIDE DEF x
    <3>2. ticker' = SubSeq(<<x>> \o ticker, 1, Page!Min({MaxItems, Len(<<x>> \o ticker)}))
      BY <1>1, <2>2 DEF Directory!Ticked, Directory!Min, Page!Min, x
    <3> QED
      BY <1>2, <3>1, <3>2, NewestFirst
  <2> QED
    BY <2>1, <2>2
<1>4. latest' \in [Segments -> Directory!Deltas \union {None}]
  BY <1>2 DEF Directory!HandleDelta
<1>5. CardsAreRight'
  <2>1. CASE d.segment \notin Directory!Listed
    <3>1. UNCHANGED <<list, latest>>
      BY <2>1 DEF Directory!HandleDelta
    <3> QED
      BY <3>1, <1>1, CardsStay DEF DirectoryInv
  <2>2. CASE d.segment \in Directory!Listed
    <3> DEFINE s == d.segment
               c == list.items[s]
               x == Directory!Lit(c, d)
    <3>1. /\ list' = [list EXCEPT !.items[s] = Directory!Lit(list.items[s], d)]
          /\ latest' = [latest EXCEPT ![s] = d]
      BY <2>2 DEF Directory!HandleDelta
    <3>2. c \in Card
      BY <2>2 DEF DirectoryInv, CardsAreRight, Directory!Listed
    <3>3. x = [flash |-> Directory!Flash(d, c.flash), lastDelta |-> d, timers |-> c.timers + 1]
      BY DEF Directory!Lit
    <3> HIDE DEF c
    <3>4. /\ Directory!Flash(d, c.flash) \in {None, "add", "remove"}
          /\ c.timers + 1 \in Nat /\ c.timers + 1 > 0
      BY <3>2 DEF Card, Directory!Flash
    <3>5. x \in Card /\ x.lastDelta = d
      BY <3>3, <3>4 DEF Card
    <3> QED
      BY <1>1, <2>2, <3>1, <3>5, CardSteps DEF c
  <2> QED
    BY <2>1, <2>2
<1> QED
  BY <1>1, <1>3, <1>4, <1>5 DEF DirectoryInv, DirectoryTypes

\* The last timer of a card ends its flash.
LEMMA FlashEndsStep ==
    ASSUME DirectoryInv, NEW s \in Segments, Directory!FlashEnds(s)
    PROVE  DirectoryInv'
<1>1. /\ s \in Directory!Listed /\ list.items[s].timers > 0
      /\ list' = [list EXCEPT !.items[s].timers = @ - 1, !.items[s].flash = None]
      /\ UNCHANGED <<known, requests, fetched, directory, ticker, detail, latest>>
  BY DEF Directory!FlashEnds
<1>2. PICK S \in SUBSET known :
         /\ list \in [open : BOOLEAN, items : [S -> Card]]
         /\ \A t \in S : list.items[t].lastDelta = latest[t]
  BY DEF DirectoryInv, CardsAreRight
<1>3. s \in S /\ s \in known /\ latest \in [Segments -> Directory!Deltas \union {None}]
  BY <1>1, <1>2 DEF Directory!Listed, DirectoryInv, DirectoryTypes
<1> DEFINE c == list.items[s]
           n == c.timers - 1
           x == [c EXCEPT !.timers = n, !.flash = None]
<1>4. c \in Card /\ c.lastDelta = latest[s] /\ c.timers > 0
  BY <1>1, <1>2, <1>3
<1>5. list' = [list EXCEPT !.items[s] = x]
  BY <1>1, <1>2, <1>3 DEF Card
<1> HIDE DEF c
<1>6. n \in Nat
  BY <1>4 DEF Card
<1> HIDE DEF n
<1>7. x \in Card /\ x.lastDelta = latest[s]
  BY <1>4, <1>6 DEF Card
<1> HIDE DEF x
<1>8. latest' = [latest EXCEPT ![s] = x.lastDelta]
  BY <1>1, <1>3, <1>7
<1>9. CardsAreRight'
  BY <1>1, <1>3, <1>5, <1>7, <1>8, CardSteps
<1> QED
  BY <1>1, <1>9 DEF DirectoryInv, DirectoryTypes

\* A browser starts with an empty directory.
LEMMA DirectoryStarts ==
    ASSUME Directory!Init
    PROVE  DirectoryInv
<1>1. /\ known = Seeded /\ requests = <<None>> /\ ~fetched /\ directory = {} /\ ticker = <<>>
      /\ list = [open |-> FALSE, items |-> <<>>] /\ detail = [shown |-> None, getting |-> None]
      /\ latest = [s \in Segments |-> None]
  BY DEF Directory!Init, Directory!NoPage
<1>2. None \in Reply(known) /\ detail \in Detail(known)
  BY <1>1 DEF Reply, Detail
<1>3. requests \in Seq(Reply(known))
  BY <1>1, <1>2
<1>4. ticker \in Seq(Item(known, directory)) /\ Len(ticker) <= MaxItems
  BY <1>1, EmptySeq, ClientAssumption
<1>5. <<>> \in [{} -> Card]
  OBVIOUS
<1>6. list \in [open : BOOLEAN, items : [{} -> Card]]
  BY <1>1, <1>5
<1>7. CardsAreRight
  BY <1>1, <1>6 DEF CardsAreRight
<1> QED
  BY <1>1, <1>2, <1>3, <1>4, <1>7, ClientAssumption DEF DirectoryInv, DirectoryTypes

\* Every step of the directory and its listeners keeps the invariant,
LEMMA DirectoryGoesOn ==
    ASSUME DirectoryInv, Directory!Next
    PROVE  DirectoryInv'
<1>1. ASSUME NEW i \in DOMAIN requests,
             Directory!Evaluate(i) \/ Directory!Arrive(i) \/ Directory!FetchFails(i)
      PROVE  DirectoryInv'
  BY <1>1, RequestSteps
<1>2. ASSUME NEW s \in Segments, Directory!Create(s) \/ Directory!OpenDetail(s) \/ Directory!FlashEnds(s)
      PROVE  DirectoryInv'
  BY <1>2, CreateStep, VisitSteps, FlashEndsStep
<1>3. CASE Directory!OpenList
  BY <1>3, VisitSteps
<1>4. CASE Directory!SegmentArrives
  BY <1>4, DirectoryArrivesStep
<1>5. ASSUME NEW d \in Directory!Deltas, Directory!HandleDelta(d) PROVE DirectoryInv'
  BY <1>5, DirectoryDeltaStep
<1>6. CASE Directory!Clear \/ \E i \in DOMAIN ticker : Directory!Dismiss(i)
  BY <1>6, TickerSteps
<1> QED
  BY <1>1, <1>2, <1>3, <1>4, <1>5, <1>6 DEF Directory!Next

\* and steps of other parts do.
LEMMA DirectoryRests ==
    ASSUME DirectoryInv, UNCHANGED directoryVars
    PROVE  DirectoryInv'
<1>1. UNCHANGED <<known, requests, fetched, directory, ticker, list, detail, latest>>
  BY DEF directoryVars
<1> QED
  BY <1>1, CardsStay DEF DirectoryInv, DirectoryTypes

\* The invariant contains the properties of the directory.
LEMMA DirectoryIsRight ==
    ASSUME DirectoryInv
    PROVE  /\ Directory!TypeOK /\ Directory!TickerIsNamed
           /\ Directory!CardsKeepTheirDelta /\ Directory!DirectoryIsComplete
<1>1. Directory!TickerIsNamed
  <2>1. \A i \in DOMAIN ticker : ticker[i] \in Item(known, directory)
    BY LenProperties DEF DirectoryInv, DirectoryTypes
  <2> QED
    BY <2>1 DEF Directory!TickerIsNamed, Item
<1>2. PICK S \in SUBSET known :
         /\ list \in [open : BOOLEAN, items : [S -> Card]]
         /\ \A t \in S : list.items[t].lastDelta = latest[t]
  BY DEF DirectoryInv, CardsAreRight
<1>3. Directory!Listed = S /\ \A s \in S : list.items[s] \in Card
  BY <1>2 DEF Directory!Listed
<1>4. \A s \in S : list.items[s].flash # None => list.items[s].timers > 0
  BY <1>3 DEF Card
<1>5. Directory!TypeOK
  BY <1>3, <1>4 DEF Directory!TypeOK, DirectoryInv, DirectoryTypes, Detail
<1> QED
  BY <1>1, <1>2, <1>3, <1>5 DEF Directory!CardsKeepTheirDelta, Directory!DirectoryIsComplete, DirectoryInv, DirectoryTypes

-----------------------------------------------------------------------------
(* The forms and the customers remembered *)

FormRequests ==
    /\ running \subseteq Simulate!Request
    /\ \A r \in running : r.page < formUsed.visits /\ (r.wrote # None => r.wrote <= customer)
    /\ \A r, q \in Simulate!Own : r = q

\* No request is of a later page, the current page has one at most, whose end it awaits, and
\* what the browser knows of, or has in hand, is no version the database has not reached.
FormsInv ==
    /\ customer \in Nat /\ seen \in 0 .. customer
    /\ formUsed \in [commands : Nat, visits : Nat, failures : Nat, others : Nat]
    /\ cache \in [read : Simulate!Version, here : BOOLEAN] \union {None}
    /\ form \in [number : Nat, busy : BOOLEAN] \union {None}
    /\ form # None => form.number < formUsed.visits
    /\ FormRequests
    /\ Simulate!Own # {} => form.busy
    /\ Simulate!OwnPatchesAreRemembered

\* What is used up changes alone.
LEMMA UsedFacts ==
    ASSUME FormsInv, NEW what \in {"commands", "visits", "failures", "others"}
    PROVE  LET now == [formUsed EXCEPT ![what] = @ + 1] IN
           /\ now \in [commands : Nat, visits : Nat, failures : Nat, others : Nat]
           /\ now.visits = IF what = "visits" THEN formUsed.visits + 1 ELSE formUsed.visits
BY DEF FormsInv

\* Where only what is remembered changes, it has to be recent enough.
LEMMA CacheStep ==
    ASSUME FormsInv, UNCHANGED <<customer, form, running, seen>>, formUsed'.visits = formUsed.visits,
           formUsed' \in [commands : Nat, visits : Nat, failures : Nat, others : Nat],
           cache' \in [read : Simulate!Version, here : BOOLEAN] \union {None},
           cache' # None /\ cache'.read # None => cache'.read >= seen
    PROVE  FormsInv'
BY DEF FormsInv, FormRequests, Simulate!Own, Simulate!OwnPatchesAreRemembered

\* A request for the list reads what is in the database, which has all that was seen.
LEMMA ListSteps ==
    ASSUME FormsInv, Simulate!ListServed \/ Simulate!ListAnswered \/ Simulate!ListFails
    PROVE  FormsInv'
<1>1. /\ UNCHANGED <<customer, form, running, seen>> /\ formUsed'.visits = formUsed.visits
      /\ formUsed' \in [commands : Nat, visits : Nat, failures : Nat, others : Nat]
  BY UsedFacts DEF FormsInv, Simulate!ListServed, Simulate!ListAnswered, Simulate!ListFails, Simulate!Used
<1>2. cache \in [read : Simulate!Version, here : BOOLEAN]
  BY DEF FormsInv, Simulate!ListServed, Simulate!ListAnswered, Simulate!ListFails
<1>3. CASE Simulate!ListServed
  <2>1. /\ cache' = [cache EXCEPT !.read = customer]
        /\ customer \in Simulate!Version /\ customer >= seen
    BY <1>3 DEF FormsInv, Simulate!ListServed, Simulate!Version
  <2> QED
    BY <1>1, <1>2, <2>1, CacheStep
<1>4. CASE Simulate!ListAnswered
  <2>1. /\ cache' = [cache EXCEPT !.here = TRUE]
        /\ cache # None /\ cache.read # None => cache.read >= seen
    BY <1>4 DEF FormsInv, Simulate!ListAnswered, Simulate!OwnPatchesAreRemembered
  <2>2. cache # None /\ cache'.read = cache.read /\ cache' \in [read : Simulate!Version, here : BOOLEAN]
    BY <1>2, <1>4, <2>1 DEF Simulate!ListAnswered
  <2> QED
    BY <1>1, <2>1, <2>2, CacheStep
<1>5. CASE Simulate!ListFails
  BY <1>1, <1>5, CacheStep DEF Simulate!ListFails
<1> QED
  BY <1>3, <1>4, <1>5

\* A page that is left: its request goes on, and is no longer one of the open page.
LEMMA OpenSteps ==
    ASSUME FormsInv, Simulate!OpenSimulate \/ Simulate!OpenSegment
    PROVE  FormsInv'
<1> DEFINE n == formUsed.visits
<1>1. /\ Simulate!List /\ UNCHANGED <<customer, running, seen>>
      /\ form' = None \/ form' = [number |-> n, busy |-> FALSE]
      /\ formUsed' = [formUsed EXCEPT !["visits"] = @ + 1]
  BY DEF Simulate!OpenSimulate, Simulate!OpenSegment, Simulate!NewPage, Simulate!Used
<1>2. /\ n \in Nat /\ formUsed'.visits = n + 1
      /\ formUsed' \in [commands : Nat, visits : Nat, failures : Nat, others : Nat]
  BY <1>1, UsedFacts DEF FormsInv
<1>3. /\ cache' \in [read : Simulate!Version, here : BOOLEAN] \union {None}
      /\ cache' # None /\ cache'.read # None => cache'.read >= seen
  <2>1. cache' = cache \/ cache' = [read |-> None, here |-> FALSE]
    BY <1>1 DEF Simulate!List
  <2>2. CASE cache' = cache
    BY <1>1, <2>2 DEF FormsInv, Simulate!OwnPatchesAreRemembered
  <2>3. CASE cache' = [read |-> None, here |-> FALSE]
    <3>1. cache' \in [read : Simulate!Version, here : BOOLEAN] /\ cache'.read = None
      BY <2>3 DEF Simulate!Version
    <3> QED
      BY <3>1
  <2> QED
    BY <2>1, <2>2, <2>3
<1>4. Simulate!Own' = {}
  BY <1>1, <1>2 DEF FormsInv, FormRequests, Simulate!Own, Simulate!Request
<1>5. \A r \in running : r.page < n + 1
  BY <1>2 DEF FormsInv, FormRequests, Simulate!Request
<1> HIDE DEF n
<1>6. /\ form' \in [number : Nat, busy : BOOLEAN] \union {None}
      /\ form' # None => form'.number < formUsed'.visits
  <2>1. CASE form' = None
    BY <2>1
  <2>2. CASE form' = [number |-> n, busy |-> FALSE]
    <3>1. form' \in [number : Nat, busy : BOOLEAN] /\ form'.number = n
      BY <2>2, <1>2
    <3> QED
      BY <3>1, <1>2
  <2> QED
    BY <1>1, <2>1, <2>2
<1>7. FormRequests'
  BY <1>1, <1>2, <1>4, <1>5 DEF FormsInv, FormRequests
<1>8. Simulate!OwnPatchesAreRemembered'
  BY <1>1, <1>3 DEF Simulate!OwnPatchesAreRemembered
<1> QED
  BY <1>1, <1>2, <1>3, <1>4, <1>6, <1>7, <1>8 DEF FormsInv

\* A command takes the buttons, so the page has one request.
LEMMA RunStep ==
    ASSUME FormsInv, NEW f \in Simulate!Forms, Simulate!Run(f)
    PROVE  FormsInv'
<1> DEFINE new == [form |-> f, page |-> form.number, wrote |-> None]
<1>1. /\ form # None /\ ~form.busy /\ form' = [form EXCEPT !.busy = TRUE]
      /\ running' = running \union {new}
      /\ UNCHANGED <<customer, cache, seen>> /\ formUsed'.visits = formUsed.visits
      /\ formUsed' \in [commands : Nat, visits : Nat, failures : Nat, others : Nat]
  BY UsedFacts DEF Simulate!Run, Simulate!Used
<1>2. form \in [number : Nat, busy : BOOLEAN] /\ form.number < formUsed.visits
  BY <1>1 DEF FormsInv
<1>3. form' \in [number : Nat, busy : BOOLEAN] /\ form'.number = form.number /\ form'.busy
  BY <1>1, <1>2
<1>4. new \in Simulate!Request /\ new.page = form.number /\ new.wrote = None
  BY <1>2 DEF Simulate!Request, Simulate!Version
<1> HIDE DEF new
<1>5. \A r \in running : r.page # form.number
  BY <1>1 DEF FormsInv, Simulate!Own
<1>6. Simulate!Own' \subseteq {new}
  BY <1>1, <1>3, <1>5 DEF Simulate!Own
<1>7. FormRequests'
  BY <1>1, <1>2, <1>4, <1>6 DEF FormsInv, FormRequests
<1>8. Simulate!OwnPatchesAreRemembered'
  BY <1>1 DEF FormsInv, Simulate!OwnPatchesAreRemembered
<1> QED
  BY <1>1, <1>2, <1>3, <1>7, <1>8 DEF FormsInv

\* The api serves a command, and a patch changes the profile before its answer arrives.
LEMMA ServeStep ==
    ASSUME FormsInv, NEW r \in running, Simulate!Serve(r)
    PROVE  FormsInv'
<1> DEFINE d == [r EXCEPT !.wrote = customer']
<1>1. /\ customer' = (IF r.form = "profile" THEN customer + 1 ELSE customer)
      /\ running' = (running \ {r}) \union {d}
      /\ UNCHANGED <<cache, form, seen, formUsed>>
  BY DEF Simulate!Serve, Simulate!Written
<1>2. customer' \in Nat /\ customer <= customer'
  BY <1>1 DEF FormsInv
<1>3. r \in Simulate!Request
  BY DEF FormsInv, FormRequests
<1>4. d \in Simulate!Request /\ d.page = r.page /\ d.wrote = customer'
  BY <1>2, <1>3 DEF Simulate!Request, Simulate!Version
<1> HIDE DEF d
<1>5. Simulate!Own' = (IF r \in Simulate!Own THEN (Simulate!Own \ {r}) \union {d} ELSE Simulate!Own)
  BY <1>1, <1>4 DEF Simulate!Own
<1>6. FormRequests'
  <2>1. ASSUME NEW q \in running' PROVE q.page < formUsed.visits /\ (q.wrote # None => q.wrote <= customer')
    <3>1. CASE q = d
      BY <1>2, <1>4, <3>1 DEF FormsInv, FormRequests
    <3>2. CASE q # d
      <4>1. q \in running /\ q \in Simulate!Request
        BY <1>1, <3>2 DEF FormsInv, FormRequests
      <4>2. q.wrote \in Nat \union {None} /\ customer \in Nat
        BY <4>1 DEF Simulate!Request, Simulate!Version, FormsInv
      <4>3. q.page < formUsed.visits /\ (q.wrote # None => q.wrote <= customer)
        BY <4>1 DEF FormsInv, FormRequests
      <4> QED
        BY <1>2, <4>2, <4>3
    <3> QED
      BY <3>1, <3>2
  <2>2. running' \subseteq Simulate!Request /\ (\A p, q \in Simulate!Own' : p = q)
    BY <1>1, <1>4, <1>5 DEF FormsInv, FormRequests
  <2> QED
    BY <1>1, <2>1, <2>2 DEF FormRequests
<1>7. seen' \in 0 .. customer'
  BY <1>1, <1>2 DEF FormsInv
<1>8. Simulate!OwnPatchesAreRemembered' /\ (Simulate!Own' # {} => form'.busy)
  BY <1>1, <1>5 DEF FormsInv, Simulate!OwnPatchesAreRemembered
<1> QED
  BY <1>1, <1>2, <1>6, <1>7, <1>8 DEF FormsInv

\* Another client's patch leaves this browser with what it knew.
LEMMA OthersStep ==
    ASSUME FormsInv, Simulate!OthersPatch
    PROVE  FormsInv'
<1>1. /\ customer' = customer + 1 /\ UNCHANGED <<cache, form, running, seen>>
      /\ formUsed'.visits = formUsed.visits
      /\ formUsed' \in [commands : Nat, visits : Nat, failures : Nat, others : Nat]
  BY UsedFacts DEF Simulate!OthersPatch, Simulate!Used
<1>2. FormRequests'
  BY <1>1 DEF FormsInv, FormRequests, Simulate!Own, Simulate!Request, Simulate!Version
<1>3. Simulate!Own' = Simulate!Own
  BY <1>1 DEF Simulate!Own
<1>4. Simulate!OwnPatchesAreRemembered'
  BY <1>1 DEF FormsInv, Simulate!OwnPatchesAreRemembered
<1> QED
  BY <1>1, <1>2, <1>3, <1>4 DEF FormsInv

\* A request ends, for the page as it is now: a patch that succeeds drops what is remembered.
LEMMA EndSteps ==
    ASSUME FormsInv, NEW r \in running, Simulate!Succeed(r) \/ Simulate!FailRequest(r)
    PROVE  FormsInv'
<1>1. /\ running' = running \ {r} /\ customer' = customer /\ formUsed'.visits = formUsed.visits
      /\ formUsed' \in [commands : Nat, visits : Nat, failures : Nat, others : Nat]
  BY UsedFacts DEF FormsInv, Simulate!Succeed, Simulate!FailRequest, Simulate!Used
<1>2. /\ form' = form \/ (r \in Simulate!Own /\ form' = [form EXCEPT !.busy = FALSE])
      /\ cache' = None \/ (cache' = cache /\ seen' = seen)
      /\ seen' \in 0 .. customer
  <2>1. CASE Simulate!Succeed(r)
    <3>1. r.wrote \in Nat /\ r.wrote <= customer /\ customer \in Nat /\ seen \in 0 .. customer
      BY <2>1 DEF FormsInv, FormRequests, Simulate!Succeed, Simulate!Request, Simulate!Version
    <3>2. Simulate!Max({seen, r.wrote}) = IF seen >= r.wrote THEN seen ELSE r.wrote
      BY <3>1 DEF Simulate!Max
    <3> QED
      BY <2>1, <3>1, <3>2 DEF Simulate!Succeed, Simulate!Ended, Simulate!Invalidates
  <2>2. CASE Simulate!FailRequest(r)
    BY <2>2 DEF FormsInv, Simulate!FailRequest
  <2> QED
    BY <2>1, <2>2
<1>3. /\ form' \in [number : Nat, busy : BOOLEAN] \union {None}
      /\ Simulate!Own' \subseteq Simulate!Own \ {r}
      /\ form' # None => form'.number < formUsed.visits
  <2>1. CASE form' = form
    BY <1>1, <2>1 DEF FormsInv, Simulate!Own
  <2>2. CASE r \in Simulate!Own /\ form' = [form EXCEPT !.busy = FALSE]
    <3>1. form # None /\ form \in [number : Nat, busy : BOOLEAN]
      BY <2>2 DEF FormsInv, Simulate!Own
    <3>2. form' \in [number : Nat, busy : BOOLEAN] /\ form'.number = form.number
      BY <2>2, <3>1
    <3> QED
      BY <1>1, <3>1, <3>2 DEF FormsInv, Simulate!Own
  <2> QED
    BY <1>2, <2>1, <2>2
<1>4. FormRequests'
  BY <1>1, <1>3 DEF FormsInv, FormRequests
<1>5. Simulate!Own' # {} => form'.busy
  BY <1>2, <1>3 DEF FormsInv, FormRequests
<1>6. Simulate!OwnPatchesAreRemembered'
  BY <1>2 DEF FormsInv, Simulate!OwnPatchesAreRemembered
<1> QED
  BY <1>1, <1>2, <1>3, <1>4, <1>5, <1>6 DEF FormsInv

\* Nothing is remembered at first.
LEMMA FormsStart ==
    ASSUME Simulate!Init
    PROVE  FormsInv
BY DEF Simulate!Init, FormsInv, FormRequests, Simulate!Own, Simulate!OwnPatchesAreRemembered

\* Every step of the forms keeps the invariant,
LEMMA FormsGoOn ==
    ASSUME FormsInv, Simulate!Next
    PROVE  FormsInv'
<1>1. CASE Simulate!ListServed \/ Simulate!ListAnswered \/ Simulate!ListFails
  BY <1>1, ListSteps
<1>2. CASE Simulate!OpenSimulate \/ Simulate!OpenSegment
  BY <1>2, OpenSteps
<1>3. CASE Simulate!OthersPatch
  BY <1>3, OthersStep
<1>4. ASSUME NEW f \in Simulate!Forms, Simulate!Run(f) PROVE FormsInv'
  BY <1>4, RunStep
<1>5. ASSUME NEW r \in running, Simulate!Serve(r) PROVE FormsInv'
  BY <1>5, ServeStep
<1>6. ASSUME NEW r \in running, Simulate!Succeed(r) \/ Simulate!FailRequest(r) PROVE FormsInv'
  BY <1>6, EndSteps
<1> QED
  BY <1>1, <1>2, <1>3, <1>4, <1>5, <1>6 DEF Simulate!Next

\* and steps of other parts do.
LEMMA FormsRest ==
    ASSUME FormsInv, UNCHANGED formVars
    PROVE  FormsInv'
BY DEF formVars, FormsInv, FormRequests, Simulate!Own, Simulate!OwnPatchesAreRemembered

\* The cardinality of the instance is the one of the library.
LEMMA SameCardinality ==
    ASSUME NEW S
    PROVE  Simulate!Cardinality(S) = Cardinality(S)
BY Zenon DEF Simulate!Cardinality, Cardinality

\* The invariant contains the types.
LEMMA FormsTypesFollow ==
    ASSUME FormsInv
    PROVE  Simulate!TypeOK
<1>1. Cardinality(Simulate!Own) <= 1
  <2>1. CASE Simulate!Own = {}
    BY <2>1, FS_EmptySet
  <2>2. CASE Simulate!Own # {}
    <3>1. PICK r \in Simulate!Own : TRUE
      BY <2>2
    <3>2. Simulate!Own = {r}
      BY <3>1 DEF FormsInv, FormRequests
    <3>3. Cardinality({r}) = 1
      BY FS_Singleton
    <3> QED
      BY <3>2, <3>3
  <2> QED
    BY <2>1, <2>2
<1>2. /\ cache \in [read : Simulate!Version, here : BOOLEAN] \union {None}
      /\ form \in [number : Nat, busy : BOOLEAN] \union {None}
      /\ running \in SUBSET Simulate!Request
      /\ Simulate!Own # {} => form.busy
  BY DEF FormsInv, FormRequests
<1> QED
  BY <1>1, <1>2, SameCardinality, Zenon DEF Simulate!TypeOK

-----------------------------------------------------------------------------
(* The three of them side by side *)

ClientInv == PageInv /\ DirectoryInv /\ FormsInv

\* A behaviour follows one part, and the others stay as they are.
LEMMA ClientInvHolds == ClientSpec => []ClientInv
<1>1. ClientInit => ClientInv
  BY PageStarts, DirectoryStarts, FormsStart DEF ClientInit, ClientInv
<1>2. ClientInv /\ [PageNext \/ DirectoryNext \/ FormsNext]_<<part, pageVars, directoryVars, formVars>> => ClientInv'
  <2> SUFFICES ASSUME ClientInv, [PageNext \/ DirectoryNext \/ FormsNext]_<<part, pageVars, directoryVars, formVars>>
               PROVE  ClientInv'
    OBVIOUS
  <2>1. CASE PageNext
    BY <2>1, PageGoesOn, DirectoryRests, FormsRest DEF PageNext, ClientInv
  <2>2. CASE DirectoryNext
    BY <2>2, PageRests, DirectoryGoesOn, FormsRest DEF DirectoryNext, ClientInv
  <2>3. CASE FormsNext
    BY <2>3, PageRests, DirectoryRests, FormsGoOn DEF FormsNext, ClientInv
  <2>4. CASE UNCHANGED <<part, pageVars, directoryVars, formVars>>
    BY <2>4, PageRests, DirectoryRests, FormsRest DEF ClientInv
  <2> QED
    BY <2>1, <2>2, <2>3, <2>4
<1> QED
  BY <1>1, <1>2, PTL DEF ClientSpec

\* The variables of the three parts have their types, with the rules they follow at any
\* time: highlights and flashes have a timer, one request of the current simulate page.
THEOREM ClientTypes == ClientSpec => []TypesOK
<1>1. ClientInv => TypesOK
  BY PageTypesFollow, DirectoryIsRight, FormsTypesFollow DEF ClientInv, TypesOK
<1> QED
  BY <1>1, ClientInvHolds, PTL

\* The member list of a page at rest is the latest snapshot of its segment, unless a delta
\* was missed, overtook an answer or a younger delta, or the page has changed segments
\* (handleDelta and applyMemberList of SegmentDetailComponent).
THEOREM ListSettlesRight == ClientSpec => []SettledListIsRight
<1>1. ClientInv => SettledListIsRight
  BY SettledIsRight DEF ClientInv, SettledListIsRight
<1> QED
  BY <1>1, ClientInvHolds, PTL

\* The ticker shows each name the directory has (append and refreshNames of
\* LiveDeltaTickerComponent).
THEOREM TickerHasNames == ClientSpec => []TickerIsNamed
<1>1. ClientInv => TickerIsNamed
  BY DirectoryIsRight DEF ClientInv, TickerIsNamed
<1> QED
  BY <1>1, ClientInvHolds, PTL

\* Rebuilding the list from an answer loses no card's latest delta, and brings none back
\* (the subscription to all$ and applyDelta of SegmentsListComponent).
THEOREM CardsKeepDeltas == ClientSpec => []CardsKeepTheirDelta
<1>1. ClientInv => CardsKeepTheirDelta
  BY DirectoryIsRight DEF ClientInv, CardsKeepTheirDelta
<1> QED
  BY <1>1, ClientInvHolds, PTL

\* Neither answers nor segment pages take a segment of the start from a directory that has
\* been fetched (fetch and upsert of SegmentsCacheService).
THEOREM FetchedIsComplete == ClientSpec => []DirectoryIsComplete
<1>1. ClientInv => DirectoryIsComplete
  BY DirectoryIsRight DEF ClientInv, DirectoryIsComplete
<1> QED
  BY <1>1, ClientInvHolds, PTL

\* The customers remembered have each patch that has succeeded in this browser, whatever
\* other clients patch (list and invalidate of CustomersService, updateProfile of the page).
THEOREM OwnPatchesRemembered == ClientSpec => []OwnPatchesAreRemembered
<1>1. ClientInv => OwnPatchesAreRemembered
  BY DEF ClientInv, FormsInv, OwnPatchesAreRemembered
<1> QED
  BY <1>1, ClientInvHolds, PTL
=============================================================================
