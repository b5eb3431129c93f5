----------------------------- MODULE DeltaFeed -----------------------------
(***************************************************************************)
(* From a recorded delta to its three subscribers.                         *)
(*                                                                         *)
(* DeltaBroadcasterService emits every delta to three queues, without      *)
(* confirmation and over a connection per queue.  The worker consumes      *)
(* drift.delta-events (cascade) and drift.delta-events.campaign, the api   *)
(* drift.delta-events.ws, and its gateway emits the delta to the socket.io *)
(* rooms.  Nest runs every handler of a process whose pattern is that of   *)
(* the message, whichever queue the message came from.  What a handler of  *)
(* the cascade does is in EvalPipeline.                                    *)
(***************************************************************************)
EXTENDS Integers, FiniteSetsExt, SequencesExt

CONSTANTS
    Segments,
    Sockets,          \* browser connections to the namespace /deltas
    Prefetch,         \* prefetchCount of the queues
    MaxDeltas,        \* bound: deltas recorded
    MaxFaults,        \* bound: crashes of api and worker, restarts of the broker, handlers that throw
    MaxSocketSteps    \* bound: connects, disconnects, subscriptions

\* The rooms of segments are segment:<id>, the room all is none of them.
ASSUME FeedAssumption == MaxDeltas \in Nat /\ "all" \notin Segments

VARIABLES
    log,       \* the recorded deltas in commit order: segment, and the process that computed it
    unsent,    \* recorded, and not yet broadcast by its caller
    sent,      \* sent[p]: the deltas process p has broadcast, in order
    wire,      \* wire[p][q]: emitted by process p, on the way to queue q
    queue,     \* queue[q]: the messages in RabbitMQ that are not delivered
    taken,     \* taken[q]: the deliveries not acknowledged, in order: handler and delta
    arrived,   \* history: the queue and delta of each message that has reached a queue
    handled,   \* handled[r][d]: how often subscriber r has handled delta d
    rooms,     \* rooms[s]: the rooms of socket s, none when it is not connected
    joined,    \* joined[s]: the segments whose rooms this connection has ever joined
    inbox,     \* inbox[s]: the deltas this connection has received
    used

feedVars == <<log, unsent, sent, wire, queue, taken, arrived, handled, rooms, joined, inbox, used>>

-----------------------------------------------------------------------------

Roles == {"cascade", "ws", "campaign"}
Processes == {"api", "worker"}
Host(role) == IF role = "ws" THEN "api" ELSE "worker"
Deltas == 1..MaxDeltas

Fault(kind) ==
    /\ used.crashes + used.restarts + used.drops < MaxFaults
    /\ used' = [used EXCEPT ![kind] = @ + 1]

\* Mutant of PatternOf: the pattern segment.delta for all three.
SharedPattern(role) == "segment.delta"

\* PATTERN_SEGMENT_DELTA_CASCADE, _WS, _CAMPAIGN.
PatternOf(role) == role

\* The handlers that Nest runs for a message of queue q.
Fires(q) == {role \in Roles : Host(role) = Host(q) /\ PatternOf(role) = PatternOf(q)}
Deliveries(q, d) == SetToSeq(Fires(q) \X {d})

-----------------------------------------------------------------------------
(* Publishing *)

\* computeAndPersist commits a delta; the lock of the segment is free again.
RecordDelta(segment, p) ==
    /\ Len(log) < MaxDeltas
    /\ log' = Append(log, [segment |-> segment, by |-> p])
    /\ unsent' = unsent \union {Len(log) + 1}
    /\ UNCHANGED <<sent, wire, queue, taken, arrived, handled, rooms, joined, inbox, used>>

\* broadcast(event): three emits.
Broadcast(d) ==
    LET p == log[d].by IN
    /\ d \in unsent /\ unsent' = unsent \ {d}
    /\ sent' = [sent EXCEPT ![p] = Append(@, d)]
    /\ wire' = [wire EXCEPT ![p] = [q \in Roles |-> Append(@[q], d)]]
    /\ UNCHANGED <<log, queue, taken, arrived, handled, rooms, joined, inbox, used>>

\* A message reaches its queue; the connections are independent of each other.
Arrive(p, q) ==
    /\ wire[p][q] # <<>>
    /\ queue' = [queue EXCEPT ![q] = Append(@, Head(wire[p][q]))]
    /\ arrived' = arrived \union {<<q, Head(wire[p][q])>>}
    /\ wire' = [wire EXCEPT ![p][q] = Tail(@)]
    /\ UNCHANGED <<log, unsent, sent, taken, handled, rooms, joined, inbox, used>>

-----------------------------------------------------------------------------
(* The subscribers in the worker *)

\* The broker delivers while fewer than Prefetch messages are unacknowledged.
Deliver(q) ==
    /\ Host(q) = "worker" /\ queue[q] # <<>> /\ Len(taken[q]) < Prefetch
    /\ taken' = [taken EXCEPT ![q] = @ \o Deliveries(q, Head(queue[q]))]
    /\ queue' = [queue EXCEPT ![q] = Tail(@)]
    /\ UNCHANGED <<log, unsent, sent, wire, arrived, handled, rooms, joined, inbox, used>>

\* The handler has done its work (notifications logged, children evaluated) and acks.
Finish(q, i) ==
    LET m == taken[q][i] IN
    /\ handled' = [handled EXCEPT ![m[1]][m[2]] = @ + 1]
    /\ taken' = [taken EXCEPT ![q] = RemoveAt(@, i)]
    /\ UNCHANGED <<log, unsent, sent, wire, queue, arrived, rooms, joined, inbox, used>>

\* The handler throws: nack(message, false, false), the message is gone.
Throw(q, i) ==
    /\ Fault("drops")
    /\ taken' = [taken EXCEPT ![q] = RemoveAt(@, i)]
    /\ UNCHANGED <<log, unsent, sent, wire, queue, arrived, handled, rooms, joined, inbox>>

-----------------------------------------------------------------------------
(* The gateway in the api *)

\* Mutant of RoomsOf: the room all twice.
TwiceAll(d) == <<"all", "all", log[d].segment>>

\* publish(event): one emit to the room all, one to the room of the segment.
RoomsOf(d) == <<"all", log[d].segment>>

\* What a socket in the rooms in joined receives of delta d.
Copies(d, in) ==
    [i \in 1..Cardinality({k \in DOMAIN RoomsOf(d) : RoomsOf(d)[k] \in in}) |-> d]

\* Mutant of Publishing: the handler waits for something before it publishes.
PublishingLater == {1, 2}

\* The place in the queue of the delivery that publishes next: the handler does not
\* wait, deliveries are published as they come.
Publishing == {1}

\* onSegmentDelta: publish; its ack (Finish) reaches the broker later.
Forward ==
    \E i \in Publishing \intersect DOMAIN queue["ws"] :
        LET d == queue["ws"][i] IN
        /\ Len(taken["ws"]) < Prefetch
        /\ queue' = [queue EXCEPT !["ws"] = RemoveAt(@, i)]
        /\ taken' = [taken EXCEPT !["ws"] = @ \o Deliveries("ws", d)]
        /\ inbox' = [s \in Sockets |-> inbox[s] \o Copies(d, rooms[s])]
        /\ UNCHANGED <<log, unsent, sent, wire, arrived, handled, rooms, joined, used>>

Connected(s) == rooms[s] # {}

SocketStep(s, in) ==
    /\ used.sockets < MaxSocketSteps
    /\ used' = [used EXCEPT !.sockets = @ + 1]
    /\ rooms' = [rooms EXCEPT ![s] = in]
    /\ joined' = [joined EXCEPT ![s] = (IF Connected(s) THEN @ ELSE {}) \union (in \ {"all"})]
    /\ inbox' = [inbox EXCEPT ![s] = IF Connected(s) THEN @ ELSE <<>>]
    /\ UNCHANGED <<log, unsent, sent, wire, queue, taken, arrived, handled>>

\* handleConnection: the socket joins the room all.
Connect(s) == ~Connected(s) /\ SocketStep(s, {"all"})
Disconnect(s) == Connected(s) /\ SocketStep(s, {})
\* onSubscribe, onUnsubscribe.
Subscribe(s, segment) == Connected(s) /\ SocketStep(s, rooms[s] \union {segment})
Unsubscribe(s, segment) == segment \in rooms[s] /\ SocketStep(s, rooms[s] \ {segment})

-----------------------------------------------------------------------------
(* Failures *)

\* Mutant of Requeued: messages are acknowledged when they are delivered.
Forgotten(q) == queue[q]

\* The unacknowledged messages go back to the front of the queue.
Requeued(q) == [i \in DOMAIN taken[q] |-> taken[q][i][2]] \o queue[q]

\* The deliveries whose handlers had done their work when p stopped, and were not
\* acknowledged: any in the worker, all in the api, where handlers publish at once.
Unacknowledged(p) ==
    IF p = "api" THEN {Range(taken["ws"])}
    ELSE SUBSET (Range(taken["cascade"]) \union Range(taken["campaign"]))

Crash(p) ==
    /\ Fault("crashes")
    /\ \E done \in Unacknowledged(p) :
        handled' = [r \in Roles |-> [d \in Deltas |->
                       IF <<r, d>> \in done THEN handled[r][d] + 1 ELSE handled[r][d]]]
    /\ unsent' = {d \in unsent : log[d].by # p}
    /\ wire' = [wire EXCEPT ![p] = [q \in Roles |-> <<>>]]
    /\ queue' = [q \in Roles |-> IF Host(q) = p THEN Requeued(q) ELSE queue[q]]
    /\ taken' = [q \in Roles |-> IF Host(q) = p THEN <<>> ELSE taken[q]]
    /\ rooms' = IF p = "api" THEN [s \in Sockets |-> {}] ELSE rooms
    /\ UNCHANGED <<log, sent, arrived, joined, inbox>>

\* The queues are durable, the messages are not persistent.
BrokerRestart ==
    /\ Fault("restarts")
    /\ queue' = [q \in Roles |-> <<>>]
    /\ UNCHANGED <<log, unsent, sent, wire, taken, arrived, handled, rooms, joined, inbox>>

-----------------------------------------------------------------------------
(* The specification *)

\* Browsers may have connected and joined rooms before the first delta.
FeedInit ==
    /\ log = <<>> /\ unsent = {}
    /\ sent = [p \in Processes |-> <<>>]
    /\ wire = [p \in Processes |-> [q \in Roles |-> <<>>]]
    /\ queue = [q \in Roles |-> <<>>]
    /\ taken = [q \in Roles |-> <<>>]
    /\ arrived = {}
    /\ handled = [r \in Roles |-> [d \in Deltas |-> 0]]
    /\ rooms \in [Sockets -> {{}} \union {{"all"} \union segments : segments \in SUBSET Segments}]
    /\ joined = [s \in Sockets |-> rooms[s] \ {"all"}]
    /\ inbox = [s \in Sockets |-> <<>>]
    /\ used = [crashes |-> 0, restarts |-> 0, drops |-> 0, sockets |-> 0]

FeedNext ==
    \/ \E segment \in Segments, p \in Processes : RecordDelta(segment, p)
    \/ \E d \in unsent : Broadcast(d)
    \/ \E p \in Processes, q \in Roles : Arrive(p, q)
    \/ \E q \in Roles : Deliver(q) \/ \E i \in DOMAIN taken[q] : Finish(q, i) \/ Throw(q, i)
    \/ Forward
    \/ \E s \in Sockets : \/ Connect(s) \/ Disconnect(s)
                          \/ \E segment \in Segments : Subscribe(s, segment) \/ Unsubscribe(s, segment)
    \/ \E p \in Processes : Crash(p)
    \/ BrokerRestart

FeedSpec == FeedInit /\ [][FeedNext]_feedVars

-----------------------------------------------------------------------------
(* Properties *)

Times(d, seq) == Cardinality({i \in DOMAIN seq : seq[i] = d})

\* Two deltas of one process reach a connection in the order in which the process has
\* broadcast them (broadcast, Transport.RMQ, onSegmentDelta, socket.io).
InBroadcastOrder ==
    \A s \in Sockets, p \in Processes :
        \A i, j \in DOMAIN inbox[s], k, l \in DOMAIN sent[p] :
            i < j /\ inbox[s][i] = sent[p][k] /\ inbox[s][j] = sent[p][l] => k <= l

\* A delta is handled once by each subscriber unless something has crashed: no message
\* runs the handler of another queue (README.md:542-548).
HandledOnce == used.crashes = 0 => \A r \in Roles, d \in Deltas : handled[r][d] <= 1

\* A message that has reached its queue is kept until it is handled, also when its process
\* crashes before it acknowledges (noAck: false): only a handler that throws and a restart
\* of the broker lose it.
KeptUntilHandled ==
    used.drops + used.restarts = 0 =>
        \A m \in arrived :
            \/ m[2] \in Range(queue[m[1]]) \/ m \in Range(taken[m[1]])
            \/ handled[m[1]][m[2]] > 0

\* A connection that never joins a segment's room receives each delta of it at most
\* once, whatever crashes (services/deltas.service.ts:47-51).
OnceInRoomAll ==
    \A s \in Sockets, d \in DOMAIN log :
        log[d].segment \notin joined[s] => Times(d, inbox[s]) <= 1
=============================================================================
