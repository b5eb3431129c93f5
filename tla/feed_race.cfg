SPECIFICATION MessagingSpec
CONSTANTS
    Customers = {c1, c2}
    Window = 3
    None = None
    MaxEvents = 6
    Segments = {a}
    Sockets = {s}
    Prefetch = 1
    MaxDeltas = 2
    MaxFaults = 1
    MaxSocketSteps = 1
INVARIANT QuietBeforePass
INVARIANT WaitingIsScheduled
INVARIANT HandledOnce
INVARIANT InBroadcastOrder
INVARIANT KeptUntilHandled
INVARIANT OnceInRoomAll
PROPERTY NoEarlierPassAfterStop
PROPERTY QuietIsEvaluated
\* The events, deltas and faults are used up.
CHECK_DEADLOCK FALSE
