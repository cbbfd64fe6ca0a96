\* One connection whose client sends one frame, one EmitEvent, a send queue
\* of one (so batching and a full queue both happen), and the server calling
\* Shutdown and BroadcastEvent at any moment.
CONSTANTS
    Conns = {c1}
    NoConn = NoConn
    SendCap = 1
    MaxFrames = 1
    MaxEvents = 1
    AdminOps = {"shutdown", "broadcast"}
SPECIFICATION Spec
INVARIANT TypeOK
INVARIANT DeliveredInSendOrder
INVARIANT UnregisteredIsCancelled
INVARIANT ChanClosedIsUnregistered
\* A quiescent server, its clients gone, takes no further step.
CHECK_DEADLOCK FALSE
