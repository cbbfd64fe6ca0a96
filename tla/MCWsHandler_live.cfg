\* Goroutine termination and the outbound queue's promise under the scheduler's fairness; Shutdown and
\* BroadcastEvent are left out (they deadlock: see MCWsHandler_NoRecursiveLock.cfg).
CONSTANTS
    Conns = {c1}
    NoConn = NoConn
    SendCap = 1
    MaxFrames = 1
    MaxEvents = 2
    AdminOps = {}
SPECIFICATION FairSpec
PROPERTY PumpsExitAfterCancel
PROPERTY RefinesOutboundQueue
CHECK_DEADLOCK FALSE
