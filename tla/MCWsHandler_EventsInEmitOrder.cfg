CONSTANTS
    Conns = {c1}
    NoConn = NoConn
    SendCap = 1
    MaxFrames = 1
    MaxEvents = 2
    AdminOps = {}
SPECIFICATION Spec
INVARIANT EventsInEmitOrder
CHECK_DEADLOCK FALSE
