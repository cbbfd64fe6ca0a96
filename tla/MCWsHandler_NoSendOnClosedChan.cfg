CONSTANTS
    Conns = {c1}
    NoConn = NoConn
    SendCap = 1
    MaxFrames = 1
    MaxEvents = 1
    AdminOps = {}
SPECIFICATION Spec
INVARIANT NoSendOnClosedChan
CHECK_DEADLOCK FALSE
