CONSTANTS
    Conns = {c1}
    NoConn = NoConn
    SendCap = 1
    MaxFrames = 1
    MaxEvents = 1
    AdminOps = {"shutdown", "broadcast"}
SPECIFICATION Spec
INVARIANT NoRecursiveLock
CHECK_DEADLOCK FALSE
