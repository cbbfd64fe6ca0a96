\* Every short packet: does parseName fail closed on bad offsets?
CONSTANTS
    Packets <- FuzzPackets
SPECIFICATION Spec
INVARIANT FailsClosed
\* A parse ends in "ok", "err" or "panic" and takes no further step.
CHECK_DEADLOCK FALSE
