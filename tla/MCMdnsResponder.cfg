\* Configured hostname "test": the zone answers for "test.local".  The
\* responder runs inside MatterServer's Run.  Each recv goroutine reads one
\* packet, which falls before or after Shutdown sets the flag.
CONSTANTS
    lo4 = lo4  lo6 = lo6  ip4a = ip4a  ip4b = ip4b  ll4 = ll4  ip6 = ip6
    ll6 = ll6  down4 = down4  Garbage = Garbage  Looping = Looping
    ConfigHostname <- Test
    Ifaces <- MCIfaces
    V4 <- MCV4
    Loopback <- MCLoopback
    LinkLocal <- MCLinkLocal
    Packets <- MCPackets
    MaxReads = 1
    Inputs <- MCInputs
    StoredNodes <- MCStoredNodes
    Commands <- MCCommands
SPECIFICATION ServerSpec
INVARIANT TypeOK
INVARIANT ResponsesFollowZonePolicy
INVARIANT FailedStartListensNowhere
PROPERTY RecvExitsAfterShutdown
INVARIANT CleanReturnIsQuiet
PROPERTY CancelEndsRun
INVARIANT RepliesFollowContract
\* Run returns, or the process exits on a failed Load, and stays so.
CHECK_DEADLOCK FALSE
