\* As MCMdnsResponder.cfg, with an IPv4 link-local address on the host.
\* Like mdns, the responder runs inside MatterServer's Run and each recv
\* goroutine reads one packet.
CONSTANTS
    lo4 = lo4  lo6 = lo6  ip4a = ip4a  ip4b = ip4b  ll4 = ll4  ip6 = ip6
    ll6 = ll6  down4 = down4  Garbage = Garbage  Looping = Looping
    ConfigHostname <- Test
    Ifaces <- MCIfacesLinkLocal4
    V4 <- MCV4
    Loopback <- MCLoopback
    LinkLocal <- MCLinkLocal
    Packets <- MCPackets
    MaxReads = 1
    Inputs <- MCInputs
    StoredNodes <- MCStoredNodes
    Commands <- MCCommands
SPECIFICATION ServerSpec
INVARIANT ResponsesFollowZonePolicy
\* Run returns, or the process exits on a failed Load, and stays so.
CHECK_DEADLOCK FALSE
