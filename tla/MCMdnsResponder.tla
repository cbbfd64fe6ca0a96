--------------------------- MODULE MCMdnsResponder ---------------------------
(* A host with a loopback interface, an interface that is up with two     *)
(* IPv4 and two IPv6 addresses (one of each link-local), and one that is  *)
(* down; queries in both cases of the name, for A, AAAA and PTR.          *)
EXTENDS MatterServer

CONSTANTS lo4, lo6, ip4a, ip4b, ll4, ip6, ll6, down4

Test == <<"t", "e", "s", "t">>
TestLocalUpper == <<"T", "E", "S", "T", ".", "l", "o", "c", "a", "l">>
Other == <<"o", "t", "h", "e", "r", ".", "l", "o", "c", "a", "l">>

MCIfaces ==
    << [up |-> TRUE,  loopback |-> TRUE,  addrs |-> {lo4, lo6}],
       [up |-> TRUE,  loopback |-> FALSE, addrs |-> {ip4a, ip4b, ip6, ll6}],
       [up |-> FALSE, loopback |-> FALSE, addrs |-> {down4}] >>

\* The same host with an IPv4 link-local (169.254/16) address as well.
MCIfacesLinkLocal4 ==
    [MCIfaces EXCEPT ![2].addrs = @ \cup {ll4}]

MCV4 == {lo4, ip4a, ip4b, ll4, down4}
MCLoopback == {lo4, lo6}
MCLinkLocal == {ll4, ll6}

Query(resp, op, rc, qs0) ==
    [Response |-> resp, Opcode |-> op, Rcode |-> rc, Questions |-> qs0]
Qn(n, t) == [Name |-> n, Type |-> t, Class |-> 1]

MCPackets ==
    { Garbage, Looping,
      Query(FALSE, 0, 0, << Qn(TestLocalUpper, TypeA) >>),
      Query(FALSE, 0, 0, << Qn(Test \o Local, TypeAAAA), Qn(Test \o Local, 12) >>),
      Query(FALSE, 0, 0, << Qn(Other, TypeA) >>),
      Query(FALSE, 0, 0, << >>),
      Query(TRUE,  0, 0, << Qn(Test \o Local, TypeA) >>),
      Query(FALSE, 4, 0, << Qn(Test \o Local, TypeA) >>),
      Query(FALSE, 0, 3, << Qn(Test \o Local, TypeA) >>) }

\* What the sources may set: nothing (all defaults), mDNS disabled with a
\* Bluetooth adapter given, and a port validate refuses.
MCInputs ==
    { [k \in {} |-> 0],
      [mdnsEnabled |-> FALSE, adapter |-> 0],
      [port |-> 0] }

\* node_id values as encoding/json decodes them: a number (float64), a
\* string, or a boolean.
Num(n) == [t |-> "number", n |-> n, s |-> <<>>]
Str(str) == [t |-> "string", n |-> 0, s |-> str]
JsonTrue == [t |-> "bool", n |-> 0, s |-> <<>>]

\* Storage holds node 1.  Commands: the four without arguments and a known
\* APICommand the switch has no case for; get_node with no node_id, the
\* stored number, and strings with each sign and with a non-digit;
\* ping_node (through the same parseNodeID) with an unknown number, a
\* plain string, a bare sign and a boolean.
MCStoredNodes == {1}
MCCommands ==
    { [command |-> c, args |-> <<>>] :
          c \in {"server_info", "get_nodes", "diagnostics", "start_listening",
                 "commission_with_code", "get_node"} }
    \cup { [command |-> "get_node", args |-> [node_id |-> v]] :
            v \in {Num(1), Str(<<"+", "1">>), Str(<<"-", "1">>), Str(<<"1", "x">>)} }
    \cup { [command |-> "ping_node", args |-> [node_id |-> v]] :
            v \in {Num(2), Str(<<"1">>), Str(<<"-">>), JsonTrue} }
=============================================================================
