---------------------------- MODULE MdnsResponder ----------------------------
(***************************************************************************)
(* The mDNS responder of internal/mdns/server.go with the MatterZone of    *)
(* internal/mdns/zone.go: Start, the two recv goroutines, parsePacket,    *)
(* handleQuery and sendResponse, and Shutdown.                             *)
(*                                                                         *)
(* A packet is the dnsMessage parseDNSMessage makes of it (DnsParse checks *)
(* the parser), Garbage when it fails, or Looping when it never returns  *)
(* (a pointer cycle, DnsParse's "hang").  Strings are sequences of        *)
(* one-character strings; an IP address is a model value whose kind is    *)
(* given by the sets V4, Loopback and LinkLocal.                           *)
(***************************************************************************)
EXTENDS Naturals, Sequences, SequencesExt, FiniteSets

CONSTANTS
    ConfigHostname, \* the hostname passed to NewMatterZone
    Ifaces,         \* net.Interfaces(): sequence of [up, loopback, addrs]
    V4,             \* addresses with ip.To4() != nil
    Loopback,       \* addresses with ip.IsLoopback()
    LinkLocal,      \* addresses with ip.IsLinkLocalUnicast()
    Packets,        \* parsed packets that may arrive, Garbage and Looping
    Garbage,        \* model value: a packet parseDNSMessage rejects
    Looping,        \* model value: a packet parseName loops on forever
    MaxReads        \* packets each recv goroutine reads (bound)

TypeA == 1
TypeAAAA == 28
Nets == {"v4", "v6"}

-----------------------------------------------------------------------------
(* zone.go                                                                  *)

Local == <<".", "l", "o", "c", "a", "l">>
DefaultHostname == <<"m", "a", "t", "t", "e", "r", "-", "s", "e", "r", "v", "e", "r">>

\* NewMatterZone: default name, then append ".local" unless the name ends
\* with it (strings.HasSuffix is case-sensitive).
ZoneHostname ==
    LET h == IF ConfigHostname = << >> THEN DefaultHostname ELSE ConfigHostname
    IN  IF IsSuffix(Local, h) THEN h ELSE h \o Local

\* updateIPs: the addresses of up, non-loopback interfaces that are neither
\* loopback nor link-local, in interface order.
ZoneIPs ==
    FlattenSeq([i \in DOMAIN Ifaces |->
        IF Ifaces[i].up /\ ~Ifaces[i].loopback
           THEN SetToSeq({ip \in Ifaces[i].addrs : ip \notin Loopback \cup LinkLocal})
           ELSE << >>])

\* strings.ToLower on the letters the model's names use.
Upper == ("T" :> "t") @@ ("E" :> "e") @@ ("S" :> "s") @@ ("L" :> "l")
         @@ ("O" :> "o") @@ ("C" :> "c") @@ ("A" :> "a")
ToLower(s) == [i \in DOMAIN s |-> IF s[i] \in DOMAIN Upper THEN Upper[s[i]] ELSE s[i]]

\* Mutant: a Records whose switch answers every query type with the A list.
RecordsAnyType(q) ==
    LET ips == IF ToLower(q.Name) # ToLower(ZoneHostname) THEN << >>
               ELSE CASE q.Type = TypeAAAA -> SelectSeq(ZoneIPs, LAMBDA ip :
                                                 ip \notin V4 /\ ip \notin Loopback)
                      [] OTHER             -> SelectSeq(ZoneIPs, LAMBDA ip : ip \in V4)
    IN  [i \in DOMAIN ips |-> [Name |-> ZoneHostname, Type |-> q.Type, Ip |-> ips[i]]]

\* Mutant: a Records that compares names without lower-casing them.
RecordsCaseSensitive(q) ==
    LET ips == IF q.Name # ZoneHostname THEN << >>
               ELSE CASE q.Type = TypeA    -> SelectSeq(ZoneIPs, LAMBDA ip : ip \in V4)
                      [] q.Type = TypeAAAA -> SelectSeq(ZoneIPs, LAMBDA ip :
                                                 ip \notin V4 /\ ip \notin Loopback)
                      [] OTHER             -> << >>
    IN  [i \in DOMAIN ips |-> [Name |-> ZoneHostname, Type |-> q.Type, Ip |-> ips[i]]]

\* MatterZone.Records: nothing unless the lower-cased names are equal; for
\* A every IPv4 address, for AAAA every other non-loopback address.
Records(q) ==
    LET ips == IF ToLower(q.Name) # ToLower(ZoneHostname) THEN << >>
               ELSE CASE q.Type = TypeA    -> SelectSeq(ZoneIPs, LAMBDA ip : ip \in V4)
                      [] q.Type = TypeAAAA -> SelectSeq(ZoneIPs, LAMBDA ip :
                                                 ip \notin V4 /\ ip \notin Loopback)
                      [] OTHER             -> << >>
    IN  [i \in DOMAIN ips |-> [Name |-> ZoneHostname, Type |-> q.Type, Ip |-> ips[i]]]

-----------------------------------------------------------------------------
(* server.go: handleQuery's answers for one message.                       *)

\* for _, q := range msg.Questions { ... s.config.Zone.Records(question) ... }
Answers(msg) == FlattenSeq([i \in DOMAIN msg.Questions |-> Records(msg.Questions[i])])

\* parsePacket: drop parse errors, responses, opcode # 0 and rcode # 0;
\* handleQuery: drop messages without questions or answers.
Answered(p) ==
    /\ p # Garbage
    /\ ~p.Response /\ p.Opcode = 0 /\ p.Rcode = 0
    /\ Len(p.Questions) > 0
    /\ Len(Answers(p)) > 0

VARIABLES
    shutdown,   \* s.shutdown (atomic.Bool)
    sock,       \* sock[n]: "none", "open" or "closed" (ipv4conn, ipv6conn)
    start,      \* Start's progress: "idle", "v6", "ok", "failed"
    rpc,        \* rpc[n]: recv goroutine on net n: "none", "loop", "read",
                \* "done", or "stuck" in a parse that never returns
    reads,      \* reads[n]: packets the goroutine has read
    stop,       \* Shutdown's progress: "idle", "v4", "v6", "done"
    stopErrs,   \* errors Shutdown collected
    handled     \* history: the <<net, packet, answers, replied>> of packets read

vars == <<shutdown, sock, start, rpc, reads, stop, stopErrs, handled>>

Init ==
    /\ shutdown = FALSE
    /\ sock = [n \in Nets |-> "none"]
    /\ start = "idle"
    /\ rpc = [n \in Nets |-> "none"]
    /\ reads = [n \in Nets |-> 0]
    /\ stop = "idle"
    /\ stopErrs = 0
    /\ handled = {}

-----------------------------------------------------------------------------
(* Start: setupIPv4, setupIPv6 (closing ipv4conn if it fails), then one  *)
(* recv goroutine per socket.                                             *)

StartIPv4 ==
    /\ start = "idle"
    /\ \/ /\ sock' = [sock EXCEPT !["v4"] = "open"]
          /\ start' = "v6"
       \/ /\ start' = "failed"
          /\ UNCHANGED sock
    /\ UNCHANGED <<shutdown, rpc, reads, stop, stopErrs, handled>>

\* Mutant: the IPv6 failure path returns without closing ipv4conn.
StartIPv6NoCleanup ==
    /\ start = "v6"
    /\ \/ /\ sock' = [sock EXCEPT !["v6"] = "open"]
          /\ rpc' = [n \in Nets |-> "loop"]
          /\ start' = "ok"
       \/ /\ start' = "failed"
          /\ UNCHANGED <<sock, rpc>>
    /\ UNCHANGED <<shutdown, reads, stop, stopErrs, handled>>

StartIPv6 ==
    /\ start = "v6"
    /\ \/ /\ sock' = [sock EXCEPT !["v6"] = "open"]
          /\ rpc' = [n \in Nets |-> "loop"]
          /\ start' = "ok"
       \/ /\ sock' = [sock EXCEPT !["v4"] = "closed"]
          /\ start' = "failed"
          /\ UNCHANGED rpc
    /\ UNCHANGED <<shutdown, reads, stop, stopErrs, handled>>

-----------------------------------------------------------------------------
(* recv(conn): for !s.shutdown.Load() { ReadFromUDP with a 1s deadline }. *)

\* Mutant: a loop that never looks at the flag.
RecvCheckIgnoresFlag(n) ==
    /\ rpc[n] = "loop"
    /\ rpc' = [rpc EXCEPT ![n] = "read"]
    /\ UNCHANGED <<shutdown, sock, start, reads, stop, stopErrs, handled>>

RecvCheck(n) ==
    /\ rpc[n] = "loop"
    /\ rpc' = [rpc EXCEPT ![n] = IF shutdown THEN "done" ELSE "read"]
    /\ UNCHANGED <<shutdown, sock, start, reads, stop, stopErrs, handled>>

\* The read deadline passes, or the socket is closed: continue.
RecvTimeout(n) ==
    /\ rpc[n] = "read"
    /\ rpc' = [rpc EXCEPT ![n] = "loop"]
    /\ UNCHANGED <<shutdown, sock, start, reads, stop, stopErrs, handled>>

\* A packet arrives on the open socket and parsePacket handles it; the
\* response write fails once the socket is closed.  On a Looping packet
\* parsePacket never returns, and the goroutine reads nothing more.
RecvPacket(n) ==
    /\ rpc[n] = "read"
    /\ sock[n] = "open"
    /\ reads[n] < MaxReads
    /\ reads' = [reads EXCEPT ![n] = @ + 1]
    /\ \E p \in Packets :
          IF p = Looping
             THEN /\ rpc' = [rpc EXCEPT ![n] = "stuck"]
                  /\ UNCHANGED handled
             ELSE /\ handled' = handled \cup {<<n, p, IF Answered(p) THEN Answers(p)
                                                               ELSE << >>,
                                                Answered(p)>>}
                  /\ rpc' = [rpc EXCEPT ![n] = "loop"]
    /\ UNCHANGED <<shutdown, sock, start, stop, stopErrs>>

-----------------------------------------------------------------------------
(* Shutdown: set the flag, then close each non-nil socket, collecting     *)
(* errors (closing a closed socket is an error).                           *)

ShutdownFlag ==
    /\ stop = "idle"
    /\ shutdown' = TRUE
    /\ stop' = "v4"
    /\ UNCHANGED <<sock, start, rpc, reads, stopErrs, handled>>

\* if conn != nil { conn.Close() }
CloseSock(n, next) ==
    /\ sock' = IF sock[n] = "none" THEN sock ELSE [sock EXCEPT ![n] = "closed"]
    /\ stopErrs' = IF sock[n] = "closed" THEN stopErrs + 1 ELSE stopErrs
    /\ stop' = next

ShutdownClose4 ==
    /\ stop = "v4"
    /\ CloseSock("v4", "v6")
    /\ UNCHANGED <<shutdown, start, rpc, reads, handled>>

ShutdownClose6 ==
    /\ stop = "v6"
    /\ CloseSock("v6", "done")
    /\ UNCHANGED <<shutdown, start, rpc, reads, handled>>

-----------------------------------------------------------------------------
\* Server.Run starts the responder before serving; Server.shutdown stops it
\* after Run has started it.
Next ==
    \/ StartIPv4 \/ StartIPv6
    \/ \E n \in Nets : RecvCheck(n) \/ RecvTimeout(n) \/ RecvPacket(n)
    \/ start \in {"ok", "failed"} /\ (ShutdownFlag \/ ShutdownClose4 \/ ShutdownClose6)

\* Start runs to its end; each recv goroutine keeps running, and its read
\* returns within the 1s deadline; Shutdown, once called, runs to its end.
Fairness ==
    /\ WF_vars(StartIPv4) /\ WF_vars(StartIPv6)
    /\ \A n \in Nets : WF_vars(RecvCheck(n)) /\ WF_vars(RecvTimeout(n))
    /\ WF_vars(ShutdownClose4) /\ WF_vars(ShutdownClose6)

Spec == Init /\ [][Next]_vars /\ Fairness

-----------------------------------------------------------------------------
(* Properties.                                                             *)

\* The addresses the host has on its interfaces that are up.
KnownIPs == UNION {Ifaces[i].addrs : i \in {j \in DOMAIN Ifaces : Ifaces[j].up}}

ZoneRecord == [Name : {ZoneHostname}, Type : {TypeA, TypeAAAA}, Ip : KnownIPs]

TypeOK ==
    /\ shutdown \in BOOLEAN
    /\ sock \in [Nets -> {"none", "open", "closed"}]
    /\ start \in {"idle", "v6", "ok", "failed"}
    /\ rpc \in [Nets -> {"none", "loop", "read", "done", "stuck"}]
    /\ reads \in [Nets -> 0..MaxReads]
    /\ stop \in {"idle", "v4", "v6", "done"} /\ stopErrs \in 0..2
    /\ \A h \in handled :
          /\ h[1] \in Nets /\ h[2] \in Packets /\ h[4] \in BOOLEAN
          /\ \A j \in DOMAIN h[3] : h[3][j] \in ZoneRecord

\* The spec (4.5, zone matching): the answers to one question, written from
\* the spec rather than the code: a case-insensitive exact match of the
\* name against the hostname (".local" appended once when missing); for A
\* every known non-loopback IPv4 address, for AAAA every known
\* non-loopback, non-link-local IPv6 address, otherwise none.
SpecAnswerIPs(q) ==
    IF ToLower(q.Name) # ToLower(ZoneHostname) THEN {}
    ELSE CASE q.Type = TypeA    -> (KnownIPs \cap V4) \ Loopback
           [] q.Type = TypeAAAA -> (KnownIPs \ V4) \ (Loopback \cup LinkLocal)
           [] OTHER             -> {}

\* The spec (4.5): a packet gets a reply exactly when it parses, is a
\* standard query without a response code, and some question matches; the
\* reply answers each question with one record per address of SpecAnswerIPs.
ResponsesFollowZonePolicy ==
    \A h \in handled :
        LET p == h[2]  ans == h[3] IN
        /\ h[4] <=> /\ p # Garbage
                             /\ ~p.Response /\ p.Opcode = 0 /\ p.Rcode = 0
                             /\ \E q \in ToSet(p.Questions) : SpecAnswerIPs(q) # {}
        /\ h[4] =>
            /\ Len(ans) = MapThenSumSet(LAMBDA j : Cardinality(SpecAnswerIPs(p.Questions[j])),
                                        DOMAIN p.Questions)
            /\ \A k \in DOMAIN ans : \E j \in DOMAIN p.Questions :
                  /\ ans[k].Type = p.Questions[j].Type
                  /\ ans[k].Ip \in SpecAnswerIPs(p.Questions[j])
            /\ \A j \in DOMAIN p.Questions : \A ip \in SpecAnswerIPs(p.Questions[j]) :
                  \E k \in DOMAIN ans : ans[k].Ip = ip /\ ans[k].Type = p.Questions[j].Type

\* Start fails as a whole: when setupIPv6 fails, the IPv4 socket it opened
\* is closed again and no recv goroutine runs.
FailedStartListensNowhere ==
    start = "failed" => \A n \in Nets : sock[n] # "open" /\ rpc[n] = "none"

\* The spec (4.5): the flag is checked on every iteration and the read
\* deadline is 1s, so after Shutdown both recv goroutines return, whether
\* their read was blocked, timed out or failed on the closed socket.  The
\* claim is for goroutines whose packets all parse to an end: one that read
\* a Looping packet never gets back to the flag (DnsParse's FailsClosed
\* shows such packets exist), and it stays "stuck".
RecvExitsAfterShutdown ==
    shutdown ~> \A n \in Nets : rpc[n] \in {"none", "done", "stuck"}

=============================================================================
