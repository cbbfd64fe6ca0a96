----------------------------- MODULE Dispatcher -----------------------------
(***************************************************************************)
(* The command dispatcher of internal/server: HandleCommand and the six    *)
(* handlers it switches to, with parseNodeID and the strconv.ParseInt that *)
(* json.Number.Int64 calls for a node_id sent as a string.                 *)
(*                                                                         *)
(* The handlers read the node registry (s.nodes) and the server info and   *)
(* change nothing, so each is an operator of them and of the command.  A   *)
(* node record is abstracted to its NodeID: the copies the handlers return *)
(* hold the record's contents, and a set of IDs is what the reply lists.   *)
(* A command's args are the JSON object encoding/json decoded into         *)
(* map[string]interface{}, so a node_id is a float64 (a JSON number), a    *)
(* string, or another JSON type; a number is kept integral and below 2^53 *)
(* here, where int(float64) is exact.  A string is a sequence of bytes.    *)
(***************************************************************************)
EXTENDS Integers, Sequences, TLC

-----------------------------------------------------------------------------
(* models/types.go                                                         *)

\* The APICommand constants.
APICommand ==
    { "start_listening", "diagnostics", "server_info", "get_nodes", "get_node",
      "commission_with_code", "commission_on_network", "set_wifi_credentials",
      "set_thread_dataset", "open_commissioning_window", "discover",
      "interview_node", "device_command", "remove_node", "get_vendor_names",
      "read_attribute", "write_attribute", "ping_node", "get_node_ip_addresses",
      "import_test_node", "check_node_update", "update_node",
      "set_default_fabric_label", "set_acl_entry", "set_node_binding" }

\* A handler's (interface{}, error): an error, or a result carrying the
\* server info, a list of nodes, or a NodePingResult's "reachable".
NoInfo == [fabric |-> 0, bluetooth |-> FALSE]
Result(info, nodes, reachable) ==
    [ok |-> TRUE, info |-> info, nodes |-> nodes, reachable |-> reachable]
Failure == [ok |-> FALSE, info |-> NoInfo, nodes |-> {}, reachable |-> FALSE]

-----------------------------------------------------------------------------
(* strconv.ParseInt(s, 10, 64), which json.Number.Int64 is.  The strings  *)
(* are a few bytes long, so its int64 range error cannot arise.            *)

DigitVal == "0" :> 0 @@ "1" :> 1 @@ "2" :> 2 @@ "3" :> 3 @@ "4" :> 4 @@
            "5" :> 5 @@ "6" :> 6 @@ "7" :> 7 @@ "8" :> 8 @@ "9" :> 9

Parsed(n) == [ok |-> TRUE, n |-> n]
Invalid == [ok |-> FALSE, n |-> 0]

\* ParseUint's loop: n = n*10 + digit; any other byte is a syntax error.
RECURSIVE ParseDigits(_, _)
ParseDigits(s, n) ==
    IF s = <<>> THEN Parsed(n)
    ELSE IF Head(s) \notin DOMAIN DigitVal THEN Invalid
    ELSE ParseDigits(Tail(s), n * 10 + DigitVal[Head(s)])

\* An empty string is a syntax error; one leading '+' or '-' is taken off,
\* and what follows must be a non-empty ParseUint.
ParseInt(s) ==
    IF s = <<>> THEN Invalid
    ELSE LET body == IF Head(s) \in {"+", "-"} THEN Tail(s) ELSE s
             u == IF body = <<>> THEN Invalid ELSE ParseDigits(body, 0)
         IN IF u.ok /\ Head(s) = "-" THEN Parsed(-u.n) ELSE u

-----------------------------------------------------------------------------
(* internal/server                                                         *)

\* parseNodeID: missing is an error; a float64 is truncated by int(t); a
\* string goes through json.Number's Int64; any other type is an error.
\* (The int, int64 and json.Number cases need a decoder with UseNumber or
\* a Go caller; the WebSocket reader produces none of them.)
ParseNodeID(args) ==
    IF "node_id" \notin DOMAIN args THEN Invalid
    ELSE LET v == args["node_id"]
         IN CASE v.t = "number" -> Parsed(v.n)
              [] v.t = "string" -> ParseInt(v.s)
              [] OTHER          -> Invalid

HandleServerInfo(info) == Result(info, {}, FALSE)

\* Under RLock, a copy of every node in the map.
HandleGetNodes(registry) == Result(NoInfo, registry, FALSE)

\* parseNodeID; under RLock the lookup; "node %d not found"; a copy.
HandleGetNode(registry, args) ==
    LET id == ParseNodeID(args)
    IN IF id.ok /\ id.n \in registry THEN Result(NoInfo, {id.n}, FALSE)
                                      ELSE Failure

\* Info, the node copies of handleGetNodes, and an empty event list.
HandleServerDiagnostics(registry, info) == Result(info, registry, FALSE)

HandleStartListening(registry) == HandleGetNodes(registry)

\* Mutant: the ping answers reachable without looking the node up.
HandlePingNodeNoLookup(registry, args) ==
    IF ParseNodeID(args).ok THEN Result(NoInfo, {}, TRUE) ELSE Failure

\* parseNodeID; the lookup under RLock; NodePingResult{"reachable": true}.
HandlePingNode(registry, args) ==
    LET id == ParseNodeID(args)
    IN IF id.ok /\ id.n \in registry THEN Result(NoInfo, {}, TRUE)
                                      ELSE Failure

\* The switch on models.APICommand(cmd.Command); default: unknown command.
HandleCommand(registry, info, cmd) ==
    CASE cmd.command = "server_info"     -> HandleServerInfo(info)
      [] cmd.command = "get_nodes"       -> HandleGetNodes(registry)
      [] cmd.command = "get_node"        -> HandleGetNode(registry, cmd.args)
      [] cmd.command = "diagnostics"     -> HandleServerDiagnostics(registry, info)
      [] cmd.command = "start_listening" -> HandleStartListening(registry)
      [] cmd.command = "ping_node"       -> HandlePingNode(registry, cmd.args)
      [] OTHER                           -> Failure

-----------------------------------------------------------------------------
(* The contract of the dispatcher in the specification (section 4.4),      *)
(* written from its text rather than from the code.                        *)

\* The closed set of commands; every other name is an unknown command.
ContractCommands ==
    {"server_info", "get_nodes", "get_node", "diagnostics", "start_listening",
     "ping_node"}

\* A numeric string: an optional sign, then one or more decimal digits.
NumericString(s) ==
    \E i \in 0..1 :
        /\ Len(s) > i
        /\ i = 1 => s[1] \in {"+", "-"}
        /\ \A j \in (i + 1)..Len(s) : s[j] \in DOMAIN DigitVal

\* The integer such a string denotes: the number whose decimal digits,
\* read from the right, are those of the string, negated after a '-'.
StringValue(s) ==
    LET ds == IF s[1] \in {"+", "-"} THEN Tail(s) ELSE s
        mag == CHOOSE k \in 0..(10^Len(ds) - 1) :
                   \A j \in 1..Len(ds) :
                       (k \div 10^(Len(ds) - j)) % 10 = DigitVal[ds[j]]
    IN IF s[1] = "-" THEN -mag ELSE mag

\* node_id is given, and is a number or a numeric string.
Coercible(args) ==
    /\ "node_id" \in DOMAIN args
    /\ \/ args["node_id"].t = "number"
       \/ args["node_id"].t = "string" /\ NumericString(args["node_id"].s)

CoercedId(args) ==
    IF args["node_id"].t = "number" THEN args["node_id"].n
                                     ELSE StringValue(args["node_id"].s)

\* What a command must return against the registry and the server info.
ContractReply(registry, info, cmd) ==
    LET byId == cmd.command \in {"get_node", "ping_node"}
        found == Coercible(cmd.args) /\ CoercedId(cmd.args) \in registry
    IN CASE cmd.command \notin ContractCommands \/ (byId /\ ~found) -> Failure
         [] cmd.command = "get_node" /\ found ->
                Result(NoInfo, {CoercedId(cmd.args)}, FALSE)
         [] cmd.command = "ping_node" /\ found -> Result(NoInfo, {}, TRUE)
         [] cmd.command = "server_info"     -> Result(info, {}, FALSE)
         [] cmd.command = "get_nodes"       -> Result(NoInfo, registry, FALSE)
         [] cmd.command = "start_listening" -> Result(NoInfo, registry, FALSE)
         [] cmd.command = "diagnostics"     -> Result(info, registry, FALSE)

=============================================================================
