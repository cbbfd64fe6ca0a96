# TLA+ models of go-matter-server

This directory holds TLA+ specifications of the Go Matter server in `src/`,
together with the TLC configurations that check them. Each module is translated
from the Go source. `PROJECT.json` maps every definition to the lines it models.

## 1. The system and its parts

| Component | Source | State it keeps | Operations |
|---|---|---|---|
| WebSocket session handler | `src/internal/websocket/handler.go` | `Handler.connections` behind `connectionsMu` (RWMutex); per `Connection`: `send` (a channel of 256), `ctx`/`cancel`, `unsubscribe`, the socket | `HandleWebSocket`, `readPump`, `writePump`, `handleCommand`, `handleEvent`, `sendMessage`, `sendError`, `close`, `Shutdown`, `BroadcastEvent` |
| Event bus | `src/unnamed/part_006` (package server) | `eventCallbacks` behind `eventMu` | `Subscribe` (which returns an unsubscribe closure), `EmitEvent` (one goroutine per callback) |
| Command dispatcher | `src/unnamed/part_006` | `nodes` behind `nodesMu`, `serverInfo` | `HandleCommand`, with `server_info`, `get_nodes`, `get_node`, `diagnostics`, `start_listening`, `ping_node`; `parseNodeID` |
| Server lifecycle and HTTP API | `src/unnamed/part_006` | `httpServer`, `wsHandler`, `mdnsServer`, `storage` | `New`, `Run`, `shutdown`, `loadNodes`, HTTP handlers |
| mDNS responder | `src/internal/mdns/server.go` | `shutdown` flag (atomic), the IPv4 and IPv6 sockets | `Start`, `Shutdown`, `recv`, `parsePacket`, `handleQuery`, `sendResponse` |
| DNS wire codec | `src/internal/mdns/server.go` | none (pure functions) | `parseDNSMessage`, `parseName`, `encodeDNSMessage`, `encodeName`, `encodeTXT`, `encodeSRV` |
| mDNS zone | `src/internal/mdns/zone.go` | hostname and IP list | `NewMatterZone`, `Records`, `updateIPs` |
| JSON storage | `src/internal/server/server_test.go` lines 436-777 (package storage) | in-memory maps of nodes, vendors and settings, behind one RWMutex; JSON files on disk | `Start`, `Stop`, `Sync`, `Get*`, `Save*`, `Delete*`, `saveJSONFile` (write a tmp file, then rename), `BackupData` |
| Config, logger, models | `internal/config/config.go`, the logger in `config_test.go` lines 618-1130, `internal/models/types.go` | none that changes at run time | loading, formatting, types |
| Bluetooth manager | `internal/bluetooth/manager.go` | a stub: `IsAvailable` is false | `IsEnabled`, `Start`, `Stop` |
| CLI, Docker, scripts | `src/unnamed/part_003`, parts 000-002 and 008-009 | — | — |

### How the parts interact

- `HandleWebSocket` subscribes each session to the event bus, registers it in
  `connections`, writes the server info and starts `readPump` and `writePump`.
- `readPump` runs `handleCommand` in a new goroutine for every frame.
  `handleCommand` calls the dispatcher (`Server.HandleCommand`), then
  `sendMessage`.
- `EmitEvent` calls every subscribed `handleEvent` in a goroutine of its own.
  Each of those also calls `sendMessage`.
- `sendMessage` puts the frame into `c.send`. `writePump` drains it and
  batches the frames it finds.
- `close()` can be reached from `readPump`, `writePump`, `HandleWebSocket`,
  `Handler.Shutdown` and `BroadcastEvent`. It unsubscribes, cancels, unregisters,
  closes `c.send` from a spawned goroutine, and closes the socket.
- `Server.shutdown` stops HTTP, then the WebSocket handler, Bluetooth and mDNS,
  and only then emits `server_shutdown`.

### What is hard here

Everything in the session handler runs concurrently, and nothing there is
serialised except `connectionsMu` and `eventMu`. The hard behaviours are:

- the check-then-act in `close()`;
- a send racing the close of `c.send`;
- a lock re-taken under itself;
- per-event goroutines that reorder events;
- the request context, which net/http cancels when the handler returns.

In the DNS codec the hard parts are the boundaries: a compression pointer at
the end of a packet, pointer loops, and off-by-one length checks. In storage
they are partial failure (memory updated, file not written) and a crash
between writing the tmp file and renaming it. `PROJECT.json` lists every hazard
at its line.

## 2. Modules

### `WsHandler` (and `MCWsHandler`)

This module models the session handler together with the event bus. Every
goroutine is a process:

- `hs(c)`: HandleWebSocket;
- `rp(c)`: readPump;
- `wp(c)`: writePump;
- `SD`: the goroutine running Handler.Shutdown;
- `BC`: the goroutine running BroadcastEvent;
- `senders`: the set of goroutines inside sendMessage, one per
  handleCommand/handleEvent/sendError call;
- `chanClosers`: the goroutines close() spawns.

`pc[g]` is the goroutine's position in the code. `close()` is a procedure with
program counters `ClosePC`, and `tgt[g]` is the connection it closes.

The lock is modelled as `wlock`/`rlock`. It is not reentrant: an action that
takes it requires `LockFree`. The channel `c.send` is `queue[c]`, bounded by
`SendCap`. Once it is closed (`chanClosed`), sending on it panics (`crashed`).

Two ghost histories carry the properties:

- `sentLog[c]`: everything ever put into `c.send`;
- `delivered[c]`: everything written to the client.

Messages are abstract: `<<"res", j>>` is the response to the j-th frame,
`<<"ev", k>>` is the k-th event, and `<<"bc", 0>>` is the broadcast.

net/http cancels `r.Context()` when `ServeHTTP` returns, including for
hijacked connections. The session's ctx is derived from it (handler.go:78), so
`HandlerReturn` sets `cancelled`.

### `DnsWire`

The pure byte functions of the codec in `internal/mdns/server.go`: the
header fields of `parseDNSMessage` (379-388) as `ParseHeader`,
`encodeDNSMessage` as `EncodeHeader`/`EncodeQuestion`/`EncodeRecord`/
`EncodeMessage`, and `encodeName` as `EncodeName`. A Go `[]byte` or string
is a TLA+ sequence of byte values; Go index `i` is element `i + 1`.
`byte(x)` is `x % 256`, and the bit operations come from `Bitwise`.
`strings.Split` and `strings.Join` on `.` are the recursive `SplitDots` and
`JoinDots`.

It also holds the record data encoders: `encodeRecordData` (321-335) as
`EncodeRecordData`, `encodeTXT` as `EncodeTXT` and `encodeSRV` as
`EncodeSRV`. A `net.IP` is its bytes, 4 or 16 of them, and `To4`/`To16` do
what the standard library does, including the `::ffff:a.b.c.d` form of an
IPv4 address. `Record(ips, names, strs)` is the set of Go record values
(the types `A`, `AAAA`, `PTR`, `TXT` and `SRV`, lines 46-114).
`RecordType` holds the `dnsType*` constants.

`MCDnsParse` adds `AnswerPackets`: responses as `handleQuery` builds them,
with one question and one answer. The answer's data is `EncodeRecordData`
of a record case. Some cases hold an IPv4 address in 4-byte form and some
in 16-byte form; the TXT cases have strings of 0, 255, 256 and 300 bytes.
The parser reads only the question section. `RecordDataDecodes` reads the
answer record that starts where the parser stopped, using decoders written
from RFC 1035 and RFC 2782 (`NameLength`, `ReadRR`, `CharStrings`,
`Labels`, `SrvFields`), not by inverting the encoders. `ReencodeAccepted`
is about packets without an answer section, since the parser drops
answers.

### `DnsParse` (and `MCDnsParse`)

`parseDNSMessage` and `parseName` as a step machine: one action per iteration
of their loops (`QuestionLoop`, `ReadQuestion`; `NameLoopExit`,
`NameTerminator`, `NamePointer`, `NameLabel`). `buf` is the packet, `pn`
holds `parseName`'s locals (`offset`, `name`, `original`, `jumped`, and
`seen`, the pointers this call has followed), and `status` ends in `"ok"`,
`"err"`, `"panic"` or `"hang"`. `parseName`'s control flow depends only on
`offset` and `jumped`, and `jumped` stays TRUE after the first pointer. So a
call that reaches a pointer it already followed repeats the same iterations
forever, and the model ends such a parse in `"hang"`. This detection is
exact, so no bound on labels or jumps is needed. An index at or past
`len(buf)` is a Go runtime panic, which nothing in `recv` recovers. `jumps`
is a ghost history of every pointer followed, as `<<from, to>>`.

`MCDnsParse` supplies two packet sets:

- `FuzzPackets`: two 12-byte headers (QDCOUNT 1, or 2 with every flag set),
  followed by every 7-byte tail over `{0, 1, 12, 97, 192}`. That is 156,250
  packets. The bytes give a terminator, a one-byte label, the header's end
  offset, a letter and a pointer byte. Seven bytes are enough for a label, a
  terminator and a full question, or a pointer and a question.
- `RoundTripPackets`: `EncodeMessage` of every header (IDs 0, 258 and 65535;
  opcodes 0, 5 and 15; rcodes 0 and 15; all flags), of questions with the names
  `a`, `a.b`, `ab.`, `.` and `a..b`, and of three-question packets whose
  second and third names are compression pointers.
- `AnswerPackets`: see `DnsWire` above.

Every packet's parse ends, in `"hang"` when the code's never would. A
pointer to itself (`C0 0C` at offset 12) and a backward cycle (`1 'a' C0 0C`:
a label, then a pointer back to it) both reach `"hang"`, and `FailsClosed`
forbids it.

### `MdnsResponder` (and `MCMdnsResponder`)

The responder of `internal/mdns/server.go` together with `MatterZone` of
`zone.go`:

- `Start` with its two socket setups, where the IPv6 failure path closes
  the IPv4 socket;
- the two `recv` loops (`RecvCheck`, `RecvTimeout`, `RecvPacket`);
- `parsePacket`'s filters and `handleQuery` with `Records` (`Answered`);
- `Shutdown`: the flag, then closing both sockets.

Packets are already-parsed messages, because `DnsParse` models parsing.
`Garbage` stands for a packet the parser rejects, and `Looping` for one it
never finishes. On `Looping`, the recv goroutine stays `"stuck"` and never
checks the flag again. A packet ending in a pointer byte panics the
goroutine and with it the process; `DnsParse` shows this, and it is left
out here. IP
addresses are model values, and interfaces are records with flags and
addresses. `handled` is the set of `<<net, packet, answers, replied>>` the
loops produced. `MaxReads` bounds the packets read per socket.

### `MatterServer` (checked through `MCMdnsResponder`)

The process around the components: `runServer` in `src/unnamed/part_003`
(`config.Load`, `server.New`, `Run`), the Bluetooth stub, and `Server.Run`
and `Server.shutdown` in `src/unnamed/part_006`. It EXTENDS
`MdnsResponder` and shares its variables: `Run` calls the responder's
`Start` steps in its `"mdns"` phase and `Shutdown`'s steps in `"sdMdns"`,
while the recv loops run on their own.

- `run` is Run's phase. Each phase step (`Trans(a, b)`) is one statement
  group of the code: `LoadConfig` (Load's outcome, with `setDefaults`,
  `validate` and a key resolved to its highest-precedence source),
  `StartStorage`, the mDNS `Start`, `StartBluetooth`, `SpawnHttp`, the
  select (`SelectCtx`, `SelectServerErr`), then `shutdown`'s HTTP,
  WebSocket, Bluetooth and mDNS steps, `EmitShutdown` and the deferred
  `StopStorage`.
- `httpG` is the HTTP goroutine: `Listen` (ErrServerClosed at once after
  Shutdown, else a bind failure or serving), `ServeEnds`, `SendServerErr`
  on the channel of capacity `ServerErrCap = 1`, `CloseServerErr`.
- `Cancel` is the signal `signal.NotifyContext` turns into `ctx.Done()`.
- Storage and the HTTP server's drain are single calls here, and the
  WebSocket handler is one connection and `Shutdown`: `JsonStorage` and `WsHandler` model what they do.
- `IsAvailable` is FALSE, as in the stub, so `StartBluetooth` never starts
  the manager and shutdown always stops it.

- `registry` is `s.nodes`: `StartStorage` includes `loadNodes`, which
  puts every node `GetNodes` returns (the constant `StoredNodes`) into it.
- `session` is one WebSocket connection per run. `Connect` is
  `HandleWebSocket` on a request accepted before `httpServer.Shutdown`: it
  upgrades, subscribes and registers the session. The session's ctx is a
  child of `r.Context()`. `HandlerReturns` is `HandleWebSocket` starting the
  pumps and returning. net/http then cancels `r.Context()`, so the
  session's ctx is live only while `session = "live"`.
- `ShutdownWs` is `wsHandler.Shutdown`. With a live session, `close()`
  asks for `connectionsMu` while `Shutdown` holds it, and `Run` stops for
  good in `"wsDeadlock"`. This is `WsHandler`'s `NoRecursiveLock` finding,
  here inside `Run`.
- `Command` is `readPump` reading a frame and `handleCommand` calling
  `HandleCommand`. `readPump` may read one frame before it sees the
  cancelled ctx, so this can happen from `Connect` on. `reply` keeps the
  command and its result.

### `Dispatcher`

`HandleCommand` and its six handlers (`src/unnamed/part_006` 223-369), with
`parseNodeID` (546-576) and the `strconv.ParseInt` that
`json.Number.Int64` calls for a string `node_id` (`ParseDigits`,
`ParseInt`: one sign taken off, then at least one digit and nothing
else). The handlers change no state, so each is an operator of the
registry, the server info and the command. A node record is its NodeID; a
result is a record of the server info, a set of node IDs and `reachable`,
and every error is `Failure`. A `node_id` is what `encoding/json` decodes
into `interface{}`: a number (float64), a string of bytes, or another JSON
type. Numbers are integral and below 2^53, where `int(float64)` is exact.

The module also states the contract of spec 4.4, written from its text:
the closed command set, a `node_id` that is a number or a numeric string
(`NumericString`, and `StringValue`, which reads the digits positionally
rather than by `ParseInt`'s loop), lookups in the registry, and what each
command returns.

### `JsonStorage` (and `MCJsonStorage`)

`JSONStorage` (the storage package, in `server_test.go` 435-777). `mem` is the
three maps. `disk` and `tmp` are the data files and their `.tmp` files. Each
file is a record saying whether it exists, whether `json.Unmarshal` accepts
it, and the entries it holds.

Every call holds `s.mu`, so calls never interleave. Each call is one action
(`Start`, `Save`, `Delete`, `SyncCall("sync")`, `SyncCall("stop")`,
`BackupData`) that takes the lock. `saveJSONFile` is three steps per file:

- `WriteBegin`: the tmp file is truncated;
- `WriteEnd`: the tmp file is whole, or the write failed;
- `Rename`: the tmp file replaces the data file, or the rename failed and
  the tmp file is removed.

`Exit` is the process dying at any point, or exiting after `Stop`. Memory is
lost, the files stay, and the next process begins at `NewJSONStorage`.
`removed` is a ghost: the keys a Delete call removed since `Start`.

### Refinements: `DurableStore` and `OutboundQueue`

Two abstract modules state what a component promises, with none of its
mechanism.

- `DurableStore`: named maps, each with a view (what the running process
  sees) and a durable copy (what the next process loads). A commit makes one
  durable copy equal to its view in one step. A crash loses the views and
  keeps the durable copies. `JsonStorage` implements it under the mapping
  `durable <- [f |-> Load(disk[f])]`, `view <- mem`, status from `phase`
  (`Abstract`, property `RefinesDurableStore`). The write steps and failed
  renames are stuttering steps, and a `Rename` is a commit. A `Stop` whose
  last rename commits is `LastCommit`.
- `OutboundQueue`: per connection, the messages accepted, the messages on
  the wire, and the writer (before, live, gone). The writer writes the next
  one or more accepted messages, and `Deliver` is weakly fair.
  `WsHandler`'s outbound path implements it with `accepted <- sentLog`,
  `wire <- delivered`, and the writer live while `writePump` is in `run`,
  `batch` or `flush` (`Outbound`, property `RefinesOutboundQueue`). The
  fairness part says that a message put into `c.send` while `writePump`
  runs is written, unless `writePump` stops. The implementation's own
  fairness (`FairSpec`) justifies it.

## 3. Runs

The WebSocket runs use a single connection, `SendCap = 1`, one client frame and one
event. `MaxEvents = 2` is used where event order is the question, and in
`ws_live`, where a third message must be accepted after a batch for a
skipped message to show.

These bounds are enough for what the runs ask:

- A queue of one makes both cases happen: batching (a message already queued
  when writePump receives) and a full queue (sendMessage times out,
  BroadcastEvent closes the session).
- One frame plus one event gives two concurrent senders, which is what
  ordering needs.

Two connections with larger queues did not finish within ten minutes. The
handler's state is per connection, except for the shared lock, which one
connection and the Shutdown/Broadcast goroutines already contend for.

| Run | Expect | What it shows |
|---|---|---|
| `ws_safety` | pass | Frames reach the client as a prefix of `c.send`'s history, in order. An unregistered session is cancelled. A closed `c.send` is never registered, so BroadcastEvent cannot send on it. |
| `ws_live` | pass | Once `c.ctx` is cancelled, both pumps and the handler goroutine finish (or the process crashed). The outbound path refines `OutboundQueue`: messages reach the client in the order they were put into `c.send`, with none skipped, and each one is written unless `writePump` stops. |
| `ws_recursive_lock` | violation | Shutdown holds `connectionsMu` and `close()` asks for it again: a deadlock. |
| `ws_event_order` | violation | Two events reach one subscriber's queue out of order. |
| `ws_send_closed` | violation | `sendMessage` sends on `c.send` after `close()` closed it: a panic that ends the process. |
| `ws_closed_released` | violation | After the handler returns, the session stays registered and subscribed forever. |
| `dns` | pass | Over 156,250 fuzzed packets and the encoded messages: a packet accepted without pointers re-encodes to exactly the bytes parsed (`ReencodeAccepted`). The claim is narrowed to the part of a packet the two functions are meant to mirror. It excludes NSCOUNT/ARCOUNT, which the encoder writes as 0, and a '.' byte in a label, which `encodeName` splits into two labels. Both are listed as hazards. Encode-then-parse gives back every header and question, and compressed names parse like plain ones, with the next question read right after the pointer (`RoundTrip`). The A, AAAA, PTR, TXT and SRV record data read back field for field, including TXT strings of 255, 256 and 300 bytes and IPv4 addresses in 16-byte form (`RecordDataDecodes`). |
| `dns_failsclosed` | violation | TLC's trace is the shortest: QDCOUNT 1 and a pointer `C0 0C` at offset 12, to itself, which `parseName` follows and (as the model then shows with `"hang"`) follows forever. The same property also forbids a backward cycle, a pointer past the buffer, and a pointer byte at the end of the packet, which panics (`FailsClosed`). |
| `mdns` | pass | The responder inside `MatterServer`'s `Run`. For every kind of packet and every interface: a reply is sent exactly when the spec says so, with exactly the spec's addresses. A failed `Start` leaves no socket open and no loop running. Both loops end after `Shutdown`, except one that read a packet whose parse never returns (`Looping`), which stays stuck (`RecvExitsAfterShutdown`). A `Run` that returns nil has shut down HTTP, the WebSocket handler, Bluetooth and storage and left no mDNS socket open, also after a failed `Start` whose `Shutdown` reports a second close (`CleanReturnIsQuiet`). Once the signal comes, the HTTP goroutine ends, even when the listener fails as the signal arrives and the select takes `ctx.Done()`. `Run` then returns, unless `wsHandler.Shutdown` deadlocks on a session still inside `HandleWebSocket` (`CancelEndsRun`). Every command handled over a session gets the reply of spec 4.4's contract against the loaded nodes: unknown commands and malformed, missing or unknown `node_id`s fail, numbers and signed numeric strings find their node (`RepliesFollowContract`). |
| `mdns_linklocal4` | violation | With a link-local IPv4 address on an up interface, A replies leave it out, while the spec lists every non-loopback IPv4 address. |
| `storage` | pass | Failing writes and renames happen, and the process can die between any two file steps. The data files stay readable. A call that returns nil has its maps on disk. No entry disappears from a file without a Delete. The storage refines `DurableStore`: a file, as `Start` would load it, changes only to the whole in-memory map for that file, and never when the process dies. |
| `storage_damaged` | violation | A data file that `json.Unmarshal` rejects at `Start` is loaded as empty. The next sync (at the latest the `Stop` that `Server.Run` defers) overwrites it, so all its entries are erased. |

### Fairness

The Go scheduler eventually runs every runnable goroutine. Socket reads return
within `pongWait` (the read deadline) and writes within `writeWait`. So, in
`FairSpec`:

- each goroutine's steps are weakly fair;
- each blocking socket call is weakly fair as a whole, whichever way it ends.

Client connects, `EmitEvent`, Shutdown, BroadcastEvent and a failing ping are
decisions of the environment, so they get no fairness.

### Bounds of the other runs

- `dns`, `dns_failsclosed`: see `MCDnsParse` above. No bound on labels or
  jumps is needed, since a looping parse is detected exactly. Both header shapes,
  every class of byte the parser branches on, and every position of a
  pointer within the 7-byte tail occur.
- `mdns`: one up interface with two global IPv4 addresses, one global
  IPv6 address and one link-local IPv6 address; one down interface; the
  loopback interface. There are 9 packets:
  - garbage;
  - `Looping`, a packet whose parse never returns (a pointer cycle, as
    `DnsParse` shows);
  - an upper-case A query;
  - an AAAA query with a PTR question;
  - a query for another name;
  - a query with no questions;
  - a response;
  - opcode 4;
  - rcode 3.

  `MaxReads = 1` in `mdns`: each loop reads one packet, before or after
  `Shutdown` sets the flag, and times out on either side of it. With the
  server's phases and goroutines around it, two reads per loop did not
  finish in ten minutes. `mdns_linklocal4` uses the same bounds.
  The server loads one of three configurations (`MCInputs`): all defaults;
  mDNS disabled with a Bluetooth adapter given; and a port `validate`
  refuses. Load may also fail on I/O. So every path of `runServer` and
  `Run` is taken: an early exit, a failed storage start, a run without
  mDNS, a failed and a successful mDNS start, and both select cases.
  Storage holds node 1. The commands (`MCCommands`) are the four without
  arguments, `commission_with_code` (an `APICommand` with no case), and
  `get_node`/`ping_node` with no `node_id`, the stored and an unknown
  number, `"1"`, `"+1"`, `"-1"`, `"1x"`, `"-"` and `true`. Each `node_id`
  form goes to one of the two commands, which share `parseNodeID`; every
  branch of `parseNodeID` and `ParseInt` is taken. One command per run:
  the handlers are stateless. The run reaches about 286k states in two
  minutes.
- `storage`: one key, one value, and the files an earlier run may leave
  (missing, empty, one entry). `MaxRestarts = 1` allows one death or
  restart, which is enough to reach every crash point between two file
  steps, and the loading of what the crash left. The run reaches 2.67M
  states in about a minute.

### Fairness of the other modules

`MdnsResponder`'s `recv` loops are weakly fair: the 1 s read deadline
returns every blocked read. So are the `Start` steps, which run within
`Server.Run`, and `Shutdown`'s closes. In `MatterServer` (`ServerFairness`)
Run's steps, the HTTP goroutine's and `HandleWebSocket`'s return are weakly fair: each is a goroutine
the scheduler keeps running, and each blocks only where the code does
(the select, Serve, a full channel). The signal gets no fairness. `DnsParse` and `JsonStorage` check
only safety.

## 4. Plan

1. `WsHandler`: done.
2. `DnsWire`, `DnsParse`: done.
3. `MdnsResponder`: done.
4. `JsonStorage`: done.
5. Refinements of `JsonStorage` (to `DurableStore`) and of the WebSocket
   outbound path (to `OutboundQueue`): done.
6. `Dispatcher`: done, checked in `mdns`. Still open: a violation run for
   `parseNodeID`'s float64 conversion (1.5 finds node 1), which needs a
   free run slot.
7. `MatterServer`: `runServer`, `Run` and `shutdown` composed with the mDNS
   responder: done. Still open: joining it with `WsHandler`'s sessions, to
   show that `server_shutdown` reaches no client and that a session
   upgraded during the HTTP drain outlives `Shutdown`.
8. `SessionLifecycle`: an abstract spec of a session
   (connecting → open → closed, with registry membership). `WsHandler` is
   shown to refine it under a mapping, on the paths where the code does.

## 5. Not modelled

- Of config loading, only the outcome is modelled (`MatterServer.LoadConfig`):
  the parsing of the env file, the YAML file and the environment is
  viper's and `loadEnvFile`'s string handling, with no state that a
  property here is about. The logger's formatting and the model types
  (`internal/models/types.go`) other than the `APICommand` set and the
  result shapes are left out for the same reason: data declarations and
  `GenerateMessageID`.
- Of the dispatcher: fractional JSON numbers and integers past 2^53.
  `parseNodeID` maps 1.5 to node 1, and the decoder has already rounded a
  large id to a neighbour, where the spec asks for an argument error. This
  is a hazard with no run, as every run slot is taken. The node records'
  contents (the shallow copies share their `Attributes` map, which nothing
  writes) are abstracted to the NodeID.
- The CLI, Docker files and scripts.
- JSON encoding of frames: every marshal in the handler is of values that
  cannot fail, so it is left out.
- `MatterZone.UpdateIPs` racing `Records`. `updateIPs` assigns `z.ips`
  without a lock, while the spec asks for a refresh that is safe alongside
  queries. But nothing in the repository calls `UpdateIPs`: the list is
  built once, in `NewMatterZone`, before the recv goroutines exist. So
  `MdnsResponder` takes the list as fixed. The race cannot happen in
  this program, so it is not listed as a hazard. `GetHostname`, `GetIPs` and `dnsTypeToString` only read
  or format values for logging.
- `encodeName` puts no 63-byte limit on a label. Only a violation run could
  show it, and there is no run for it.
- The storage `Get` calls change nothing. A power loss, where the file
  system may persist a rename before the data it names (nothing is fsynced),
  is not modelled as a step. `storage_damaged` starts from the kind of file
  it leaves.
