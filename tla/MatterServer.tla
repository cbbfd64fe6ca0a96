---------------------------- MODULE MatterServer ----------------------------
(***************************************************************************)
(* The process around the components: cmd/matter-server's runServer        *)
(* (config.Load, server.New, Run), the Bluetooth manager stub, and Run and *)
(* shutdown of internal/server, composed with the mDNS responder of        *)
(* MdnsResponder, whose Start and Shutdown Run calls.                      *)
(*                                                                         *)
(* Run is one goroutine moving through phases; the HTTP goroutine it       *)
(* spawns (ListenAndServe, then the send on serverErr and its close) is    *)
(* another; the mDNS recv goroutines run on their own.  Storage is the    *)
(* call Start/Stop only (JsonStorage models what they do); the WebSocket  *)
(* handler is the call Shutdown only (WsHandler models it).  Cancel is     *)
(* the signal that cancels Run's context.                                  *)
(***************************************************************************)
EXTENDS MdnsResponder, Dispatcher, Integers

CONSTANTS
    Inputs,      \* what flags, env and file set: partial records of Defaults' keys
    StoredNodes, \* the NodeIDs storage's GetNodes returns
    Commands     \* command messages clients send: [command, args]

-----------------------------------------------------------------------------
(* config.go                                                               *)

\* setDefaults, for the keys this model reads.
Defaults == [port |-> 5580, vendor |-> 65521, fabric |-> 1, adapter |-> -1,
             mdnsEnabled |-> TRUE]

\* viper resolves a key to its highest-precedence source (flag, env, file)
\* and to the default when none sets it.
Resolved(in) == [k \in DOMAIN Defaults |-> IF k \in DOMAIN in THEN in[k] ELSE Defaults[k]]

\* validate
Validate(c) ==
    /\ c.port > 0 /\ c.port <= 65535
    /\ c.vendor >= 0 /\ c.vendor <= 65535
    /\ c.fabric > 0

-----------------------------------------------------------------------------
(* bluetooth/manager.go: a stub that is never available.                  *)

IsAvailable == FALSE

\* New: Enabled is AdapterID >= 0; IsEnabled also needs IsAvailable.
IsEnabled(c) == c.adapter >= 0 /\ IsAvailable

-----------------------------------------------------------------------------

\* make(chan error, 1)
ServerErrCap == 1

VARIABLES
    run,        \* Run's phase (and runServer's before it)
    result,     \* what Run, or runServer, returned: "none", "nil" or "err"
    cfg,        \* the Config Load returned
    ctxDone,    \* the signal context is cancelled
    store,      \* storage: "down", "up", "failed", "stopped"
    bt,         \* Bluetooth manager: "idle", "started", "stopped"
    httpG,      \* HTTP goroutine: "none", "listen", "serving", "failed",
                \* "closing", "done"
    errBuf,     \* errors buffered in serverErr
    errClosed,  \* serverErr is closed
    httpShut,   \* httpServer.Shutdown was called
    wsShut,     \* wsHandler.Shutdown was called
    emitted,    \* server_shutdown was emitted
    registry,   \* s.nodes: the NodeIDs loadNodes put in the map
    reply,      \* a command handled over a session, and HandleCommand's result
    session     \* a WebSocket connection: "none"; "live" inside
                \* HandleWebSocket, registered, its ctx not cancelled; "gone"
                \* once HandleWebSocket returned

apiVars == <<registry, reply, session>>
runVars == <<run, result, cfg, ctxDone, store, bt, httpG, errBuf, errClosed,
             httpShut, wsShut, emitted>>
srvVars == <<runVars, apiVars>>
allVars == <<vars, srvVars>>

\* s.mdnsServer != nil: New creates it when mDNS is enabled.
MdnsOn == cfg.mdnsEnabled

\* New: the ServerInfoMessage fields the replies tell apart.
ServerInfo(c) == [fabric |-> c.fabric, bluetooth |-> IsAvailable]

NoReply == [cmd |-> [command |-> "", args |-> <<>>], res |-> Failure]

ServerInit ==
    /\ Init
    /\ run = "load" /\ result = "none" /\ cfg = Defaults /\ ctxDone = FALSE
    /\ store = "down" /\ bt = "idle" /\ httpG = "none"
    /\ errBuf = 0 /\ errClosed = FALSE
    /\ httpShut = FALSE /\ wsShut = FALSE /\ emitted = FALSE
    /\ registry = {} /\ reply = NoReply /\ session = "none"

\* One step of Run from phase a to phase b.
Trans(a, b) == run = a /\ run' = b

\* Run's step that leaves the other goroutines alone.
RunStep(a, b) == Trans(a, b) /\ UNCHANGED <<vars, apiVars>>

-----------------------------------------------------------------------------
(* runServer: config.Load, then server.New (which cannot fail).  An I/O    *)
(* error of Load (env file, home directory, config file, unmarshal,       *)
(* Getwd), a failed validate or a level setupLogger rejects ends the     *)
(* process with an error.                                                  *)

LoadConfig ==
    /\ run = "load"
    /\ \E in \in Inputs, ioErr \in BOOLEAN :
          IF ioErr \/ ~Validate(Resolved(in))
             THEN run' = "exited" /\ result' = "err" /\ UNCHANGED cfg
             ELSE run' = "storage" /\ cfg' = Resolved(in) /\ UNCHANGED result
    /\ UNCHANGED <<vars, apiVars, ctxDone, store, bt, httpG, errBuf, errClosed, httpShut,
                   wsShut, emitted>>

\* storage.Start; on error return it.  Then loadNodes: GetNodes cannot
\* fail, and every node it returns goes into the map under its NodeID.
StartStorage ==
    /\ run = "storage"
    /\ \/ store' = "up" /\ run' = "mdns" /\ registry' = StoredNodes
          /\ UNCHANGED result
       \/ store' = "failed" /\ run' = "returned" /\ result' = "err"
          /\ UNCHANGED registry
    /\ UNCHANGED <<vars, reply, session, cfg, ctxDone, bt, httpG, errBuf, errClosed, httpShut,
                   wsShut, emitted>>

\* Run calls mdnsServer.Start when there is one; its error is only logged.
StartMdnsIPv4 == run = "mdns" /\ MdnsOn /\ StartIPv4 /\ UNCHANGED srvVars
StartMdnsIPv6 == run = "mdns" /\ StartIPv6 /\ UNCHANGED srvVars

MdnsStarted ==
    /\ ~MdnsOn \/ start \in {"ok", "failed"}
    /\ RunStep("mdns", "bt")
    /\ UNCHANGED <<result, cfg, ctxDone, store, bt, httpG, errBuf, errClosed,
                   httpShut, wsShut, emitted>>

\* if s.bluetoothManager.IsEnabled() { Start() }: never, as it is a stub.
StartBluetooth ==
    /\ RunStep("bt", "serve")
    /\ bt' = IF IsEnabled(cfg) THEN "started" ELSE bt
    /\ UNCHANGED <<result, cfg, ctxDone, store, httpG, errBuf, errClosed,
                   httpShut, wsShut, emitted>>

\* go func() { ListenAndServe ... }()
SpawnHttp ==
    /\ RunStep("serve", "select")
    /\ httpG' = "listen"
    /\ UNCHANGED <<result, cfg, ctxDone, store, bt, errBuf, errClosed,
                   httpShut, wsShut, emitted>>

-----------------------------------------------------------------------------
(* The HTTP goroutine.                                                     *)

\* ListenAndServe returns ErrServerClosed at once after Shutdown; else the
\* bind fails, or it serves.
Listen ==
    /\ httpG = "listen"
    /\ httpG' \in IF httpShut THEN {"closing"} ELSE {"failed", "serving"}
    /\ UNCHANGED <<vars, apiVars, run, result, cfg, ctxDone, store, bt, errBuf, errClosed,
                   httpShut, wsShut, emitted>>

\* Serve returns ErrServerClosed once Shutdown is called.
ServeEnds ==
    /\ httpG = "serving" /\ httpShut
    /\ httpG' = "closing"
    /\ UNCHANGED <<vars, apiVars, run, result, cfg, ctxDone, store, bt, errBuf, errClosed,
                   httpShut, wsShut, emitted>>

\* Mutant: make(chan error) without a buffer: the send completes only
\* together with the receive of a select that is still waiting.
SendServerErrUnbuffered ==
    /\ httpG = "failed" /\ run = "select"
    /\ httpG' = "closing"
    /\ run' = "stop" /\ result' = "err"
    /\ UNCHANGED <<vars, apiVars, cfg, ctxDone, store, bt, errBuf, errClosed, httpShut,
                   wsShut, emitted>>

\* serverErr <- err: blocks while the buffer is full.
SendServerErr ==
    /\ httpG = "failed" /\ errBuf < ServerErrCap
    /\ httpG' = "closing" /\ errBuf' = errBuf + 1
    /\ UNCHANGED <<vars, apiVars, run, result, cfg, ctxDone, store, bt, errClosed,
                   httpShut, wsShut, emitted>>

\* close(serverErr)
CloseServerErr ==
    /\ httpG = "closing"
    /\ httpG' = "done" /\ errClosed' = TRUE
    /\ UNCHANGED <<vars, apiVars, run, result, cfg, ctxDone, store, bt, errBuf,
                   httpShut, wsShut, emitted>>

-----------------------------------------------------------------------------
(* A WebSocket connection (one per run) and a command it carries.         *)

\* HandleWebSocket on a request the listener accepted before Shutdown:
\* Upgrade, Subscribe, and register the session under connectionsMu.  Its
\* ctx is a child of r.Context().
Connect ==
    /\ session = "none" /\ httpG = "serving" /\ ~httpShut
    /\ session' = "live"
    /\ UNCHANGED <<vars, runVars, registry, reply>>

\* HandleWebSocket writes the server info (or close()s on a failed write),
\* starts the pumps and returns; net/http then cancels r.Context(), and
\* with it the session's ctx.
HandlerReturns ==
    /\ session = "live"
    /\ session' = "gone"
    /\ UNCHANGED <<vars, runVars, registry, reply>>

\* readPump reads a frame and spawns handleCommand, which calls
\* HandleCommand; readPump may read one frame before it sees the ctx
\* cancelled.  The handlers are stateless and the registry no longer
\* changes, so one command per run shows them all.

Command ==
    /\ session # "none" /\ reply = NoReply
    /\ \E c \in Commands :
          reply' = [cmd |-> c, res |-> HandleCommand(registry, ServerInfo(cfg), c)]
    /\ UNCHANGED <<vars, runVars, registry, session>>

-----------------------------------------------------------------------------
(* The signal, and Run's select.                                          *)

Cancel ==
    /\ ~ctxDone
    /\ ctxDone' = TRUE
    /\ UNCHANGED <<vars, apiVars, run, result, cfg, store, bt, httpG, errBuf, errClosed,
                   httpShut, wsShut, emitted>>

\* case <-ctx.Done(): return s.shutdown()
SelectCtx ==
    /\ ctxDone
    /\ RunStep("select", "sdHttp")
    /\ UNCHANGED <<result, cfg, ctxDone, store, bt, httpG, errBuf, errClosed,
                   httpShut, wsShut, emitted>>

\* case err := <-serverErr: return the error (a closed channel gives nil,
\* wrapped all the same); the deferred storage.Stop still runs.
SelectServerErr ==
    /\ errBuf > 0 \/ errClosed
    /\ RunStep("select", "stop")
    /\ errBuf' = IF errBuf > 0 THEN errBuf - 1 ELSE 0
    /\ result' = "err"
    /\ UNCHANGED <<cfg, ctxDone, store, bt, httpG, errClosed, httpShut, wsShut,
                   emitted>>

-----------------------------------------------------------------------------
(* shutdown: HTTP (10s drain, error logged), WebSocket handler, Bluetooth, *)
(* mDNS (error logged), then the server_shutdown event; return nil.        *)

ShutdownHttp ==
    /\ RunStep("sdHttp", "sdWs")
    /\ httpShut' = TRUE
    /\ UNCHANGED <<result, cfg, ctxDone, store, bt, httpG, errBuf, errClosed,
                   wsShut, emitted>>

\* wsHandler.Shutdown takes connectionsMu.Lock and close()s every
\* registered session.  close() of a session whose ctx is still live
\* cancels it and asks for connectionsMu.Lock again; the lock is not
\* reentrant, so Shutdown never returns (WsHandler's NoRecursiveLock).  A
\* session whose ctx is done returns from close() at once.
ShutdownWs ==
    /\ RunStep("sdWs", IF session = "live" THEN "wsDeadlock" ELSE "sdBt")
    /\ wsShut' = TRUE
    /\ UNCHANGED <<result, cfg, ctxDone, store, bt, httpG, errBuf, errClosed,
                   httpShut, emitted>>

\* The manager is never nil, so Stop is called whether or not it started.
ShutdownBluetooth ==
    /\ RunStep("sdBt", "sdMdns")
    /\ bt' = "stopped"
    /\ UNCHANGED <<result, cfg, ctxDone, store, httpG, errBuf, errClosed,
                   httpShut, wsShut, emitted>>

\* mdnsServer.Shutdown's own steps, called from this phase.
ShutdownMdnsFlag == run = "sdMdns" /\ MdnsOn /\ ShutdownFlag /\ UNCHANGED srvVars
ShutdownMdnsClose4 == ShutdownClose4 /\ UNCHANGED srvVars
ShutdownMdnsClose6 == ShutdownClose6 /\ UNCHANGED srvVars

\* Mutant: shutdown does not wait for mdnsServer.Shutdown to close the
\* sockets (go s.mdnsServer.Shutdown()).
MdnsShutDownNoWait ==
    /\ ~MdnsOn \/ stop # "idle"
    /\ RunStep("sdMdns", "emit")
    /\ UNCHANGED <<result, cfg, ctxDone, store, bt, httpG, errBuf, errClosed,
                   httpShut, wsShut, emitted>>

\* Shutdown returned; its error (a second close after a failed Start) is
\* only logged.
MdnsShutDown ==
    /\ ~MdnsOn \/ stop = "done"
    /\ RunStep("sdMdns", "emit")
    /\ UNCHANGED <<result, cfg, ctxDone, store, bt, httpG, errBuf, errClosed,
                   httpShut, wsShut, emitted>>

EmitShutdown ==
    /\ RunStep("emit", "stop")
    /\ emitted' = TRUE /\ result' = "nil"
    /\ UNCHANGED <<cfg, ctxDone, store, bt, httpG, errBuf, errClosed, httpShut,
                   wsShut>>

\* defer s.storage.Stop()
StopStorage ==
    /\ RunStep("stop", "returned")
    /\ store' = "stopped"
    /\ UNCHANGED <<result, cfg, ctxDone, bt, httpG, errBuf, errClosed, httpShut,
                   wsShut, emitted>>

-----------------------------------------------------------------------------

RecvStep(n) == (RecvCheck(n) \/ RecvTimeout(n) \/ RecvPacket(n)) /\ UNCHANGED srvVars

RunSteps ==
    \/ LoadConfig \/ StartStorage \/ StartMdnsIPv4 \/ StartMdnsIPv6 \/ MdnsStarted
    \/ StartBluetooth \/ SpawnHttp \/ SelectCtx \/ SelectServerErr
    \/ ShutdownHttp \/ ShutdownWs \/ ShutdownBluetooth
    \/ ShutdownMdnsFlag \/ ShutdownMdnsClose4 \/ ShutdownMdnsClose6 \/ MdnsShutDown
    \/ EmitShutdown \/ StopStorage

HttpSteps == Listen \/ ServeEnds \/ SendServerErr \/ CloseServerErr

ServerNext ==
    \/ RunSteps \/ HttpSteps \/ Cancel
    \/ Connect \/ HandlerReturns \/ Command
    \/ \E n \in Nets : RecvStep(n)

\* Every goroutine runs while it can (Run waits in its select, the HTTP
\* goroutine in Serve or on a full channel); recv's reads end within the
\* 1s deadline; HandleWebSocket returns (its write has a deadline).  The
\* signal, a client connecting and its commands are not assumed to come.
ServerFairness ==
    /\ WF_allVars(RunSteps) /\ WF_allVars(HttpSteps) /\ WF_allVars(HandlerReturns)
    /\ \A n \in Nets : WF_allVars((RecvCheck(n) \/ RecvTimeout(n)) /\ UNCHANGED srvVars)

ServerSpec == ServerInit /\ [][ServerNext]_allVars /\ ServerFairness

-----------------------------------------------------------------------------
(* Properties.                                                             *)

\* Run returning nil means a completed shutdown: nothing is left serving.
\* Neither mDNS socket is open, the HTTP server and the WebSocket handler
\* were shut down, the Bluetooth manager stopped and storage stopped, even
\* when the mDNS Start had failed and its Shutdown reported an error.
CleanReturnIsQuiet ==
    run = "returned" /\ result = "nil" =>
        /\ \A n \in Nets : sock[n] # "open"
        /\ httpShut /\ wsShut /\ bt = "stopped" /\ store = "stopped" /\ emitted

\* Once the signal comes, the HTTP goroutine Run spawned does not stay
\* blocked, whichever case Run's select took when the listener failed at
\* the same time; and Run returns, unless wsHandler.Shutdown deadlocked on
\* a session still inside HandleWebSocket, where Run hangs for good.
CancelEndsRun ==
    ctxDone ~> /\ run \in {"returned", "exited", "wsDeadlock"}
               /\ httpG \in {"none", "done"}

\* Every command a session hands to HandleCommand gets the reply the
\* dispatcher's contract gives it against the nodes loadNodes loaded and
\* the server info: only the six commands of the closed set succeed, and
\* get_node and ping_node succeed only for a node_id, number or numeric
\* string, of a loaded node.
RepliesFollowContract ==
    reply # NoReply =>
        reply.res = ContractReply(registry, ServerInfo(cfg), reply.cmd)

=============================================================================
