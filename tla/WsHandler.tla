------------------------------ MODULE WsHandler ------------------------------
(***************************************************************************)
(* The WebSocket session manager of internal/websocket/handler.go together *)
(* with the event bus of internal/server (Server.Subscribe, the returned   *)
(* unsubscribe closure and Server.EmitEvent) that feeds it.                *)
(*                                                                         *)
(* Every goroutine of the code is a process of the model: per connection  *)
(* the HandleWebSocket goroutine ("hs"), readPump ("rp") and writePump     *)
(* ("wp"); one goroutine per handleCommand / handleEvent call (a           *)
(* "sender", all of which end in sendMessage); the goroutine that runs     *)
(* Handler.Shutdown (SD) and the one that runs Handler.BroadcastEvent      *)
(* (BC); and the anonymous goroutines close() spawns to close c.send.      *)
(* Connection.close() is a procedure any of these may call: its steps are  *)
(* the pc values in ClosePC and tgt[g] is the connection it closes.        *)
(*                                                                         *)
(* Data is abstracted to message identities: a command response or error  *)
(* is <<"res", j>> / <<"err", j>> for the j-th frame read on the           *)
(* connection, an event is <<"ev", k>> for the k-th EmitEvent, and the     *)
(* broadcast frame is <<"bc", 0>>.  JSON encoding is left out: marshalling *)
(* these values cannot fail.                                               *)
(***************************************************************************)
EXTENDS Naturals, Sequences, SequencesExt, FiniteSets

CONSTANTS
    Conns,       \* connection ids (GenerateMessageID in HandleWebSocket)
    NoConn,      \* model value: no connection
    SendCap,     \* capacity of Connection.send (256 in the code)
    MaxFrames,   \* frames one client sends on its connection
    MaxEvents,   \* calls of Server.EmitEvent
    AdminOps     \* Handler calls made by the server: "shutdown", "broadcast"

ASSUME /\ NoConn \notin Conns
       /\ SendCap \in Nat \ {0}
       /\ MaxFrames \in Nat /\ MaxEvents \in Nat
       /\ AdminOps \subseteq {"shutdown", "broadcast"}

hs(c) == <<"hs", c>>
rp(c) == <<"rp", c>>
wp(c) == <<"wp", c>>
SD == <<"sd", NoConn>>
BC == <<"bc", NoConn>>
NoG == <<"none", NoConn>>
Goroutines == ({"hs", "rp", "wp"} \X Conns) \cup {SD, BC}

Msg == ({"res", "err"} \X (1..MaxFrames)) \cup ({"ev"} \X (1..MaxEvents))
         \cup {<<"bc", 0>>}

\* A goroutine blocked in sendMessage: before its ctx check or in its select.
Sender == [c : Conns, m : Msg, pc : {"check", "select"}, from : {"cmd", "ev", "rp"}]

ClosePC == {"check", "unsub", "nil", "cancel", "lock", "spawn"}
PCs == {"idle", "register", "info", "ret", "loop", "read", "wait",
        "run", "batch", "flush", "iter", "done"} \cup ClosePC

VARIABLES
    pc,          \* pc[g]: where goroutine g is
    tgt,         \* tgt[g]: the connection g's running close() is closing
    todo,        \* todo[g], g \in {SD, BC}: map entries its range has left
    senders,     \* goroutines inside sendMessage
    wlock,       \* Handler.connectionsMu: writer holding it, or NoG
    rlock,       \* Handler.connectionsMu: readers holding it
    registry,    \* keys of Handler.connections
    subs,        \* Server.eventCallbacks, by the connection it calls back
    unsubFn,     \* unsubFn[c]: c.unsubscribe # nil
    cancelled,   \* cancelled[c]: c.ctx is done
    sockClosed,  \* sockClosed[c]: c.conn.Close() was called
    queue,       \* queue[c]: contents of the channel c.send
    batch,       \* batch[c]: frame writePump is assembling
    chanClosed,  \* chanClosed[c]: close(c.send) has happened
    chanClosers, \* chanClosers[c]: spawned goroutines about to close(c.send)
    frames,      \* frames[c]: frames the client has sent on c
    events,      \* EmitEvent calls so far
    sentLog,     \* history: every message put into c.send, in order
    delivered,   \* history: every message written to the client, in order
    unsubCalls,  \* history: calls of c's unsubscribe closure
    crashed      \* a goroutine panicked without recover: the process died

vars == <<pc, tgt, todo, senders, wlock, rlock, registry, subs, unsubFn,
          cancelled, sockClosed, queue, batch, chanClosed, chanClosers,
          frames, events, sentLog, delivered, unsubCalls, crashed>>
connVars == <<registry, subs, unsubFn, cancelled, sockClosed>>
chanVars == <<queue, batch, chanClosed, chanClosers>>
ghostVars == <<sentLog, delivered, unsubCalls, crashed>>

-----------------------------------------------------------------------------
Init ==
    /\ pc = [g \in Goroutines |-> "idle"]
    /\ tgt = [g \in Goroutines |-> NoConn]
    /\ todo = [g \in {SD, BC} |-> {}]
    /\ senders = {}
    /\ wlock = NoG
    /\ rlock = {}
    /\ registry = {}
    /\ subs = {}
    /\ unsubFn = [c \in Conns |-> FALSE]
    /\ cancelled = [c \in Conns |-> FALSE]
    /\ sockClosed = [c \in Conns |-> FALSE]
    /\ queue = [c \in Conns |-> <<>>]
    /\ batch = [c \in Conns |-> <<>>]
    /\ chanClosed = [c \in Conns |-> FALSE]
    /\ chanClosers = [c \in Conns |-> 0]
    /\ frames = [c \in Conns |-> 0]
    /\ events = 0
    /\ sentLog = [c \in Conns |-> <<>>]
    /\ delivered = [c \in Conns |-> <<>>]
    /\ unsubCalls = [c \in Conns |-> 0]
    /\ crashed = FALSE

\* connectionsMu.Lock() can be taken.
LockFree == wlock = NoG /\ rlock = {}

\* Where a goroutine continues when its close() call returns.
AfterClose(g) == CASE g[1] \in {"sd", "bc"} -> "iter"
                   [] g[1] = "hs"           -> "ret"
                   [] OTHER                 -> "done"

\* g calls c.close() (a direct call or a deferred one).
CallClose(g, c) ==
    /\ pc' = [pc EXCEPT ![g] = "check"]
    /\ tgt' = [tgt EXCEPT ![g] = c]

\* Server.Subscribe(c.handleEvent): append (id, callback) under eventMu.
Subscribe(c) == subs' = subs \cup {c}

\* The closure Subscribe returns: remove the entry with its id under eventMu
\* (a no-op once it is gone).
Unsubscribe(c) ==
    /\ subs' = subs \ {c}
    /\ unsubCalls' = [unsubCalls EXCEPT ![c] = @ + 1]

\* The value put into c.send by a successful send.
Enqueue(c, m) ==
    /\ queue' = [queue EXCEPT ![c] = Append(@, m)]
    /\ sentLog' = [sentLog EXCEPT ![c] = Append(@, m)]

-----------------------------------------------------------------------------
(* Handler.HandleWebSocket, on the goroutine net/http runs it on.          *)

\* Upgrade, create the Connection, client.unsubscribe = Subscribe(...).
Upgrade(c) ==
    /\ pc[hs(c)] = "idle"
    /\ Subscribe(c)
    /\ unsubFn' = [unsubFn EXCEPT ![c] = TRUE]
    /\ pc' = [pc EXCEPT ![hs(c)] = "register"]
    /\ UNCHANGED <<tgt, todo, senders, wlock, rlock, registry, cancelled,
                   sockClosed, chanVars, frames, events, ghostVars>>

\* h.connections[connID] = client, under connectionsMu.
Register(c) ==
    /\ pc[hs(c)] = "register"
    /\ LockFree
    /\ registry' = registry \cup {c}
    /\ pc' = [pc EXCEPT ![hs(c)] = "info"]
    /\ UNCHANGED <<tgt, todo, senders, wlock, rlock, subs, unsubFn, cancelled,
                   sockClosed, chanVars, frames, events, ghostVars>>

\* Direct write of the server info frame: on success start writePump and
\* readPump, on failure client.close().
SendServerInfo(c) ==
    /\ pc[hs(c)] = "info"
    /\ \/ /\ ~sockClosed[c]
          /\ pc' = [pc EXCEPT ![hs(c)] = "ret", ![rp(c)] = "loop", ![wp(c)] = "run"]
          /\ UNCHANGED tgt
       \/ CallClose(hs(c), c)
    /\ UNCHANGED <<todo, senders, wlock, rlock, connVars, chanVars, frames,
                   events, ghostVars>>

\* HandleWebSocket returns; net/http then cancels the request context
\* r.Context(), the parent of c.ctx (w.cancelCtx() after ServeHTTP).
HandlerReturn(c) ==
    /\ pc[hs(c)] = "ret"
    /\ pc' = [pc EXCEPT ![hs(c)] = "done"]
    /\ cancelled' = [cancelled EXCEPT ![c] = TRUE]
    /\ UNCHANGED <<tgt, todo, senders, wlock, rlock, registry, subs, unsubFn,
                   sockClosed, chanVars, frames, events, ghostVars>>

-----------------------------------------------------------------------------
(* Connection.readPump.                                                     *)

\* Top of the loop: return (deferred close) if c.ctx is done.
ReadCheckCtx(c) ==
    /\ pc[rp(c)] = "loop"
    /\ IF cancelled[c]
          THEN CallClose(rp(c), c)
          ELSE /\ pc' = [pc EXCEPT ![rp(c)] = "read"]
               /\ UNCHANGED tgt
    /\ UNCHANGED <<todo, senders, wlock, rlock, connVars, chanVars, frames,
                   events, ghostVars>>

\* A command frame: go c.handleCommand(cmd).  HandleCommand's result or
\* error is one message, <<"res", j>>, sent by the new goroutine.
ReadCommand(c) ==
    /\ pc[rp(c)] = "read"
    /\ ~sockClosed[c]
    /\ frames[c] < MaxFrames
    /\ frames' = [frames EXCEPT ![c] = @ + 1]
    /\ senders' = senders \cup
          {[c |-> c, m |-> <<"res", frames[c] + 1>>, pc |-> "check", from |-> "cmd"]}
    /\ pc' = [pc EXCEPT ![rp(c)] = "loop"]
    /\ UNCHANGED <<tgt, todo, wlock, rlock, connVars, chanVars, events, ghostVars>>

\* A frame that is not a command: c.sendError(..., 400, ...) on readPump.
ReadInvalid(c) ==
    /\ pc[rp(c)] = "read"
    /\ ~sockClosed[c]
    /\ frames[c] < MaxFrames
    /\ frames' = [frames EXCEPT ![c] = @ + 1]
    /\ senders' = senders \cup
          {[c |-> c, m |-> <<"err", frames[c] + 1>>, pc |-> "check", from |-> "rp"]}
    /\ pc' = [pc EXCEPT ![rp(c)] = "wait"]
    /\ UNCHANGED <<tgt, todo, wlock, rlock, connVars, chanVars, events, ghostVars>>

\* sendError has returned: continue the loop.
ReadResume(c) ==
    /\ pc[rp(c)] = "wait"
    /\ ~\E s \in senders : s.c = c /\ s.from = "rp"
    /\ pc' = [pc EXCEPT ![rp(c)] = "loop"]
    /\ UNCHANGED <<tgt, todo, senders, wlock, rlock, connVars, chanVars, frames,
                   events, ghostVars>>

\* ReadMessage fails: socket closed by us, peer gone, or read deadline.
ReadFails(c) ==
    /\ pc[rp(c)] = "read"
    /\ CallClose(rp(c), c)
    /\ UNCHANGED <<todo, senders, wlock, rlock, connVars, chanVars, frames,
                   events, ghostVars>>

-----------------------------------------------------------------------------
(* Connection.writePump.  Its select is the disjunction of WriteRecv,      *)
(* WriteChanClosed, WriteCtxDone and WritePingFails.                        *)

\* message, ok := <-c.send with ok.
WriteRecv(c) ==
    /\ pc[wp(c)] = "run"
    /\ queue[c] # <<>>
    /\ batch' = [batch EXCEPT ![c] = <<Head(queue[c])>>]
    /\ queue' = [queue EXCEPT ![c] = Tail(@)]
    /\ pc' = [pc EXCEPT ![wp(c)] = "batch"]
    /\ UNCHANGED <<tgt, todo, senders, wlock, rlock, connVars, chanClosed,
                   chanClosers, frames, events, ghostVars>>

\* <-c.send with !ok: write a close frame and return.
WriteChanClosed(c) ==
    /\ pc[wp(c)] = "run"
    /\ queue[c] = <<>>
    /\ chanClosed[c]
    /\ CallClose(wp(c), c)
    /\ UNCHANGED <<todo, senders, wlock, rlock, connVars, chanVars, frames,
                   events, ghostVars>>

\* Mutant: a writePump whose select lacks the <-c.ctx.Done() case.
WriteCtxIgnored(c) == FALSE /\ UNCHANGED vars

\* <-c.ctx.Done(): return.
WriteCtxDone(c) ==
    /\ pc[wp(c)] = "run"
    /\ cancelled[c]
    /\ CallClose(wp(c), c)
    /\ UNCHANGED <<todo, senders, wlock, rlock, connVars, chanVars, frames,
                   events, ghostVars>>

\* The ticker fires and the ping write fails: return.
WritePingFails(c) ==
    /\ pc[wp(c)] = "run"
    /\ CallClose(wp(c), c)
    /\ UNCHANGED <<todo, senders, wlock, rlock, connVars, chanVars, frames,
                   events, ghostVars>>

\* Mutant: the queued messages are written ahead of the received one.
WriteBatchQueuedFirst(c) ==
    /\ pc[wp(c)] = "batch"
    /\ batch' = [batch EXCEPT ![c] = queue[c] \o @]
    /\ queue' = [queue EXCEPT ![c] = <<>>]
    /\ pc' = [pc EXCEPT ![wp(c)] = "flush"]
    /\ UNCHANGED <<tgt, todo, senders, wlock, rlock, connVars, chanClosed,
                   chanClosers, frames, events, ghostVars>>

\* Mutant: the n queued messages are received but never written.
WriteBatchDrainsUnwritten(c) ==
    /\ pc[wp(c)] = "batch"
    /\ queue' = [queue EXCEPT ![c] = <<>>]
    /\ pc' = [pc EXCEPT ![wp(c)] = "flush"]
    /\ UNCHANGED <<tgt, todo, senders, wlock, rlock, connVars, batch, chanClosed,
                   chanClosers, frames, events, ghostVars>>

\* NextWriter succeeds; n := len(c.send) further messages join the frame.
WriteBatch(c) ==
    /\ pc[wp(c)] = "batch"
    /\ batch' = [batch EXCEPT ![c] = @ \o queue[c]]
    /\ queue' = [queue EXCEPT ![c] = <<>>]
    /\ pc' = [pc EXCEPT ![wp(c)] = "flush"]
    /\ UNCHANGED <<tgt, todo, senders, wlock, rlock, connVars, chanClosed,
                   chanClosers, frames, events, ghostVars>>

\* NextWriter fails: return; the received message is lost.
WriteNextWriterFails(c) ==
    /\ pc[wp(c)] = "batch"
    /\ batch' = [batch EXCEPT ![c] = <<>>]
    /\ CallClose(wp(c), c)
    /\ UNCHANGED <<todo, senders, wlock, rlock, connVars, queue, chanClosed,
                   chanClosers, frames, events, ghostVars>>

\* w.Close() flushes the frame to the client.
WriteFlush(c) ==
    /\ pc[wp(c)] = "flush"
    /\ ~sockClosed[c]
    /\ delivered' = [delivered EXCEPT ![c] = @ \o batch[c]]
    /\ batch' = [batch EXCEPT ![c] = <<>>]
    /\ pc' = [pc EXCEPT ![wp(c)] = "run"]
    /\ UNCHANGED <<tgt, todo, senders, wlock, rlock, connVars, queue, chanClosed,
                   chanClosers, frames, events, sentLog, unsubCalls, crashed>>

\* w.Close() fails (write deadline, peer gone, socket closed): return.
WriteFlushFails(c) ==
    /\ pc[wp(c)] = "flush"
    /\ batch' = [batch EXCEPT ![c] = <<>>]
    /\ CallClose(wp(c), c)
    /\ UNCHANGED <<todo, senders, wlock, rlock, connVars, queue, chanClosed,
                   chanClosers, frames, events, ghostVars>>

-----------------------------------------------------------------------------
(* Connection.sendMessage, run by handleCommand, handleEvent and          *)
(* sendError.                                                               *)

\* First select: return "connection closed" if c.ctx is done.
SendCheckCtx(s) ==
    /\ s.pc = "check"
    /\ senders' = IF cancelled[s.c] THEN senders \ {s}
                  ELSE (senders \ {s}) \cup {[s EXCEPT !.pc = "select"]}
    /\ UNCHANGED <<pc, tgt, todo, wlock, rlock, connVars, chanVars, frames,
                   events, ghostVars>>

\* Mutant: a send that does not block on a full channel.
SendEnqueueUnbounded(s) ==
    /\ s.pc = "select"
    /\ ~chanClosed[s.c]
    /\ Enqueue(s.c, s.m)
    /\ senders' = senders \ {s}
    /\ UNCHANGED <<pc, tgt, todo, wlock, rlock, connVars, batch, chanClosed,
                   chanClosers, frames, events, delivered, unsubCalls, crashed>>

\* Second select, case c.send <- data.
SendEnqueue(s) ==
    /\ s.pc = "select"
    /\ ~chanClosed[s.c]
    /\ Len(queue[s.c]) < SendCap
    /\ Enqueue(s.c, s.m)
    /\ senders' = senders \ {s}
    /\ UNCHANGED <<pc, tgt, todo, wlock, rlock, connVars, batch, chanClosed,
                   chanClosers, frames, events, delivered, unsubCalls, crashed>>

\* Second select, case c.send <- data on a closed channel: the select may
\* choose it even when <-c.ctx.Done() is ready too, and it panics.
SendOnClosedChan(s) ==
    /\ s.pc = "select"
    /\ chanClosed[s.c]
    /\ crashed' = TRUE
    /\ UNCHANGED <<pc, tgt, todo, senders, wlock, rlock, connVars, chanVars,
                   frames, events, sentLog, delivered, unsubCalls>>

\* Second select, case <-c.ctx.Done(): "connection closed".
SendCtxDone(s) ==
    /\ s.pc = "select"
    /\ cancelled[s.c]
    /\ senders' = senders \ {s}
    /\ UNCHANGED <<pc, tgt, todo, wlock, rlock, connVars, chanVars, frames,
                   events, ghostVars>>

\* Second select, case time.After(1s): only once blocked on a full queue.
SendTimeout(s) ==
    /\ s.pc = "select"
    /\ ~chanClosed[s.c]
    /\ ~cancelled[s.c]
    /\ Len(queue[s.c]) = SendCap
    /\ senders' = senders \ {s}
    /\ UNCHANGED <<pc, tgt, todo, wlock, rlock, connVars, chanVars, frames,
                   events, ghostVars>>

-----------------------------------------------------------------------------
(* Server.EmitEvent: snapshot eventCallbacks under eventMu.RLock, then    *)
(* one goroutine per callback; each callback is Connection.handleEvent.   *)
EmitEvent ==
    /\ events < MaxEvents
    /\ events' = events + 1
    /\ senders' = senders \cup
          {[c |-> x, m |-> <<"ev", events + 1>>, pc |-> "check", from |-> "ev"] :
              x \in subs}
    /\ UNCHANGED <<pc, tgt, todo, wlock, rlock, connVars, chanVars, frames,
                   ghostVars>>

-----------------------------------------------------------------------------
(* Connection.close(), run by goroutine g on connection tgt[g].            *)

\* select on c.ctx.Done(): return if it is done ("Only close once").
CloseCheckCtx(g) ==
    /\ pc[g] = "check"
    /\ IF cancelled[tgt[g]]
          THEN /\ pc' = [pc EXCEPT ![g] = AfterClose(g)]
               /\ tgt' = [tgt EXCEPT ![g] = NoConn]
          ELSE /\ pc' = [pc EXCEPT ![g] = "unsub"]
               /\ UNCHANGED tgt
    /\ UNCHANGED <<todo, senders, wlock, rlock, connVars, chanVars, frames,
                   events, ghostVars>>

\* if c.unsubscribe != nil { c.unsubscribe() }: the closure removes the
\* entry with its id from eventCallbacks under eventMu.
CloseUnsubscribe(g) ==
    /\ pc[g] = "unsub"
    /\ LET c == tgt[g] IN
       IF unsubFn[c]
          THEN /\ Unsubscribe(c)
               /\ pc' = [pc EXCEPT ![g] = "nil"]
          ELSE /\ pc' = [pc EXCEPT ![g] = "cancel"]
               /\ UNCHANGED <<subs, unsubCalls>>
    /\ UNCHANGED <<tgt, todo, senders, wlock, rlock, registry, unsubFn,
                   cancelled, sockClosed, chanVars, frames, events, sentLog,
                   delivered, crashed>>

\* c.unsubscribe = nil
CloseClearUnsub(g) ==
    /\ pc[g] = "nil"
    /\ unsubFn' = [unsubFn EXCEPT ![tgt[g]] = FALSE]
    /\ pc' = [pc EXCEPT ![g] = "cancel"]
    /\ UNCHANGED <<tgt, todo, senders, wlock, rlock, registry, subs, cancelled,
                   sockClosed, chanVars, frames, events, ghostVars>>

\* Mutant: close() that never calls c.cancel().
CloseNoCancel(g) ==
    /\ pc[g] = "cancel"
    /\ pc' = [pc EXCEPT ![g] = "lock"]
    /\ UNCHANGED <<tgt, todo, senders, wlock, rlock, connVars, chanVars,
                   frames, events, ghostVars>>

\* c.cancel()
CloseCancel(g) ==
    /\ pc[g] = "cancel"
    /\ cancelled' = [cancelled EXCEPT ![tgt[g]] = TRUE]
    /\ pc' = [pc EXCEPT ![g] = "lock"]
    /\ UNCHANGED <<tgt, todo, senders, wlock, rlock, registry, subs, unsubFn,
                   sockClosed, chanVars, frames, events, ghostVars>>

\* Mutant: close() that leaves the map entry in place.
CloseNoDelete(g) ==
    /\ pc[g] = "lock"
    /\ LockFree
    /\ pc' = [pc EXCEPT ![g] = "spawn"]
    /\ UNCHANGED <<tgt, todo, senders, wlock, rlock, connVars, chanVars,
                   frames, events, ghostVars>>

\* connectionsMu.Lock(); delete(connections, c.id); Unlock().  Blocks
\* while anyone, g itself included, holds connectionsMu.
CloseUnregister(g) ==
    /\ pc[g] = "lock"
    /\ LockFree
    /\ registry' = registry \ {tgt[g]}
    /\ pc' = [pc EXCEPT ![g] = "spawn"]
    /\ UNCHANGED <<tgt, todo, senders, wlock, rlock, subs, unsubFn, cancelled,
                   sockClosed, chanVars, frames, events, ghostVars>>

\* go func(){ close(c.send) }(); c.conn.Close(); return.
CloseSocket(g) ==
    /\ pc[g] = "spawn"
    /\ chanClosers' = [chanClosers EXCEPT ![tgt[g]] = @ + 1]
    /\ sockClosed' = [sockClosed EXCEPT ![tgt[g]] = TRUE]
    /\ pc' = [pc EXCEPT ![g] = AfterClose(g)]
    /\ tgt' = [tgt EXCEPT ![g] = NoConn]
    /\ UNCHANGED <<todo, senders, wlock, rlock, registry, subs, unsubFn,
                   cancelled, queue, batch, chanClosed, frames, events, ghostVars>>

\* The spawned goroutine: close(c.send); a second close panics into its
\* recover() and changes nothing.
CloseSendChan(c) ==
    /\ chanClosers[c] > 0
    /\ chanClosers' = [chanClosers EXCEPT ![c] = @ - 1]
    /\ chanClosed' = [chanClosed EXCEPT ![c] = TRUE]
    /\ UNCHANGED <<pc, tgt, todo, senders, wlock, rlock, connVars, queue, batch,
                   frames, events, ghostVars>>

-----------------------------------------------------------------------------
(* Handler.Shutdown: under connectionsMu.Lock, close every connection,    *)
(* then replace the map by an empty one.                                   *)

ShutdownLock ==
    /\ "shutdown" \in AdminOps
    /\ pc[SD] = "idle"
    /\ LockFree
    /\ wlock' = SD
    /\ todo' = [todo EXCEPT ![SD] = registry]
    /\ pc' = [pc EXCEPT ![SD] = "iter"]
    /\ UNCHANGED <<tgt, senders, rlock, connVars, chanVars, frames, events,
                   ghostVars>>

ShutdownCloseNext ==
    /\ pc[SD] = "iter"
    /\ \E c \in todo[SD] :
          /\ todo' = [todo EXCEPT ![SD] = @ \ {c}]
          /\ CallClose(SD, c)
    /\ UNCHANGED <<senders, wlock, rlock, connVars, chanVars, frames, events,
                   ghostVars>>

ShutdownEnd ==
    /\ pc[SD] = "iter"
    /\ todo[SD] = {}
    /\ registry' = {}
    /\ wlock' = NoG
    /\ pc' = [pc EXCEPT ![SD] = "done"]
    /\ UNCHANGED <<tgt, todo, senders, rlock, subs, unsubFn, cancelled,
                   sockClosed, chanVars, frames, events, ghostVars>>

-----------------------------------------------------------------------------
(* Handler.BroadcastEvent: under connectionsMu.RLock, a non-blocking send *)
(* to every connection, closing the ones whose queue is full.              *)

BroadcastLock ==
    /\ "broadcast" \in AdminOps
    /\ pc[BC] = "idle"
    /\ wlock = NoG
    /\ rlock' = rlock \cup {BC}
    /\ todo' = [todo EXCEPT ![BC] = registry]
    /\ pc' = [pc EXCEPT ![BC] = "iter"]
    /\ UNCHANGED <<tgt, senders, wlock, connVars, chanVars, frames, events,
                   ghostVars>>

\* select { case conn.send <- data: default: conn.close() }.  The send case
\* is ready when the buffer has room or the channel is closed; on a closed
\* channel it panics (ChanClosedIsUnregistered shows it never is here).
BroadcastSend(c) ==
    /\ pc[BC] = "iter"
    /\ c \in todo[BC]
    /\ todo' = [todo EXCEPT ![BC] = @ \ {c}]
    /\ \/ /\ chanClosed[c] \/ Len(queue[c]) < SendCap
          /\ IF chanClosed[c]
                THEN crashed' = TRUE /\ UNCHANGED <<queue, sentLog>>
                ELSE Enqueue(c, <<"bc", 0>>) /\ UNCHANGED crashed
          /\ UNCHANGED <<pc, tgt>>
       \/ /\ ~chanClosed[c]
          /\ Len(queue[c]) = SendCap
          /\ CallClose(BC, c)
          /\ UNCHANGED <<queue, sentLog, crashed>>
    /\ UNCHANGED <<senders, wlock, rlock, connVars, batch, chanClosed,
                   chanClosers, frames, events, delivered, unsubCalls>>

BroadcastEnd ==
    /\ pc[BC] = "iter"
    /\ todo[BC] = {}
    /\ rlock' = rlock \ {BC}
    /\ pc' = [pc EXCEPT ![BC] = "done"]
    /\ UNCHANGED <<tgt, todo, senders, wlock, connVars, chanVars, frames,
                   events, ghostVars>>

-----------------------------------------------------------------------------
Next ==
    /\ ~crashed
    /\ \/ \E c \in Conns :
             \/ Upgrade(c) \/ Register(c) \/ SendServerInfo(c) \/ HandlerReturn(c)
             \/ ReadCheckCtx(c) \/ ReadCommand(c) \/ ReadInvalid(c)
             \/ ReadResume(c) \/ ReadFails(c)
             \/ WriteRecv(c) \/ WriteChanClosed(c) \/ WriteCtxDone(c)
             \/ WritePingFails(c) \/ WriteBatch(c) \/ WriteNextWriterFails(c)
             \/ WriteFlush(c) \/ WriteFlushFails(c)
             \/ CloseSendChan(c) \/ BroadcastSend(c)
       \/ \E s \in senders :
             \/ SendCheckCtx(s) \/ SendEnqueue(s) \/ SendOnClosedChan(s)
             \/ SendCtxDone(s) \/ SendTimeout(s)
       \/ \E g \in Goroutines :
             \/ CloseCheckCtx(g) \/ CloseUnsubscribe(g) \/ CloseClearUnsub(g)
             \/ CloseCancel(g) \/ CloseUnregister(g) \/ CloseSocket(g)
       \/ EmitEvent
       \/ ShutdownLock \/ ShutdownCloseNext \/ ShutdownEnd
       \/ BroadcastLock \/ BroadcastEnd

Spec == Init /\ [][Next]_vars

(***************************************************************************)
(* Fairness.  The Go scheduler runs every runnable goroutine eventually,   *)
(* so each goroutine's own steps are weakly fair.  A blocking socket read  *)
(* returns within pongWait (read deadline) and a write within writeWait,   *)
(* so "the read returns" and "the write completes" are weakly fair too,    *)
(* whichever way they end.  What clients and the rest of the server do     *)
(* (connect, EmitEvent, Shutdown, BroadcastEvent, a failing ping) is not.  *)
(***************************************************************************)
ConnStepsFair(c) ==
    /\ WF_vars(Register(c)) /\ WF_vars(SendServerInfo(c))
    /\ WF_vars(HandlerReturn(c)) /\ WF_vars(ReadCheckCtx(c))
    /\ WF_vars(ReadResume(c))
    /\ WF_vars(ReadCommand(c) \/ ReadInvalid(c) \/ ReadFails(c))
    /\ WF_vars(WriteRecv(c) \/ WriteChanClosed(c) \/ WriteCtxDone(c))
    /\ WF_vars(WriteBatch(c) \/ WriteNextWriterFails(c))
    /\ WF_vars(WriteFlush(c) \/ WriteFlushFails(c))
    /\ WF_vars(CloseSendChan(c))

SenderFair(c, m) ==
    WF_vars(\E s \in senders :
               /\ s.c = c /\ s.m = m
               /\ \/ SendCheckCtx(s) \/ SendEnqueue(s) \/ SendOnClosedChan(s)
                  \/ SendCtxDone(s) \/ SendTimeout(s))

CloseFair(g) ==
    WF_vars(CloseCheckCtx(g) \/ CloseUnsubscribe(g) \/ CloseClearUnsub(g)
            \/ CloseCancel(g) \/ CloseUnregister(g) \/ CloseSocket(g))

FairSpec ==
    /\ Spec
    /\ \A c \in Conns : ConnStepsFair(c)
    /\ \A c \in Conns, m \in Msg : SenderFair(c, m)
    /\ \A g \in Goroutines : CloseFair(g)
    /\ WF_vars(ShutdownCloseNext) /\ WF_vars(ShutdownEnd)
    /\ WF_vars(\E c \in Conns : BroadcastSend(c)) /\ WF_vars(BroadcastEnd)

-----------------------------------------------------------------------------
(* Properties.                                                             *)

TypeOK ==
    /\ pc \in [Goroutines -> PCs]
    /\ tgt \in [Goroutines -> Conns \cup {NoConn}]
    /\ todo \in [{SD, BC} -> SUBSET Conns]
    /\ senders \subseteq Sender
    /\ wlock \in {SD, NoG}
    /\ rlock \subseteq {BC}
    /\ registry \subseteq Conns /\ subs \subseteq Conns
    /\ unsubFn \in [Conns -> BOOLEAN] /\ cancelled \in [Conns -> BOOLEAN]
    /\ sockClosed \in [Conns -> BOOLEAN] /\ chanClosed \in [Conns -> BOOLEAN]
    /\ \A c \in Conns : Len(queue[c]) <= SendCap
    /\ queue \in [Conns -> Seq(Msg)] /\ batch \in [Conns -> Seq(Msg)]
    /\ chanClosers \in [Conns -> Nat]
    /\ frames \in [Conns -> 0..MaxFrames] /\ events \in 0..MaxEvents
    /\ sentLog \in [Conns -> Seq(Msg)] /\ delivered \in [Conns -> Seq(Msg)]
    /\ unsubCalls \in [Conns -> Nat] /\ crashed \in BOOLEAN

\* HandleWebSocket has put c into Handler.connections.
WasRegistered(c) == pc[hs(c)] \notin {"idle", "register"}

\* A close() of c is past its "already closed" check.
CloseRunning(c) ==
    \E g \in Goroutines : pc[g] \in ClosePC \ {"check"} /\ tgt[g] = c

\* writePump batches with n := len(c.send) while handleCommand, handleEvent
\* and sendError goroutines keep enqueueing: what the client receives on a
\* connection is always a prefix of what was put into c.send, in order.
DeliveredInSendOrder ==
    \A c \in Conns : IsPrefix(delivered[c], sentLog[c])

\* close() cancels c.ctx before it deletes c from Handler.connections, and
\* Shutdown clears the map only after close() on every entry: a connection
\* that left the registry never has live pumps that Shutdown cannot reach.
UnregisteredIsCancelled ==
    \A c \in Conns : WasRegistered(c) /\ c \notin registry => cancelled[c]

\* close() deletes c from Handler.connections before its goroutine closes
\* c.send, so BroadcastEvent, which sends to registered connections under
\* RLock, never sends on a closed channel.
ChanClosedIsUnregistered ==
    \A c \in Conns : chanClosed[c] => c \notin registry

\* Once c.ctx is cancelled, readPump and writePump both return and the
\* HandleWebSocket goroutine is finished: no goroutine of c leaks.
PumpsExitAfterCancel ==
    \A c \in Conns :
        cancelled[c] ~> (crashed \/ /\ pc[hs(c)] = "done"
                                    /\ pc[rp(c)] \in {"idle", "done"}
                                    /\ pc[wp(c)] \in {"idle", "done"})

\* The spec: "the unsubscribe handle is invoked exactly once"; concurrent
\* close() calls from readPump and writePump must collapse to one.
UnsubscribeAtMostOnce ==
    \A c \in Conns : unsubCalls[c] <= 1

\* Handler.Shutdown (Lock) and BroadcastEvent (RLock) call close(), which
\* takes connectionsMu.Lock again: no goroutine may wait for a lock it holds.
NoRecursiveLock ==
    \A g \in Goroutines : pc[g] = "lock" => g # wlock /\ g \notin rlock

\* The spec: within one subscriber, events are delivered in publish order
\* "via the per-connection outbound queue".
EventsInEmitOrder ==
    \A c \in Conns : \A i, j \in DOMAIN sentLog[c] :
        /\ i < j
        /\ sentLog[c][i][1] = "ev" /\ sentLog[c][j][1] = "ev"
        => sentLog[c][i][2] < sentLog[c][j][2]

\* No goroutine sends on c.send after close(c.send) (a panic that is not
\* recovered and ends the process).
NoSendOnClosedChan == ~crashed

\* The spec: "a session is registered in the Session Registry if and only if
\* it has not yet been closed".  close() itself treats a done c.ctx as
\* "closed"; once no close() is under way, a closed session must be neither
\* registered nor subscribed.
ClosedSessionReleased ==
    \A c \in Conns :
        cancelled[c] /\ ~CloseRunning(c) => c \notin registry /\ c \notin subs

-----------------------------------------------------------------------------
(* Refinement: the outbound path implements OutboundQueue.  A message is   *)
(* accepted when a send puts it into c.send; it is written when the frame  *)
(* holding it is flushed.  The writer is writePump, live from its start    *)
(* until it calls close().                                                 *)
WriterState(c) ==
    CASE pc[wp(c)] = "idle"                        -> "before"
      [] pc[wp(c)] \in {"run", "batch", "flush"}   -> "live"
      [] OTHER                                     -> "gone"

Outbound == INSTANCE OutboundQueue
    WITH Msgs <- Msg, accepted <- sentLog, wire <- delivered,
         writer <- [c \in Conns |-> WriterState(c)]

\* writePump's batching (the received message, then n := len(c.send) more
\* in one frame) racing the senders, and its exits, implement the queue:
\* the client gets the accepted messages in order with none skipped, and
\* while writePump runs every message put into c.send is written.
RefinesOutboundQueue == Outbound!QSpec

=============================================================================
