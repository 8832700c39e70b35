------------------------------ MODULE Handler -------------------------------
(***************************************************************************)
(* The life of the connections of one SignalG Handler (server.go): upgrade,*)
(* admission, hub callbacks, read loop, removal; the heartbeat that closes *)
(* idle connections; and Shutdown, which drains them all.                  *)
(*                                                                         *)
(* A connection is reduced to what Connection proves of it: its operations *)
(* are at most one hub callback and the frames accepted and not yet        *)
(* written or discarded, and a drain is complete when there is none.  The  *)
(* registry is reduced to the set of registered connections; its indexes   *)
(* and the online counter are the subject of module Registry, the times    *)
(* and wake-ups of the heartbeat that of module Heartbeat.                 *)
(***************************************************************************)
EXTENDS Integers, FiniteSets

CONSTANTS
  Conns,            \* upgrade requests and the connections they become
  MaxPending,       \* bound of the model: frames of one connection in flight
  HeartbeatEnabled, \* PingInterval and PingTimeout are positive
  HubFails          \* hub callbacks may return errors or panic

ASSUME HandlerConstants ==
  /\ IsFiniteSet(Conns) /\ MaxPending \in Nat \ {0}
  /\ HeartbeatEnabled \in BOOLEAN /\ HubFails \in BOOLEAN

VARIABLES
  stage,        \* where ServeHTTP is for each connection
  inHandler,    \* connections inside runHandlerOperation
  pending,      \* frames accepted and not yet written or discarded
  draining,     \* connections whose beginDrain was called
  ctxDone,      \* connections whose context is cancelled
  wsClosed,     \* connections whose websocket is closed, by this side or by the peer
  discarded,    \* history: connections that lost a frame while their websocket was open
  callbacks,    \* hub callbacks so far: "none", "connected", "abandoned", "disconnected"
  registered,   \* h.registry
  active,       \* h.active
  shuttingDown, \* h.shuttingDown
  heartbeatStop,\* h.heartbeatStop is closed
  heartbeat,    \* the heartbeat goroutine: "running" or "exited"
  expired,      \* connections the heartbeat took out of the registry and has not closed yet
  shutdown,     \* where Shutdown is
  snapshot,     \* drainingConnections
  todo          \* those of them the current loop of Shutdown has still to visit

connVars == <<stage, inHandler, pending, callbacks>>
closeVars == <<ctxDone, wsClosed>>
admitVars == <<registered, active>>
beatVars == <<heartbeatStop, heartbeat, expired>>
downVars == <<draining, shuttingDown, shutdown, snapshot, todo>>
vars == <<connVars, closeVars, discarded, admitVars, beatVars, downVars>>

Go(c, s) == stage' = [stage EXCEPT ![c] = s]

\* The connection's opsDone is closed (Connection!OpsAccounted, OpsDoneSignals).
Drained(c) == c \notin inHandler /\ pending[c] = 0

NewHandler ==
  /\ stage = [c \in Conns |-> "request"]
  /\ inHandler = {} /\ pending = [c \in Conns |-> 0]
  /\ draining = {} /\ ctxDone = {} /\ wsClosed = {} /\ discarded = {}
  /\ callbacks = [c \in Conns |-> "none"]
  /\ registered = {} /\ active = 0
  /\ shuttingDown = FALSE
  /\ heartbeatStop = FALSE /\ expired = {}
  /\ heartbeat = IF HeartbeatEnabled THEN "running" ELSE "exited"
  /\ shutdown = "none" /\ snapshot = {} /\ todo = {}

Init == NewHandler
-----------------------------------------------------------------------------
(***************************************************************************)
(* ServeHTTP up to admission.                                              *)
(***************************************************************************)

\* Path, shutdown and origin checks.
checkRequest(c) ==
  /\ stage[c] = "request"
  /\ \/ Go(c, "refused")
     \/ ~shuttingDown /\ Go(c, "accept")
  /\ UNCHANGED <<discarded, inHandler, pending, callbacks, closeVars, admitVars, beatVars, downVars>>

\* websocket.Accept, the connection id and the user id.
acceptWebsocket(c) ==
  /\ stage[c] = "accept"
  /\ \/ Go(c, "refused") /\ wsClosed' = wsClosed \cup {c}
     \/ Go(c, "factory") /\ UNCHANGED wsClosed
  /\ UNCHANGED <<discarded, inHandler, pending, callbacks, ctxDone, admitVars, beatVars, downVars>>

\* newConnection and the hub factory.
createHub(c) ==
  /\ stage[c] = "factory"
  /\ \/ /\ Go(c, "refused")
        /\ ctxDone' = ctxDone \cup {c} /\ wsClosed' = wsClosed \cup {c}
     \/ Go(c, "admit") /\ UNCHANGED closeVars
  /\ UNCHANGED <<discarded, inHandler, pending, callbacks, admitVars, beatVars, downVars>>

\* Mutant: admission does not look at shuttingDown again.
MayAdmit_Unchecked == TRUE

MayAdmit == ~shuttingDown

addConnection(c) ==
  /\ stage[c] = "admit"
  /\ \/ /\ MayAdmit
        /\ Go(c, "admitted")
        /\ active' = active + 1
        /\ registered' = registered \cup {c}
        /\ UNCHANGED closeVars
     \/ /\ ~MayAdmit
        /\ Go(c, "refused")
        /\ ctxDone' = ctxDone \cup {c} /\ wsClosed' = wsClosed \cup {c}
        /\ UNCHANGED admitVars
  /\ UNCHANGED <<discarded, inHandler, pending, callbacks, beatVars, downVars>>
-----------------------------------------------------------------------------
(***************************************************************************)
(* Callbacks.  runHandlerOperation refuses to run one on a draining        *)
(* connection.                                                             *)
(***************************************************************************)

\* Mutant: callbacks begin on a draining connection.
MayRunHandler_Ungated(c) == TRUE

MayRunHandler(c) == c \notin draining

beginOnConnected(c) ==
  /\ stage[c] = "admitted"
  /\ \/ /\ MayRunHandler(c)
        /\ Go(c, "onConnected")
        /\ inHandler' = inHandler \cup {c}
        /\ callbacks' = [callbacks EXCEPT ![c] = "connected"]
        /\ UNCHANGED wsClosed
     \/ /\ ~MayRunHandler(c)
        /\ Go(c, "deferred")
        /\ wsClosed' = wsClosed \cup {c}
        /\ UNCHANGED <<inHandler, callbacks>>
  /\ UNCHANGED <<discarded, pending, ctxDone, admitVars, beatVars, downVars>>

\* OnConnected returns nil, an error, or ErrHandlerShuttingDown (passed on from a
\* Send it made), which ServeHTTP does not tell from its own refusal.
endOnConnected(c) ==
  /\ stage[c] = "onConnected"
  /\ inHandler' = inHandler \ {c}
  /\ \/ Go(c, "greet") /\ UNCHANGED <<callbacks, wsClosed>>
     \/ HubFails /\ Go(c, "leaveClosing") /\ UNCHANGED <<callbacks, wsClosed>>
     \/ /\ shuttingDown /\ HubFails
        /\ Go(c, "deferred")
        /\ callbacks' = [callbacks EXCEPT ![c] = "abandoned"]
        /\ wsClosed' = wsClosed \cup {c}
  /\ UNCHANGED <<discarded, pending, ctxDone, admitVars, beatVars, downVars>>

\* Mutant: Send does not look at draining.
MayBeginSend_Ungated(c) == TRUE

\* beginSendOperation: while draining only a running callback may send.
MayBeginSend(c) == c \in draining => c \in inHandler

\* Send accepts a frame: beginSendOperation and enqueueFrame.
MaySend(c) == MayBeginSend(c) /\ c \notin ctxDone /\ pending[c] < MaxPending

\* Send finds the queue full and disconnects the slow consumer.
SendOverflows(c) == MayBeginSend(c) /\ c \notin ctxDone /\ pending[c] = MaxPending

\* Mutant: a failed sendConnected returns without OnDisconnected.
sendConnected_ReturnsEarly(c) ==
  /\ stage[c] = "greet"
  /\ \/ MaySend(c) /\ Go(c, "reading") /\ pending' = [pending EXCEPT ![c] = @ + 1]
     \/ Go(c, "deferred") /\ UNCHANGED pending
  /\ UNCHANGED <<discarded, inHandler, callbacks, closeVars, admitVars, beatVars, downVars>>

\* sendConnected, outside any handler operation.
sendConnected(c) ==
  /\ stage[c] = "greet"
  /\ \/ MaySend(c) /\ Go(c, "reading") /\ pending' = [pending EXCEPT ![c] = @ + 1]
     \/ Go(c, "leaveClosing") /\ UNCHANGED pending
  /\ UNCHANGED <<discarded, inHandler, callbacks, closeVars, admitVars, beatVars, downVars>>

\* readLoop: Reader returns a frame; what follows uses it, whatever happens to the
\* connection meanwhile.
readFrame(c) ==
  /\ stage[c] = "reading" /\ c \notin ctxDone \cup wsClosed
  /\ Go(c, "frame")
  /\ UNCHANGED <<discarded, inHandler, pending, callbacks, closeVars, admitVars, beatVars, downVars>>

\* readLoop: Reader fails, because this side closed or the peer is gone.
readError(c) ==
  /\ stage[c] = "reading"
  /\ Go(c, "leave")
  /\ wsClosed' = wsClosed \cup {c}
  /\ UNCHANGED <<discarded, inHandler, pending, callbacks, ctxDone, admitVars, beatVars, downVars>>

\* readLoop: a frame that is not binary or does not decode closes the connection; one
\* whose body cannot be read, because the websocket has failed, only ends the loop.
invalidFrame(c) ==
  /\ stage[c] = "frame"
  /\ Go(c, "leave")
  /\ wsClosed' = wsClosed \cup {c}
  /\ ctxDone' \in {ctxDone, ctxDone \cup {c}}
  /\ UNCHANGED <<discarded, inHandler, pending, callbacks, admitVars, beatVars, downVars>>

\* readLoop: a pong needs no answer.
readPong(c) ==
  /\ stage[c] = "frame"
  /\ Go(c, "reading")
  /\ UNCHANGED <<discarded, inHandler, pending, callbacks, closeVars, admitVars, beatVars, downVars>>

\* readLoop: a message for OnMessage or the dispatcher.
readMessage(c) ==
  /\ stage[c] = "frame"
  /\ \/ MayRunHandler(c) /\ Go(c, "onMessage") /\ inHandler' = inHandler \cup {c}
     \/ ~MayRunHandler(c) /\ Go(c, "leave") /\ UNCHANGED inHandler
  /\ UNCHANGED <<discarded, pending, callbacks, closeVars, admitVars, beatVars, downVars>>

\* The callback returns; an error ends the read loop.
endOnMessage(c) ==
  /\ stage[c] = "onMessage"
  /\ inHandler' = inHandler \ {c}
  /\ Go(c, "reading") \/ (HubFails /\ Go(c, "leave"))
  /\ UNCHANGED <<discarded, pending, callbacks, closeVars, admitVars, beatVars, downVars>>

\* readLoop: a ping.  Pong is a Send outside any handler operation; its failure
\* ends the read loop.
handleProtocolPing(c) ==
  /\ stage[c] = "frame"
  /\ \/ /\ MaySend(c) /\ Go(c, "onPing")
        /\ pending' = [pending EXCEPT ![c] = @ + 1] /\ UNCHANGED closeVars
     \/ /\ ~MaySend(c) /\ ~SendOverflows(c) /\ Go(c, "leave")
        /\ UNCHANGED <<pending, closeVars>>
     \/ /\ SendOverflows(c) /\ Go(c, "leave")
        /\ ctxDone' = ctxDone \cup {c} /\ wsClosed' = wsClosed \cup {c} /\ UNCHANGED pending
  /\ UNCHANGED <<discarded, inHandler, callbacks, admitVars, beatVars, downVars>>

\* OnPing, if the hub has one; that it may not run any more is ignored.
beginOnPing(c) ==
  /\ stage[c] = "onPing" /\ c \notin inHandler
  /\ \/ MayRunHandler(c) /\ inHandler' = inHandler \cup {c} /\ UNCHANGED stage
     \/ Go(c, "reading") /\ UNCHANGED inHandler
  /\ UNCHANGED <<discarded, pending, callbacks, closeVars, admitVars, beatVars, downVars>>

endOnPing(c) ==
  /\ stage[c] = "onPing" /\ c \in inHandler
  /\ Go(c, "reading") /\ inHandler' = inHandler \ {c}
  /\ UNCHANGED <<discarded, pending, callbacks, closeVars, admitVars, beatVars, downVars>>
-----------------------------------------------------------------------------
(***************************************************************************)
(* ServeHTTP after the read loop, and its deferred calls.                  *)
(***************************************************************************)

\* Mutant: OnDisconnected is called before removeConnection.
removeConnection_AfterCallback(c) ==
  /\ stage[c] \in {"leave", "leaveClosing"}
  /\ callbacks' = [callbacks EXCEPT ![c] = "disconnected"]
  /\ Go(c, "deferred")
  /\ UNCHANGED <<discarded, inHandler, pending, closeVars, admitVars, beatVars, downVars>>

removeConnection(c) ==
  /\ stage[c] \in {"leave", "leaveClosing"}
  /\ registered' = registered \ {c}
  /\ Go(c, IF stage[c] = "leave" THEN "onDisconnected" ELSE "onDisconnectedClosing")
  /\ UNCHANGED <<discarded, inHandler, pending, callbacks, active, closeVars, beatVars, downVars>>

\* OnDisconnected; after a failed OnConnected or sendConnected also ws.CloseNow.
onDisconnected(c) ==
  /\ stage[c] \in {"onDisconnected", "onDisconnectedClosing"}
  /\ callbacks' = [callbacks EXCEPT ![c] = "disconnected"]
  /\ wsClosed' = IF stage[c] = "onDisconnected" THEN wsClosed ELSE wsClosed \cup {c}
  /\ Go(c, "deferred")
  /\ UNCHANGED <<discarded, inHandler, pending, ctxDone, admitVars, beatVars, downVars>>

\* A callback panics: runHandlerOperation's deferred endHandlerOperation and the deferred
\* calls of ServeHTTP run, the rest of it does not.
panic(c) ==
  /\ HubFails
  /\ \/ c \in inHandler
        /\ callbacks' = [callbacks EXCEPT ![c] = "abandoned"]
     \/ stage[c] \in {"onDisconnected", "onDisconnectedClosing"}
        /\ callbacks' = [callbacks EXCEPT ![c] = "disconnected"]
  /\ inHandler' = inHandler \ {c}
  /\ Go(c, "deferred")
  /\ UNCHANGED <<discarded, pending, closeVars, admitVars, beatVars, downVars>>

deferCloseContext(c) ==
  /\ stage[c] = "deferred"
  /\ ctxDone' = ctxDone \cup {c}
  /\ Go(c, "deferRemove")
  /\ UNCHANGED <<discarded, inHandler, pending, callbacks, wsClosed, admitVars, beatVars, downVars>>

deferRemove(c) ==
  /\ stage[c] = "deferRemove"
  /\ registered' = registered \ {c}
  /\ Go(c, "finish")
  /\ UNCHANGED <<discarded, inHandler, pending, callbacks, active, closeVars, beatVars, downVars>>

\* Mutant: the wait group is not told.
finishConnection_NoDone(c) ==
  /\ stage[c] = "finish"
  /\ Go(c, "done")
  /\ UNCHANGED <<discarded, inHandler, pending, callbacks, admitVars, closeVars, beatVars, downVars>>

finishConnection(c) ==
  /\ stage[c] = "finish"
  /\ active' = active - 1
  /\ Go(c, "done")
  /\ UNCHANGED <<discarded, inHandler, pending, callbacks, registered, closeVars, beatVars, downVars>>

\* Steps ServeHTTP takes by itself; hub callbacks are assumed to return.
ServeStep(c) ==
  \/ checkRequest(c) \/ acceptWebsocket(c) \/ createHub(c) \/ addConnection(c)
  \/ beginOnConnected(c) \/ endOnConnected(c) \/ sendConnected(c)
  \/ invalidFrame(c) \/ readPong(c) \/ readMessage(c) \/ handleProtocolPing(c)
  \/ endOnMessage(c) \/ beginOnPing(c) \/ endOnPing(c)
  \/ (c \in ctxDone \cup wsClosed /\ readError(c))
  \/ removeConnection(c) \/ onDisconnected(c) \/ panic(c)
  \/ deferCloseContext(c) \/ deferRemove(c) \/ finishConnection(c)
-----------------------------------------------------------------------------
(***************************************************************************)
(* Other goroutines: senders, the connection's writer, closers, heartbeat. *)
(***************************************************************************)

Live(c) == stage[c] \notin {"request", "accept", "refused"}

\* A Send by a callback or by any other goroutine that knows the connection.
send(c) ==
  /\ Live(c) /\ MaySend(c)
  /\ pending' = [pending EXCEPT ![c] = @ + 1]
  /\ UNCHANGED <<discarded, stage, inHandler, callbacks, closeVars, admitVars, beatVars, downVars>>

EndFrame(c) == pending[c] > 0 /\ pending' = [pending EXCEPT ![c] = @ - 1]

\* writeQueuedFrame: ws.Write succeeds.
writeFrame(c) ==
  /\ c \notin ctxDone \cup wsClosed
  /\ EndFrame(c)
  /\ UNCHANGED <<stage, inHandler, callbacks, closeVars, discarded, admitVars, beatVars, downVars>>

\* writeQueuedFrame: ws.Write fails.
writeFails(c) ==
  /\ EndFrame(c)
  /\ ctxDone' = ctxDone \cup {c} /\ wsClosed' = wsClosed \cup {c}
  /\ UNCHANGED <<stage, inHandler, callbacks, discarded, admitVars, beatVars, downVars>>

\* discardQueuedFrames, once the context is cancelled.
discardFrame(c) ==
  /\ c \in ctxDone
  /\ EndFrame(c)
  /\ discarded' = IF c \in wsClosed THEN discarded ELSE discarded \cup {c}
  /\ UNCHANGED <<stage, inHandler, callbacks, closeVars, admitVars, beatVars, downVars>>

\* The writer is never stuck: a write succeeds or, at the write timeout, fails.
writeLoop(c) == writeFrame(c) \/ writeFails(c) \/ discardFrame(c)

\* A slow consumer, Close or a batch close.
closeConnection(c) ==
  /\ Live(c) /\ c \notin ctxDone \cap wsClosed
  /\ ctxDone' = ctxDone \cup {c} /\ wsClosed' = wsClosed \cup {c}
  /\ UNCHANGED <<discarded, connVars, admitVars, beatVars, downVars>>

\* closeExpiredIdleConnections: out of the registry first, closed afterwards.
heartbeatExpires(c) ==
  /\ heartbeat = "running" /\ c \in registered
  /\ registered' = registered \ {c}
  /\ expired' = expired \cup {c}
  /\ UNCHANGED <<discarded, connVars, closeVars, active, heartbeatStop, heartbeat, downVars>>

\* Mutant: an expired connection is only taken out of the registry.
heartbeatCloses_Forgets(c) ==
  /\ c \in expired
  /\ expired' = expired \ {c}
  /\ UNCHANGED <<discarded, connVars, closeVars, admitVars, heartbeatStop, heartbeat, downVars>>

heartbeatCloses(c) ==
  /\ c \in expired
  /\ expired' = expired \ {c}
  /\ ctxDone' = ctxDone \cup {c} /\ wsClosed' = wsClosed \cup {c}
  /\ UNCHANGED <<discarded, connVars, admitVars, heartbeatStop, heartbeat, downVars>>

\* heartbeatLoop sees heartbeatStop only between two scans.
heartbeatExits ==
  /\ heartbeat = "running" /\ heartbeatStop /\ expired = {}
  /\ heartbeat' = "exited"
  /\ UNCHANGED <<discarded, connVars, closeVars, admitVars, heartbeatStop, expired, downVars>>
-----------------------------------------------------------------------------
(***************************************************************************)
(* Shutdown.                                                               *)
(***************************************************************************)

stopHeartbeatLoop ==
  /\ shutdown = "none"
  /\ heartbeatStop' = TRUE
  /\ shutdown' = "stopped"
  /\ UNCHANGED <<discarded, connVars, closeVars, admitVars, heartbeat, expired, draining, shuttingDown,
                 snapshot, todo>>

\* beginShutdown: under admissionMu no connection is admitted between the store
\* and the snapshot.
beginShutdown ==
  /\ shutdown = "stopped"
  /\ shuttingDown' = TRUE
  /\ snapshot' = registered /\ todo' = registered
  /\ shutdown' = "draining"
  /\ UNCHANGED <<discarded, connVars, closeVars, admitVars, beatVars, draining>>

beginDrain(c) ==
  /\ shutdown = "draining" /\ c \in todo
  /\ draining' = draining \cup {c}
  /\ todo' = todo \ {c}
  /\ UNCHANGED <<discarded, connVars, closeVars, admitVars, beatVars, shuttingDown, shutdown, snapshot>>

\* From one loop over drainingConnections to the next.
nextPhase(from, to) ==
  /\ shutdown = from /\ todo = {}
  /\ shutdown' = to /\ todo' = snapshot
  /\ UNCHANGED <<discarded, connVars, closeVars, admitVars, beatVars, draining, shuttingDown, snapshot>>

waitConnectionsDrained(c) ==
  /\ shutdown = "waiting" /\ c \in todo /\ Drained(c)
  /\ todo' = todo \ {c}
  /\ UNCHANGED <<discarded, connVars, closeVars, admitVars, beatVars, draining, shuttingDown, shutdown, snapshot>>

\* The context of Shutdown is done while connections drain.
drainTimesOut ==
  /\ shutdown = "waiting" /\ todo # {}
  /\ shutdown' = "closingLate" /\ todo' = snapshot
  /\ UNCHANGED <<discarded, connVars, closeVars, admitVars, beatVars, draining, shuttingDown, snapshot>>

closeDrainingConnections(c) ==
  /\ shutdown \in {"closing", "closingLate"} /\ c \in todo
  /\ ctxDone' = ctxDone \cup {c} /\ wsClosed' = wsClosed \cup {c}
  /\ todo' = todo \ {c}
  /\ UNCHANGED <<discarded, connVars, admitVars, beatVars, draining, shuttingDown, shutdown, snapshot>>

shutdownReturns ==
  /\ \/ shutdown = "closing" /\ todo = {} /\ shutdown' = "waitActive"
     \/ shutdown = "closingLate" /\ todo = {} /\ shutdown' = "failed"
     \/ shutdown = "waitActive" /\ active = 0 /\ shutdown' = "returned"
  /\ UNCHANGED <<discarded, connVars, closeVars, admitVars, beatVars, draining, shuttingDown, snapshot, todo>>

\* The context of Shutdown is done while handlers return.
waitTimesOut ==
  /\ shutdown = "waitActive"
  /\ shutdown' = "failed"
  /\ UNCHANGED <<discarded, connVars, closeVars, admitVars, beatVars, draining, shuttingDown, snapshot, todo>>

ShutdownStep ==
  \/ beginShutdown \/ nextPhase("draining", "waiting") \/ nextPhase("waiting", "closing")
  \/ \E c \in Conns : beginDrain(c) \/ waitConnectionsDrained(c) \/ closeDrainingConnections(c)
  \/ shutdownReturns
-----------------------------------------------------------------------------
ConnStep(c) ==
  \/ ServeStep(c)
  \/ readFrame(c) \/ readError(c)
  \/ send(c) \/ writeLoop(c) \/ closeConnection(c)
  \/ heartbeatExpires(c) \/ heartbeatCloses(c)

Next ==
  \/ \E c \in Conns : ConnStep(c)
  \/ heartbeatExits \/ stopHeartbeatLoop \/ ShutdownStep \/ drainTimesOut \/ waitTimesOut

(***************************************************************************)
(* ServeHTTP, the writers, the heartbeat and Shutdown are scheduled; hub   *)
(* callbacks return; no deadline of Shutdown is relied on.  A peer may     *)
(* send messages for ever.                                                 *)
(***************************************************************************)
Fairness ==
  /\ \A c \in Conns : WF_vars(ServeStep(c)) /\ WF_vars(writeLoop(c)) /\ WF_vars(heartbeatCloses(c))
  /\ WF_vars(ShutdownStep)

Spec == Init /\ [][Next]_vars /\ Fairness
-----------------------------------------------------------------------------
(***************************************************************************)
(* Properties.                                                             *)
(***************************************************************************)

Stages == {"request", "accept", "factory", "admit", "refused", "admitted", "onConnected", "greet",
           "reading", "frame", "onMessage", "onPing", "leave", "leaveClosing", "onDisconnected",
           "onDisconnectedClosing", "deferred", "deferRemove", "finish", "done"}
Unadmitted == {"request", "accept", "factory", "admit", "refused"}
Serving == {c \in Conns : stage[c] \notin Unadmitted \cup {"done"}}

\* Every variable has its type, and the wait group counts exactly the ServeHTTP
\* calls between admission and finishConnection: no path skips or repeats Done.
TypeOK ==
  /\ stage \in [Conns -> Stages]
  /\ pending \in [Conns -> 0 .. MaxPending]
  /\ callbacks \in [Conns -> {"none", "connected", "abandoned", "disconnected"}]
  /\ inHandler \subseteq Conns /\ draining \subseteq Conns
  /\ ctxDone \subseteq Conns /\ wsClosed \subseteq Conns /\ discarded \subseteq Conns
  /\ registered \subseteq Serving /\ expired \subseteq Conns
  /\ snapshot \subseteq Conns /\ todo \subseteq snapshot
  /\ active = Cardinality(Serving)
  /\ shuttingDown \in BOOLEAN /\ heartbeatStop \in BOOLEAN
  /\ heartbeat \in {"running", "exited"}
  /\ shutdown \in {"none", "stopped", "draining", "waiting", "closing", "closingLate",
                   "waitActive", "returned", "failed"}

\* Nothing is admitted once Shutdown has begun, not even an upgrade that passed
\* ServeHTTP's first check before: active.Wait never races with active.Add.
NoLateAdmission == [][shuttingDown => active' <= active /\ registered' \subseteq registered]_vars

\* When Shutdown returns nil, every handler has returned, nothing is registered, and
\* every connection it drained is closed.
ShutdownComplete ==
  shutdown = "returned" =>
    /\ Serving = {} /\ registered = {} /\ inHandler = {}
    /\ snapshot \subseteq ctxDone \cap wsClosed

\* Until its deadline Shutdown cuts nobody off: the connections it goes on to close
\* have no callback running and no frame waiting.
GracefulClose == shutdown \in {"closing", "waitActive"} => \A c \in snapshot : Drained(c)

\* A hub's OnDisconnected runs when its connection has left the registry for good,
\* so it sees itself neither online nor in a group or batch send.
DisconnectedIsUnregistered ==
  \A c \in Conns : callbacks[c] = "disconnected" => c \notin registered

\* Whichever way ServeHTTP is left, its hub got OnDisconnected if OnConnected ran (unless
\* OnConnected returned ErrHandlerShuttingDown or a callback panicked), and nothing of the
\* connection is left: its context is cancelled, so that its writer ends, it is not
\* registered, and no operation keeps a drain waiting.
CallbacksPaired ==
  \A c \in Conns : stage[c] = "done" =>
    /\ callbacks[c] # "connected"
    /\ c \in ctxDone /\ c \notin registered \cup inHandler

\* When Shutdown returns nil, no connection it drained has lost a frame it had accepted
\* while its peer was there, as the test of Shutdown with a message in flight expects.
ShutdownDelivers == shutdown = "returned" => snapshot \cap discarded = {}

\* Once shutting down, every admitted connection is closed and its handler returns,
\* also the one the heartbeat took out of the registry before the snapshot, and also
\* when Shutdown has given up at its deadline.
HandlersReturn == shuttingDown ~> active = 0
=============================================================================
