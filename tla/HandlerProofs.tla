--------------------------- MODULE HandlerProofs ----------------------------
(***************************************************************************)
(* What Handler guarantees for any finite set of connections and any       *)
(* number of frames in flight: the exact wait group, that nothing is       *)
(* admitted late, the order of the callbacks, and what Shutdown has closed *)
(* and drained when it goes on or returns.                                 *)
(***************************************************************************)
EXTENDS Handler, FiniteSetTheorems, TLAPS

(***************************************************************************)
(* The inductive invariant: what is known of one connection, and what of   *)
(* Shutdown's loops over the connections of its snapshot.                  *)
(***************************************************************************)
InCallback == {"onConnected", "onMessage", "onPing"}
Deferred == {"deferred", "deferRemove", "finish", "done"}

ConnInv(c) ==
  /\ c \in inHandler => stage[c] \in InCallback
  /\ stage[c] \in Unadmitted \cup {"admitted"} => callbacks[c] = "none"
  /\ stage[c] \in Unadmitted \cup {"onDisconnected", "onDisconnectedClosing", "finish", "done"} =>
       c \notin registered
  /\ callbacks[c] = "disconnected" => stage[c] \in Deferred /\ c \notin registered
  /\ stage[c] \in Deferred => callbacks[c] # "connected"
  /\ stage[c] \in Deferred \ {"deferred"} => c \in ctxDone

Visited == snapshot \ todo

ShutdownInv ==
  /\ shuttingDown <=> shutdown \notin {"none", "stopped"}
  /\ shutdown = "draining" => Visited \subseteq draining
  /\ shutdown \in {"waiting", "closing", "waitActive"} => snapshot \subseteq draining
  /\ shutdown = "waiting" => \A c \in Visited : Drained(c)
  /\ GracefulClose
  /\ shutdown = "closing" => Visited \subseteq ctxDone \cap wsClosed
  /\ shutdown \in {"waitActive", "returned"} => snapshot \subseteq ctxDone \cap wsClosed
  /\ shutdown = "returned" => active = 0

IInv == TypeOK /\ (\A c \in Conns : ConnInv(c)) /\ ShutdownInv

-----------------------------------------------------------------------------
(***************************************************************************)
(* The steps of one connection.                                            *)
(***************************************************************************)

\* The types, without the count of the wait group.
Types ==
  /\ stage \in [Conns -> Stages]
  /\ pending \in [Conns -> 0 .. MaxPending]
  /\ callbacks \in [Conns -> {"none", "connected", "abandoned", "disconnected"}]
  /\ inHandler \subseteq Conns /\ draining \subseteq Conns
  /\ ctxDone \subseteq Conns /\ wsClosed \subseteq Conns /\ discarded \subseteq Conns
  /\ registered \subseteq Conns /\ expired \subseteq Conns
  /\ snapshot \subseteq Conns /\ todo \subseteq snapshot
  /\ shuttingDown \in BOOLEAN /\ heartbeatStop \in BOOLEAN
  /\ heartbeat \in {"running", "exited"}
  /\ shutdown \in {"none", "stopped", "draining", "waiting", "closing", "closingLate",
                   "waitActive", "returned", "failed"}

\* A step of connection c leaves the others and Shutdown alone, and reopens nothing.
Local(c) ==
  /\ \A d \in Conns \ {c} :
       /\ stage'[d] = stage[d] /\ pending'[d] = pending[d] /\ callbacks'[d] = callbacks[d]
       /\ d \in inHandler' <=> d \in inHandler
       /\ d \in registered' <=> d \in registered
  /\ ctxDone \subseteq ctxDone' /\ wsClosed \subseteq wsClosed'
  /\ UNCHANGED <<draining, shuttingDown, shutdown, snapshot, todo>>

\* What a step of c does to c: its invariant, the wait group, and a completed drain.
Sound(c) ==
  /\ ConnInv(c)'
  /\ c \in registered' => stage'[c] \notin Unadmitted \cup {"done"}
  /\ \/ active' = active /\ (stage'[c] \in Unadmitted \cup {"done"} <=> stage[c] \in Unadmitted \cup {"done"})
     \/ /\ active' = active + 1 /\ ~shuttingDown
        /\ stage[c] \in Unadmitted /\ stage'[c] \notin Unadmitted \cup {"done"}
     \/ active' = active - 1 /\ stage[c] \notin Unadmitted \cup {"done"} /\ stage'[c] = "done"
  /\ shuttingDown => (c \in registered' => c \in registered)
  /\ c \in draining /\ Drained(c) => Drained(c)'

LEMMA ConnSteps ==
  ASSUME Types, registered \subseteq Serving, NEW c \in Conns, ConnInv(c), ConnStep(c)
  PROVE  Types' /\ Local(c) /\ Sound(c)
<1> USE HandlerConstants DEF Types, Local, Sound, ConnInv, Serving, Unadmitted, Deferred, InCallback, Stages, Go,
        connVars, closeVars, admitVars, beatVars, downVars, Drained
<1>1. CASE checkRequest(c)
  BY <1>1 DEF checkRequest
<1>2. CASE acceptWebsocket(c)
  BY <1>2 DEF acceptWebsocket
<1>3. CASE createHub(c)
  BY <1>3 DEF createHub
<1>4. CASE addConnection(c)
  BY <1>4 DEF addConnection, MayAdmit
<1>5. CASE beginOnConnected(c)
  BY <1>5 DEF beginOnConnected, MayRunHandler
<1>6. CASE endOnConnected(c)
  BY <1>6 DEF endOnConnected
<1>7. CASE sendConnected(c)
  BY <1>7 DEF sendConnected, MaySend, MayBeginSend
<1>8. CASE invalidFrame(c)
  BY <1>8 DEF invalidFrame
<1>9. CASE readPong(c)
  BY <1>9 DEF readPong
<1>10. CASE readMessage(c)
  BY <1>10 DEF readMessage, MayRunHandler
<1>11. CASE handleProtocolPing(c)
  BY <1>11 DEF handleProtocolPing, MaySend, MayBeginSend, SendOverflows
<1>12. CASE endOnMessage(c)
  BY <1>12 DEF endOnMessage
<1>13. CASE beginOnPing(c)
  BY <1>13 DEF beginOnPing, MayRunHandler
<1>14. CASE endOnPing(c)
  BY <1>14 DEF endOnPing
<1>15. CASE readFrame(c)
  BY <1>15 DEF readFrame
<1>16. CASE readError(c)
  BY <1>16 DEF readError
<1>17. CASE removeConnection(c)
  BY <1>17 DEF removeConnection
<1>18. CASE onDisconnected(c)
  BY <1>18 DEF onDisconnected
<1>19. CASE panic(c)
  BY <1>19 DEF panic
<1>20. CASE deferCloseContext(c)
  BY <1>20 DEF deferCloseContext
<1>21. CASE deferRemove(c)
  BY <1>21 DEF deferRemove
<1>22. CASE finishConnection(c)
  BY <1>22 DEF finishConnection
<1>23. CASE send(c)
  BY <1>23 DEF send, MaySend, MayBeginSend
<1>24. CASE writeFrame(c)
  BY <1>24 DEF writeFrame, EndFrame
<1>25. CASE writeFails(c)
  BY <1>25 DEF writeFails, EndFrame
<1>26. CASE discardFrame(c)
  BY <1>26 DEF discardFrame, EndFrame
<1>27. CASE closeConnection(c)
  BY <1>27 DEF closeConnection
<1>28. CASE heartbeatExpires(c)
  BY <1>28 DEF heartbeatExpires
<1>29. CASE heartbeatCloses(c)
  BY <1>29 DEF heartbeatCloses
<1> QED
  BY <1>1, <1>2, <1>3, <1>4, <1>5, <1>6, <1>7, <1>8, <1>9, <1>10, <1>11, <1>12, <1>13, <1>14, <1>15, <1>16, <1>17, <1>18, <1>19, <1>20, <1>21, <1>22, <1>23, <1>24, <1>25, <1>26, <1>27, <1>28, <1>29
  DEF ConnStep, ServeStep, writeLoop

LEMMA TypeParts == TypeOK <=> Types /\ registered \subseteq Serving /\ active = Cardinality(Serving)
BY DEF TypeOK, Types, Serving

\* The wait group follows ServeHTTP of c in and out.
LEMMA ServingCounted ==
  ASSUME TypeOK, NEW c \in Conns, Types', Local(c), Sound(c)
  PROVE  active' = Cardinality(Serving') /\ active \in Nat /\ active' \in Nat
<1>1. IsFiniteSet(Serving) /\ IsFiniteSet(Serving')
  BY HandlerConstants, FS_Subset DEF Serving
<1>2. active = Cardinality(Serving) /\ active \in Nat /\ Cardinality(Serving') \in Nat
  BY <1>1, FS_CardinalityType DEF TypeOK
<1>3. \A d \in Conns \ {c} : d \in Serving' <=> d \in Serving
  BY DEF Serving, Local
<1>4. CASE active' = active /\ (c \in Serving' <=> c \in Serving)
  <2>1. Serving' = Serving
    BY <1>3, <1>4 DEF Serving
  <2> QED BY <1>2, <1>4, <2>1
<1>5. CASE active' = active + 1 /\ c \in Serving' /\ c \notin Serving
  <2>1. Serving' = Serving \cup {c}
    BY <1>3, <1>5 DEF Serving
  <2> QED BY <1>1, <1>2, <1>5, <2>1, FS_AddElement
<1>6. CASE active' = active - 1 /\ c \notin Serving' /\ c \in Serving
  <2>1. Serving' = Serving \ {c}
    BY <1>3, <1>6 DEF Serving
  <2> QED BY <1>1, <1>2, <1>6, <2>1, FS_RemoveElement
<1> QED BY <1>4, <1>5, <1>6 DEF Sound, Serving, Unadmitted

LEMMA ConnStepsKeep ==
  ASSUME IInv, NEW c \in Conns, ConnStep(c)
  PROVE  IInv'
<1>1. Types' /\ Local(c) /\ Sound(c)
  BY ConnSteps, TypeParts DEF IInv
<1>2. TypeOK'
  <2>1. (registered \subseteq Serving)'
    BY <1>1 DEF IInv, TypeOK, Types, Serving, Local, Sound
  <2>2. (active = Cardinality(Serving))'
    BY <1>1, ServingCounted DEF IInv
  <2> QED BY <1>1, <2>1, <2>2 DEF TypeOK, Types
<1>3. \A d \in Conns : ConnInv(d)'
  BY <1>1 DEF IInv, ConnInv, Local, Sound
<1>4. ShutdownInv'
  <2>1. \A d \in draining : Drained(d) => Drained(d)'
    BY <1>1 DEF IInv, TypeOK, Local, Sound, Drained
  <2>2. /\ UNCHANGED <<draining, shuttingDown, shutdown, snapshot, todo>>
        /\ ctxDone \subseteq ctxDone' /\ wsClosed \subseteq wsClosed'
    BY <1>1 DEF Local
  <2>3. shutdown' = "returned" => active' = 0
    <3>1. active \in Nat /\ active' \in Nat
      BY <1>1, ServingCounted DEF IInv
    <3> QED BY <1>1, <2>2, <3>1 DEF IInv, ShutdownInv, Sound
  <2> QED BY <2>1, <2>2, <2>3 DEF IInv, TypeOK, ShutdownInv, Visited, GracefulClose
<1> QED BY <1>2, <1>3, <1>4 DEF IInv
-----------------------------------------------------------------------------
(***************************************************************************)
(* The steps of Shutdown and the end of the heartbeat.                     *)
(***************************************************************************)
ShutdownNext ==
  heartbeatExits \/ stopHeartbeatLoop \/ ShutdownStep \/ drainTimesOut \/ waitTimesOut

LEMMA ShutdownKeeps ==
  ASSUME IInv, ShutdownNext
  PROVE  IInv' /\ UNCHANGED admitVars
<1> USE DEF connVars, closeVars, admitVars, beatVars, downVars
<1>1. UNCHANGED <<stage, inHandler, callbacks, pending, registered, active>> /\ ctxDone \subseteq ctxDone'
  BY DEF ShutdownNext, ShutdownStep, heartbeatExits, stopHeartbeatLoop, beginShutdown, beginDrain, nextPhase,
         waitConnectionsDrained, drainTimesOut, closeDrainingConnections, shutdownReturns, waitTimesOut
<1>2. \A c \in Conns : ConnInv(c)'
  BY <1>1 DEF IInv, ConnInv
<1>3. TypeOK'
  <2>1. (active = Cardinality(Serving))'
    BY <1>1 DEF IInv, TypeOK, Serving
  <2>2. Types'
    BY <1>1 DEF IInv, TypeOK, Types, ShutdownNext, ShutdownStep, heartbeatExits, stopHeartbeatLoop,
         beginShutdown, beginDrain, nextPhase, waitConnectionsDrained, drainTimesOut,
         closeDrainingConnections, shutdownReturns, waitTimesOut, Serving
  <2> QED BY <1>1, <2>1, <2>2 DEF IInv, TypeOK, Types, Serving
<1>4. ShutdownInv'
  <2> USE DEF IInv, TypeOK, ShutdownInv, Visited, GracefulClose, Drained
  <2>1. CASE heartbeatExits \/ stopHeartbeatLoop \/ beginShutdown
    BY <2>1 DEF heartbeatExits, stopHeartbeatLoop, beginShutdown
  <2>2. ASSUME NEW c \in Conns, beginDrain(c) PROVE ShutdownInv'
    BY <2>2 DEF beginDrain
  <2>3. CASE nextPhase("draining", "waiting")
    BY <2>3 DEF nextPhase
  <2>4. CASE nextPhase("waiting", "closing")
    BY <2>4 DEF nextPhase
  <2>5. ASSUME NEW c \in Conns, waitConnectionsDrained(c) PROVE ShutdownInv'
    BY <2>5 DEF waitConnectionsDrained
  <2>6. ASSUME NEW c \in Conns, closeDrainingConnections(c) PROVE ShutdownInv'
    BY <2>6 DEF closeDrainingConnections
  <2>7. CASE shutdownReturns
    BY <2>7 DEF shutdownReturns
  <2>8. CASE drainTimesOut \/ waitTimesOut
    BY <2>8 DEF drainTimesOut, waitTimesOut
  <2> QED BY <2>1, <2>2, <2>3, <2>4, <2>5, <2>6, <2>7, <2>8 DEF ShutdownNext, ShutdownStep
<1> QED BY <1>1, <1>2, <1>3, <1>4 DEF IInv

LEMMA IInvInit == Init => IInv
<1> SUFFICES ASSUME Init PROVE IInv
  OBVIOUS
<1> USE HandlerConstants DEF Init, NewHandler
<1>1. Serving = {} /\ Cardinality(Serving) = 0
  BY FS_EmptySet DEF Serving, Unadmitted
<1>2. TypeOK
  <2>1. heartbeat \in {"running", "exited"} /\ shuttingDown \in BOOLEAN /\ heartbeatStop \in BOOLEAN
    BY Zenon
  <2>2. 0 \in 0 .. MaxPending
    OBVIOUS
  <2> QED BY <1>1, <2>1, <2>2, Zenon DEF TypeOK, Stages
<1>3. \A c \in Conns : ConnInv(c)
  BY DEF ConnInv, Unadmitted, Deferred
<1>4. ShutdownInv
  BY DEF ShutdownInv, Visited, GracefulClose
<1> QED BY <1>2, <1>3, <1>4 DEF IInv

LEMMA StepOf == Next <=> (\E c \in Conns : ConnStep(c)) \/ ShutdownNext
BY DEF Next, ShutdownNext

LEMMA IInvNext == IInv /\ [Next]_vars => IInv'
<1>1. CASE UNCHANGED vars
  <2>1. /\ UNCHANGED <<stage, inHandler, pending, callbacks, ctxDone, wsClosed, discarded, registered, active>>
        /\ UNCHANGED <<heartbeatStop, heartbeat, expired, draining, shuttingDown, shutdown, snapshot, todo>>
    BY <1>1 DEF vars, connVars, closeVars, admitVars, beatVars, downVars
  <2> QED BY <2>1 DEF IInv, TypeOK, Serving, ConnInv, ShutdownInv, Visited, GracefulClose, Drained
<1> QED BY <1>1, ConnStepsKeep, ShutdownKeeps, StepOf

LEMMA IInvHolds == Spec => []IInv
BY IInvInit, IInvNext, PTL DEF Spec
-----------------------------------------------------------------------------
\* Every variable of a handler keeps its type, and h.active counts exactly the ServeHTTP
\* calls between addConnection and finishConnection, on every path through callbacks that
\* return, fail or panic.
THEOREM HandlerTypes == Spec => []TypeOK
<1>1. IInv => TypeOK
  BY DEF IInv
<1> QED BY <1>1, IInvHolds, PTL

\* Once shuttingDown is set nothing is registered and h.active never grows.
THEOREM NothingAdmittedLate == Spec => NoLateAdmission
<1>1. IInv /\ [Next]_vars =>
        [shuttingDown => active' <= active /\ registered' \subseteq registered]_vars
  <2> SUFFICES ASSUME IInv, Next, shuttingDown
               PROVE  active' <= active /\ registered' \subseteq registered
    OBVIOUS
  <2>0. active \in Nat
    BY HandlerConstants, FS_Subset, FS_CardinalityType DEF IInv, TypeOK, Serving
  <2>1. ASSUME NEW c \in Conns, ConnStep(c) PROVE active' <= active /\ registered' \subseteq registered
    <3>1. Types' /\ Local(c) /\ Sound(c)
      BY <2>1, ConnSteps, TypeParts DEF IInv
    <3>2. active' <= active
      BY <2>0, <3>1 DEF Sound
    <3>3. registered' \subseteq registered
      BY <3>1 DEF Sound, Local, Types
    <3> QED BY <3>2, <3>3
  <2>2. CASE ShutdownNext
    BY <2>0, <2>2, ShutdownKeeps DEF admitVars
  <2> QED BY <2>1, <2>2, StepOf
<1> QED BY <1>1, IInvHolds, PTL DEF Spec, NoLateAdmission

LEMMA IInvComplete == IInv => ShutdownComplete
<1> SUFFICES ASSUME IInv, shutdown = "returned"
             PROVE  /\ Serving = {} /\ registered = {} /\ inHandler = {}
                    /\ snapshot \subseteq ctxDone \cap wsClosed
  BY DEF ShutdownComplete
<1>1. Serving = {}
  BY HandlerConstants, FS_Subset, FS_EmptySet DEF IInv, TypeOK, ShutdownInv, Serving
<1>2. inHandler = {}
  BY <1>1 DEF IInv, TypeOK, ConnInv, Serving, InCallback, Unadmitted
<1> QED BY <1>1, <1>2 DEF IInv, TypeOK, ShutdownInv

\* When Shutdown returns nil every ServeHTTP call has returned, no connection is
\* registered, no callback runs, and the connections it drained are closed.
THEOREM ShutdownIsComplete == Spec => []ShutdownComplete
BY IInvComplete, IInvHolds, PTL

\* Before its deadline Shutdown closes only connections on which no callback runs and no
\* accepted frame waits, and none gets one any more.
THEOREM ClosesGracefully == Spec => []GracefulClose
<1>1. IInv => GracefulClose
  BY DEF IInv, ShutdownInv
<1> QED BY <1>1, IInvHolds, PTL

\* A connection whose hub was told OnDisconnected is not, and never again, registered.
THEOREM DisconnectedUnregistered == Spec => []DisconnectedIsUnregistered
<1>1. IInv => DisconnectedIsUnregistered
  BY DEF IInv, ConnInv, DisconnectedIsUnregistered
<1> QED BY <1>1, IInvHolds, PTL

\* ServeHTTP leaves nothing behind: OnConnected was followed by OnDisconnected (or was
\* abandoned by a panic or ErrHandlerShuttingDown), the context is cancelled, and the
\* connection is neither registered nor in a callback.
THEOREM CallbacksArePaired == Spec => []CallbacksPaired
<1>1. IInv => CallbacksPaired
  BY DEF IInv, ConnInv, CallbacksPaired, Deferred, InCallback
<1> QED BY <1>1, IInvHolds, PTL
=============================================================================
