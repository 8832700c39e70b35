------------------------------- MODULE Server -------------------------------
(***************************************************************************)
(* The standalone Server (server.go) around a Handler: Start, its Serve    *)
(* goroutine and Shutdown, composed with every step of Handler.  Requests  *)
(* reach the handler through the listener only.  http.Server is external:  *)
(* Serve tracks its listener unless the server is shut down, and closes it *)
(* when it returns; Shutdown closes the tracked listener and waits until   *)
(* no request is in hand that is neither answered nor hijacked.            *)
(***************************************************************************)
EXTENDS Handler

CONSTANT MaxStarts  \* bound of the model: calls of Start

ASSUME ServerConstants == MaxStarts \in Nat \ {0}

VARIABLES
  starts,         \* calls of Start so far
  listener,       \* s.listener: "nil", "open", "closed"
  serve,          \* the goroutine of Start: "none", "starting", "serving", "returned"
  dialed,         \* connections the listener has accepted
  serverShutdown, \* Server.Shutdown: "none", "called", "returned"
  httpShutdown    \* http.Server.Shutdown: "none", "called", "waiting", "returned", "failed"

serverVars == <<starts, listener, serve, dialed, serverShutdown, httpShutdown>>
allVars == <<vars, serverVars>>

NewServer ==
  /\ NewHandler
  /\ starts = 0 /\ listener = "nil" /\ serve = "none" /\ dialed = {}
  /\ serverShutdown = "none" /\ httpShutdown = "none"
-----------------------------------------------------------------------------
\* Start, under mu: nothing to do, net.Listen fails, or a goroutine serves.
Start ==
  /\ starts < MaxStarts /\ starts' = starts + 1
  /\ \/ UNCHANGED <<listener, serve>>
     \/ listener = "nil" /\ listener' = "open" /\ serve' = "starting"
  /\ UNCHANGED <<vars, dialed, serverShutdown, httpShutdown>>

\* The goroutine of Start enters http.Server.Serve.
beginServe ==
  /\ serve = "starting"
  /\ \/ httpShutdown \in {"none", "called"} /\ serve' = "serving" /\ UNCHANGED listener
     \/ httpShutdown \notin {"none", "called"} /\ serve' = "returned" /\ listener' = "closed"
  /\ UNCHANGED <<vars, starts, dialed, serverShutdown, httpShutdown>>

\* Serve accepts a connection, whose request the handler gets.
dial(c) ==
  /\ serve = "serving" /\ listener = "open" /\ c \notin dialed
  /\ dialed' = dialed \cup {c}
  /\ UNCHANGED <<vars, starts, listener, serve, serverShutdown, httpShutdown>>
-----------------------------------------------------------------------------
Shutdown ==
  /\ serverShutdown = "none"
  /\ serverShutdown' = "called" /\ httpShutdown' = "called"
  /\ UNCHANGED <<vars, starts, listener, serve, dialed>>

\* Mutant: the HTTP server is shut down after the handler, and only if that succeeded.
MayCloseListeners_AfterDrain == httpShutdown = "called" /\ shutdown = "returned"

\* The goroutine of Shutdown runs whatever the handler does.
MayCloseListeners == httpShutdown = "called"

\* http.Server.Shutdown sets inShutdown and closes the tracked listener.
closeListeners ==
  /\ MayCloseListeners
  /\ httpShutdown' = "waiting"
  /\ \/ serve = "serving" /\ listener' = "closed" /\ serve' = "returned"
     \/ serve # "serving" /\ UNCHANGED <<listener, serve>>
  /\ UNCHANGED <<vars, starts, dialed, serverShutdown>>

\* Requests http.Server knows of; a connection that sends none is closed by it in time,
\* which Handler's checkRequest includes.
InHand == {c \in dialed : stage[c] \in {"request", "accept"}}

\* http.Server.Shutdown returns, and serverDone gets its error.
httpReturns ==
  /\ httpShutdown = "waiting" /\ InHand = {}
  /\ httpShutdown' = "returned"
  /\ UNCHANGED <<vars, starts, listener, serve, dialed, serverShutdown>>

httpTimesOut ==
  /\ httpShutdown = "waiting"
  /\ httpShutdown' = "failed"
  /\ UNCHANGED <<vars, starts, listener, serve, dialed, serverShutdown>>

\* handler.Shutdown has returned and serverDone is received.
shutdownDone ==
  /\ serverShutdown = "called"
  /\ shutdown \in {"returned", "failed"} /\ httpShutdown \in {"returned", "failed"}
  /\ serverShutdown' = "returned"
  /\ UNCHANGED <<vars, starts, listener, serve, dialed, httpShutdown>>
-----------------------------------------------------------------------------
\* A step of the handler, A: requests come through the listener, and Server.Shutdown
\* calls Handler.Shutdown.
HandlerStep(A) ==
  /\ A
  /\ \A c \in Conns \ dialed : stage'[c] = stage[c]
  /\ serverShutdown = "none" => shutdown' = "none"
  /\ UNCHANGED serverVars

ServerStep == beginServe \/ closeListeners \/ httpReturns \/ shutdownDone

ServerNext ==
  \/ Start \/ Shutdown \/ httpTimesOut \/ ServerStep
  \/ \E c \in Conns : dial(c)
  \/ HandlerStep(Next)

(***************************************************************************)
(* The fairness of Handler, Shutdown calling the handler's Shutdown, and   *)
(* the goroutines of the server; no deadline is relied on.                 *)
(***************************************************************************)
ServerFairness ==
  /\ \A c \in Conns :
       /\ WF_allVars(HandlerStep(ServeStep(c))) /\ WF_allVars(HandlerStep(writeLoop(c)))
       /\ WF_allVars(HandlerStep(heartbeatCloses(c)))
  /\ WF_allVars(HandlerStep(stopHeartbeatLoop)) /\ WF_allVars(HandlerStep(ShutdownStep))
  /\ WF_allVars(beginServe) /\ WF_allVars(closeListeners)
  /\ WF_allVars(httpReturns) /\ WF_allVars(shutdownDone)

ServerSpec == NewServer /\ [][ServerNext]_allVars /\ ServerFairness
-----------------------------------------------------------------------------
(***************************************************************************)
(* Properties.                                                             *)
(***************************************************************************)

\* Server.Shutdown returns without needing its deadline if hub callbacks return,
\* although peers go on sending and its two halves wait for different requests.
ShutdownTerminates == serverShutdown = "called" ~> serverShutdown = "returned"

\* Once Server.Shutdown was called the port is given up for good, also when Start runs at
\* the same time or later, and also when draining fails at the deadline.
ListenerCloses == serverShutdown # "none" ~> [](listener # "open")
=============================================================================
