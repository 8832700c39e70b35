---------------------------- MODULE ServerProofs ----------------------------
(***************************************************************************)
(* The standalone server only restricts its handler: whatever Start, Serve *)
(* and Shutdown do around it, the handler behaves as Handler specifies, so *)
(* that what HandlerProofs establishes holds inside a Server.              *)
(***************************************************************************)
EXTENDS Server, HandlerProofs

\* A step of the server leaves the handler alone or is one of the handler's.
LEMMA ServerStepOfHandler == [ServerNext]_allVars => [Next]_vars
<1>1. CASE UNCHANGED allVars
  BY <1>1 DEF allVars
<1>2. CASE HandlerStep(Next)
  BY <1>2 DEF HandlerStep
<1>3. CASE ServerNext /\ ~HandlerStep(Next)
  BY <1>3, Zenon DEF ServerNext, ServerStep, Start, Shutdown, httpTimesOut, beginServe, closeListeners,
                     httpReturns, shutdownDone, dial
<1> QED BY <1>1, <1>2, <1>3

\* Every behaviour of the standalone server is, for its handler, a behaviour of Handler
\* (its safety part).
THEOREM ServerImplementsHandler == ServerSpec => Init /\ [][Next]_vars
<1>1. NewServer => Init
  BY DEF NewServer, Init
<1> QED BY <1>1, ServerStepOfHandler, PTL DEF ServerSpec

LEMMA IInvInServer == ServerSpec => []IInv
BY IInvInit, IInvNext, ServerImplementsHandler, PTL

\* Inside a standalone server, too, the handler's wait group counts exactly the requests
\* being served, a Shutdown that returned nil leaves none of them and nothing registered,
\* and it closes no drained connection before its frames are written.
THEOREM ServerShutdownComplete == ServerSpec => [](TypeOK /\ ShutdownComplete /\ GracefulClose)
<1>1. IInv => TypeOK /\ ShutdownComplete /\ GracefulClose
  BY IInvComplete DEF IInv, ShutdownInv
<1> QED BY <1>1, IInvInServer, PTL
=============================================================================
