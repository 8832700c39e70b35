-------------------------- MODULE HeartbeatProofs ---------------------------
(***************************************************************************)
(* What Heartbeat guarantees for any set of connections, any timeout and   *)
(* any amount of churn: the types, that no wake-up is lost, that expiry is *)
(* timely, and that it only takes silent connections.  Liveness            *)
(* (IdleCloses) is left to TLC.                                            *)
(***************************************************************************)
EXTENDS Heartbeat, TLAPS

(***************************************************************************)
(* What is known of the ages at each place of the loop.  While the timer   *)
(* runs, calm + timer exceeds HalfTimeout exactly when the timer has fired *)
(* since the last token; from then on age + timer stays bounded.           *)
(***************************************************************************)
AtTop == loop = "top" => calm = 0 \/ \A c \in registered : age[c] <= PingTimeout
AtBlocked == loop = "blocked" => \A c \in registered : age[c] = 0
AtArmed ==
  loop = "armed" =>
    /\ calm + timer >= HalfTimeout
    /\ calm + timer > HalfTimeout =>
         \A c \in registered : age[c] + timer <= PingTimeout + HalfTimeout
AtSweep ==
  loop = "sweep" =>
    /\ \A c \in registered \ expiring : age[c] <= PingTimeout
    /\ calm > HalfTimeout => \A c \in registered : age[c] <= PingTimeout + HalfTimeout

IInv == TypeOK /\ NoLostWakeup /\ AtTop /\ AtBlocked /\ AtArmed /\ AtSweep

LEMMA ConstantTypes == HalfTimeout \in Nat /\ HalfTimeout > 0 /\ MaxChurn \in Nat
BY HeartbeatConstants

LEMMA InitEstablishes == Init => IInv
<1> SUFFICES ASSUME Init PROVE IInv
  OBVIOUS
<1>1. TypeOK
  <2>1. 0 \in 0 .. MaxAge /\ 0 \in 0 .. HalfTimeout /\ 0 \in 0 .. MaxChurn /\ 0 \in 0 .. HalfTimeout + 1
    BY ConstantTypes DEF PingTimeout, MaxAge
  <2> QED BY <2>1 DEF Init, TypeOK
<1>2. NoLostWakeup /\ AtTop /\ AtBlocked /\ AtArmed /\ AtSweep
  BY DEF Init, NoLostWakeup, AtTop, AtBlocked, AtArmed, AtSweep
<1> QED BY <1>1, <1>2 DEF IInv

(***************************************************************************)
(* The steps of the goroutines of ServeHTTP.                               *)
(***************************************************************************)
LEMMA CallerSteps ==
  ASSUME IInv, NEW c \in Conns,
         addConnection(c) \/ removeConnection(c) \/ wakeHeartbeatLoop(c) \/ touch(c)
  PROVE  IInv'
<1> USE ConstantTypes DEF IInv, PingTimeout, MaxAge, loopVars
<1>1. CASE addConnection(c)
  <2> USE <1>1 DEF addConnection
  <2>1. TypeOK'
    BY DEF TypeOK, Churns
  <2>2. /\ \A d \in registered' : IF d = c THEN age'[d] = 0 ELSE d \in registered /\ age'[d] = age[d]
        /\ age[c] \in Nat
    BY DEF TypeOK
  <2>3. (NoLostWakeup /\ AtTop /\ AtBlocked)'
    BY <2>2 DEF NoLostWakeup, AtTop, AtBlocked, TypeOK
  <2>4. AtArmed'
    BY <2>2 DEF AtArmed, TypeOK
  <2>5. AtSweep'
    BY <2>2 DEF AtSweep, TypeOK
  <2> QED BY <2>1, <2>3, <2>4, <2>5
<1>2. CASE removeConnection(c)
  <2> USE <1>2 DEF removeConnection
  <2>1. TypeOK'
    BY DEF TypeOK, Churns
  <2>2. (NoLostWakeup /\ AtTop /\ AtBlocked /\ AtArmed /\ AtSweep)'
    BY DEF NoLostWakeup, AtTop, AtBlocked, AtArmed, AtSweep, TypeOK
  <2> QED BY <2>1, <2>2
<1>3. CASE wakeHeartbeatLoop(c)
  BY <1>3 DEF wakeHeartbeatLoop, TypeOK, NoLostWakeup, AtTop, AtBlocked, AtArmed, AtSweep
<1>4. CASE touch(c)
  <2> USE <1>4 DEF touch
  <2>1. TypeOK'
    BY DEF TypeOK
  <2>2. \A d \in registered' : d \in registered /\ age'[d] <= age[d] /\ age'[d] \in Nat /\ age[d] \in Nat
    BY DEF TypeOK
  <2>3. (NoLostWakeup /\ AtTop /\ AtBlocked)'
    BY <2>2 DEF NoLostWakeup, AtTop, AtBlocked, TypeOK
  <2>4. AtArmed'
    BY <2>2 DEF AtArmed, TypeOK
  <2>5. AtSweep'
    BY <2>2 DEF AtSweep, TypeOK
  <2> QED BY <2>1, <2>3, <2>4, <2>5
<1> QED BY <1>1, <1>2, <1>3, <1>4

(***************************************************************************)
(* The steps of heartbeatLoop.                                             *)
(***************************************************************************)
LEMMA LoopSteps == IInv /\ heartbeatLoop => IInv'
<1> SUFFICES ASSUME IInv, heartbeatLoop PROVE IInv'
  OBVIOUS
<1> USE ConstantTypes DEF IInv, PingTimeout, MaxAge
<1>1. CASE arm
  <2> USE <1>1 DEF arm, nextExpiration
  <2>1. TypeOK' /\ NoLostWakeup' /\ AtTop' /\ AtBlocked' /\ AtSweep'
    BY DEF TypeOK, NoLostWakeup, AtTop, AtBlocked, AtSweep
  <2>2. AtArmed'
    BY DEF AtArmed, AtTop, TypeOK
  <2> QED BY <2>1, <2>2
<1>2. CASE wokenUp
  <2> USE <1>2 DEF wokenUp
  <2>0. 0 \in 0 .. HalfTimeout + 1
    BY ConstantTypes
  <2>1. TypeOK'
    BY <2>0, Zenon DEF TypeOK
  <2>2. (NoLostWakeup /\ AtTop /\ AtBlocked /\ AtArmed /\ AtSweep)'
    BY DEF NoLostWakeup, AtTop, AtBlocked, AtArmed, AtSweep
  <2> QED BY <2>1, <2>2
<1>3. CASE scan
  <2> USE <1>3 DEF scan, Expired
  <2>1. TypeOK' /\ NoLostWakeup' /\ AtBlocked' /\ AtArmed'
    BY DEF TypeOK, NoLostWakeup, AtBlocked, AtArmed
  <2>2. \A d \in registered : d \notin expiring' => age[d] <= PingTimeout
    BY DEF TypeOK
  <2>3. AtTop'
    BY <2>2 DEF AtTop
  <2>4. AtSweep'
    BY <2>2 DEF AtSweep, AtArmed, TypeOK
  <2> QED BY <2>1, <2>3, <2>4
<1>4. CASE closeExpiredIdleConnections
  BY <1>4
     DEF closeExpiredIdleConnections, TypeOK, NoLostWakeup, AtTop, AtBlocked, AtArmed, AtSweep
<1>5. CASE stopped
  BY <1>5 DEF stopped, TypeOK, NoLostWakeup, AtTop, AtBlocked, AtArmed, AtSweep
<1>6. ASSUME NEW c \in Conns, expireOne(c) PROVE IInv'
  <2> USE <1>6 DEF expireOne, StillExpired, Expired
  <2>1. TypeOK' /\ NoLostWakeup' /\ AtTop' /\ AtBlocked' /\ AtArmed'
    BY DEF TypeOK, NoLostWakeup, AtTop, AtBlocked, AtArmed
  <2>2. AtSweep'
    BY DEF AtSweep, TypeOK
  <2> QED BY <2>1, <2>2
<1> QED BY <1>1, <1>2, <1>3, <1>4, <1>5, <1>6 DEF heartbeatLoop

LEMMA TimeSteps == IInv /\ Tick => IInv'
<1> SUFFICES ASSUME IInv, Tick PROVE IInv'
  OBVIOUS
<1> USE ConstantTypes DEF IInv, PingTimeout, MaxAge, Tick, Busy
<1>1. TypeOK'
  BY DEF TypeOK
<1>2. \A c \in registered : age[c] \in Nat /\ age'[c] \in Nat /\ age'[c] <= age[c] + 1
  BY DEF TypeOK
<1>3. NoLostWakeup' /\ AtTop' /\ AtSweep'
  BY DEF NoLostWakeup, AtTop, AtSweep, TypeOK
<1>4. AtBlocked'
  BY DEF AtBlocked, NoLostWakeup
<1>5. AtArmed'
  BY <1>2 DEF AtArmed, TypeOK
<1> QED BY <1>1, <1>3, <1>4, <1>5

LEMMA NextPreserves == IInv /\ [Next]_vars => IInv'
<1> SUFFICES ASSUME IInv, [Next]_vars PROVE IInv'
  OBVIOUS
<1>1. CASE UNCHANGED vars
  BY <1>1 DEF vars, loopVars, IInv, TypeOK, NoLostWakeup, AtTop, AtBlocked, AtArmed, AtSweep
<1>2. CASE stopHeartbeatLoop
  BY <1>2 DEF stopHeartbeatLoop, loopVars, IInv, TypeOK, NoLostWakeup, AtTop, AtBlocked, AtArmed, AtSweep
<1> QED BY <1>1, <1>2, CallerSteps, LoopSteps, TimeSteps DEF Next

LEMMA Invariance == Spec => []IInv
BY InitEstablishes, NextPreserves, PTL DEF Spec

\* The variables of heartbeatLoop keep their types; the timer never runs beyond
\* half the timeout (nextExpiration).
THEOREM HeartbeatTypes == Spec => []TypeOK
<1>1. IInv => TypeOK
  BY DEF IInv
<1> QED BY <1>1, Invariance, PTL

\* heartbeatLoop never waits without a timer while there is a connection and no
\* token on its way: the one-slot channel of wakeHeartbeatLoop loses no wake-up.
THEOREM WakeupsKept == Spec => []NoLostWakeup
<1>1. IInv => NoLostWakeup
  BY DEF IInv
<1> QED BY <1>1, Invariance, PTL

\* When wake-ups leave the timer of heartbeatLoop alone for longer than its wait,
\* no registered connection is silent for more than one and a half timeouts.
THEOREM ExpiryIsPrompt == Spec => []PromptExpiry
<1>1. IInv => PromptExpiry
  <2> SUFFICES ASSUME IInv, calm > HalfTimeout, loop # "exited", NEW c \in registered
               PROVE  age[c] <= PingTimeout + HalfTimeout
    BY DEF PromptExpiry
  <2> USE ConstantTypes DEF IInv, TypeOK, PingTimeout, MaxAge
  <2>1. age[c] \in Nat
    OBVIOUS
  <2>2. CASE loop = "top"
    BY <2>1, <2>2 DEF AtTop
  <2>3. CASE loop = "blocked"
    BY <2>1, <2>3 DEF AtBlocked
  <2>4. CASE loop = "armed"
    BY <2>1, <2>4 DEF AtArmed
  <2>5. CASE loop = "sweep"
    BY <2>1, <2>5 DEF AtSweep
  <2> QED BY <2>2, <2>3, <2>4, <2>5
<1> QED BY <1>1, Invariance, PTL

\* The sweep of expired takes out no connection that was heard from after the scan
\* that chose it.
THEOREM ExpiryIsJustified == Spec => OnlyIdleExpire
<1>1. [Next]_vars => [\A c \in registered \ registered' : c \notin waking' => age[c] > PingTimeout]_vars
  <2> SUFFICES ASSUME Next, NEW c \in registered \ registered', c \notin waking'
               PROVE  age[c] > PingTimeout
    BY Zenon
  <2>1. PICK d \in Conns : expireOne(d)
    <3>1. \/ \E e \in Conns : addConnection(e) \/ removeConnection(e) \/ wakeHeartbeatLoop(e) \/ touch(e)
          \/ stopHeartbeatLoop \/ arm \/ wokenUp \/ scan \/ closeExpiredIdleConnections \/ stopped
          \/ Tick \/ \E e \in Conns : expireOne(e)
      BY DEF Next, heartbeatLoop
    <3>2. ASSUME NEW e \in Conns, addConnection(e) \/ removeConnection(e) \/ wakeHeartbeatLoop(e) \/ touch(e)
          PROVE  FALSE
      BY <3>2 DEF addConnection, removeConnection, wakeHeartbeatLoop, touch
    <3> QED BY <3>1, <3>2
            DEF stopHeartbeatLoop, arm, wokenUp, scan, closeExpiredIdleConnections, stopped, Tick
  <2> QED BY <2>1 DEF expireOne, StillExpired, Expired
<1> QED BY <1>1, PTL DEF Spec, OnlyIdleExpire
=============================================================================
