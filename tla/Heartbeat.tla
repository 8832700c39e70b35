----------------------------- MODULE Heartbeat ------------------------------
(***************************************************************************)
(* The heartbeat goroutine of a Handler (server.go, heartbeatLoop): its    *)
(* timer, the one-slot wake channel by which addConnection and             *)
(* removeConnection tell it of changes, the sweep for silent connections   *)
(* (registry.go, expired) and the stop channel.  Time is counted in ticks  *)
(* and passes only when no goroutine has a step to take: they all react    *)
(* within a tick.  What the registry itself does is the subject of module  *)
(* Registry, and what a closed connection's ServeHTTP does of Handler.     *)
(***************************************************************************)
EXTENDS Naturals, FiniteSets

CONSTANTS
  Conns,      \* connections; one that was removed may stand for a new one
  HalfTimeout,\* PingTimeout/2, the wait of the loop, in ticks
  MaxChurn    \* bound of the model: this many additions and removals by ServeHTTP;
              \* 0 stands for no bound

ASSUME HeartbeatConstants ==
  IsFiniteSet(Conns) /\ HalfTimeout \in Nat \ {0} /\ MaxChurn \in Nat

VARIABLES
  registered, \* h.registry
  age,        \* ticks since lastSeen of each connection, up to MaxAge
  waking,     \* connections whose ServeHTTP changed the registry and is yet to wake the loop
  wake,       \* heartbeatWake holds a token
  loop,       \* heartbeatLoop: "top", "blocked", "armed", "sweep", "exited"
  timer,      \* ticks until the timer fires
  expiring,   \* expiredEntries that expired has yet to look at again
  taken,      \* expired has taken out a connection in this sweep
  stop,       \* heartbeatStop is closed
  churn,      \* additions and removals so far, if they are bounded
  calm,       \* ticks since the loop last received a token, up to HalfTimeout + 1
  clock       \* parity of the ticks

loopVars == <<loop, timer, expiring, taken, calm>>
vars == <<registered, age, waking, wake, loopVars, stop, churn, clock>>

PingTimeout == 2 * HalfTimeout
MaxAge == PingTimeout + HalfTimeout + 1

Init ==
  /\ registered = {} /\ age = [c \in Conns |-> 0]
  /\ waking = {} /\ wake = FALSE
  /\ loop = "top" /\ timer = 0 /\ expiring = {} /\ taken = FALSE
  /\ stop = FALSE /\ churn = 0 /\ calm = 0 /\ clock = 0
-----------------------------------------------------------------------------
(***************************************************************************)
(* The goroutines of ServeHTTP, one per connection.                        *)
(***************************************************************************)
Churns == /\ MaxChurn > 0 => churn < MaxChurn
          /\ churn' = IF MaxChurn > 0 THEN churn + 1 ELSE 0

\* addConnection up to online.Add; the wake-up is a step of its own.
addConnection(c) ==
  /\ c \notin registered \cup waking /\ Churns
  /\ registered' = registered \cup {c}
  /\ age' = [age EXCEPT ![c] = 0]
  /\ waking' = waking \cup {c}
  /\ UNCHANGED <<wake, loopVars, stop, clock>>

\* removeConnection, when registry.remove still finds the connection.
removeConnection(c) ==
  /\ c \in registered \ waking /\ Churns
  /\ registered' = registered \ {c}
  /\ waking' = waking \cup {c}
  /\ UNCHANGED <<age, wake, loopVars, stop, clock>>

\* Mutant: a change of the registry does not wake the loop.
wakeHeartbeatLoop_Missing(c) ==
  /\ c \in waking
  /\ waking' = waking \ {c}
  /\ UNCHANGED <<registered, age, wake, loopVars, stop, churn, clock>>

\* The send does not block: a token that is already there is enough.
wakeHeartbeatLoop(c) ==
  /\ c \in waking
  /\ waking' = waking \ {c}
  /\ wake' = TRUE
  /\ UNCHANGED <<registered, age, loopVars, stop, churn, clock>>

\* readLoop has decoded a frame.
touch(c) ==
  /\ c \in registered
  /\ age' = [age EXCEPT ![c] = 0]
  /\ UNCHANGED <<registered, waking, wake, loopVars, stop, churn, clock>>

stopHeartbeatLoop ==
  /\ stop' = TRUE
  /\ UNCHANGED <<registered, age, waking, wake, loopVars, churn, clock>>
-----------------------------------------------------------------------------
(***************************************************************************)
(* The goroutine of heartbeatLoop.                                         *)
(***************************************************************************)
\* Mutant: the loop waits for the whole timeout.
nextExpiration_FullTimeout == PingTimeout

nextExpiration == HalfTimeout

\* Top of the loop: without connections wait for a token, else arm the timer.
arm ==
  /\ loop = "top"
  /\ IF registered = {} THEN loop' = "blocked" /\ UNCHANGED timer
                        ELSE loop' = "armed" /\ timer' = nextExpiration
  /\ UNCHANGED <<registered, age, waking, wake, expiring, taken, stop, churn, calm, clock>>

\* Mutant: a token does not make the loop look at the registry again.
wokenUp_WaitsAgain ==
  /\ loop \in {"blocked", "armed"} /\ wake
  /\ wake' = FALSE
  /\ calm' = 0
  /\ UNCHANGED <<registered, age, waking, loop, timer, expiring, taken, stop, churn, clock>>

\* A token sends the loop back to its top, where the timer starts from scratch.
wokenUp ==
  /\ loop \in {"blocked", "armed"} /\ wake
  /\ wake' = FALSE
  /\ loop' = "top" /\ calm' = 0
  /\ UNCHANGED <<registered, age, waking, timer, expiring, taken, stop, churn, clock>>

\* Mutant: only connections silent for a while longer count as expired.
Expired_Slack(c) == age[c] > PingTimeout + HalfTimeout

\* lastSeen < deadlineNano
Expired(c) == age[c] > PingTimeout

\* The timer fires; expired scans the registry.
scan ==
  /\ loop = "armed" /\ timer = 0
  /\ expiring' = {c \in registered : Expired(c)}
  /\ loop' = IF expiring' = {} THEN "top" ELSE "sweep"
  /\ UNCHANGED <<registered, age, waking, wake, timer, taken, stop, churn, calm, clock>>

\* Mutant: a connection heard from since the scan is expired all the same.
StillExpired_Unchecked(c) == c \in registered

StillExpired(c) == c \in registered /\ Expired(c)

\* One iteration of expired's second loop, under the entry's lock.
expireOne(c) ==
  /\ loop = "sweep" /\ c \in expiring
  /\ expiring' = expiring \ {c}
  /\ IF StillExpired(c) THEN registered' = registered \ {c} /\ taken' = TRUE
                        ELSE UNCHANGED <<registered, taken>>
  /\ UNCHANGED <<age, waking, wake, loop, timer, stop, churn, calm, clock>>

\* closeExpiredIdleConnections closes what was taken out and wakes its own loop.
closeExpiredIdleConnections ==
  /\ loop = "sweep" /\ expiring = {}
  /\ loop' = "top"
  /\ wake' = (wake \/ taken)
  /\ taken' = FALSE
  /\ UNCHANGED <<registered, age, waking, timer, expiring, stop, churn, calm, clock>>

stopped ==
  /\ loop \in {"blocked", "armed"} /\ stop
  /\ loop' = "exited"
  /\ UNCHANGED <<registered, age, waking, wake, timer, expiring, taken, stop, churn, calm, clock>>

heartbeatLoop ==
  \/ arm \/ wokenUp \/ scan \/ closeExpiredIdleConnections \/ stopped
  \/ \E c \in Conns : expireOne(c)

Busy == \/ waking # {}
        \/ loop \in {"top", "sweep"}
        \/ loop \in {"blocked", "armed"} /\ (wake \/ stop)
        \/ loop = "armed" /\ timer = 0

Tick ==
  /\ ~Busy
  /\ age' = [c \in Conns |-> IF c \in registered /\ age[c] < MaxAge THEN age[c] + 1 ELSE age[c]]
  /\ timer' = IF loop = "armed" THEN timer - 1 ELSE timer
  /\ calm' = IF calm <= HalfTimeout THEN calm + 1 ELSE calm
  /\ clock' = 1 - clock
  /\ UNCHANGED <<registered, waking, wake, loop, expiring, taken, stop, churn>>

Next ==
  \/ \E c \in Conns : addConnection(c) \/ removeConnection(c) \/ wakeHeartbeatLoop(c) \/ touch(c)
  \/ stopHeartbeatLoop \/ heartbeatLoop \/ Tick

(***************************************************************************)
(* Goroutines are scheduled, and time passes: only finitely many           *)
(* connections come and go in one tick.                                    *)
(***************************************************************************)
Fairness ==
  /\ WF_vars(heartbeatLoop)
  /\ \A c \in Conns : WF_vars(wakeHeartbeatLoop(c))
  /\ []<>(clock = 0) /\ []<>(clock = 1)

Spec == Init /\ [][Next]_vars /\ Fairness
-----------------------------------------------------------------------------
(***************************************************************************)
(* Properties.                                                             *)
(***************************************************************************)

\* Every variable has its type; the timer never runs beyond half the timeout.
TypeOK ==
  /\ registered \subseteq Conns /\ waking \subseteq Conns /\ expiring \subseteq Conns
  /\ age \in [Conns -> 0 .. MaxAge]
  /\ loop \in {"top", "blocked", "armed", "sweep", "exited"}
  /\ timer \in 0 .. HalfTimeout
  /\ wake \in BOOLEAN /\ taken \in BOOLEAN /\ stop \in BOOLEAN
  /\ churn \in 0 .. MaxChurn
  /\ calm \in 0 .. HalfTimeout + 1
  /\ clock \in {0, 1}

\* No wake-up is lost: if the loop waits without a timer while there is a
\* connection, a token is in the channel or a ServeHTTP is about to put one there,
\* however additions, removals and the loop's look at the registry interleave.
NoLostWakeup == loop = "blocked" /\ registered # {} => wake \/ waking # {}

\* expired takes out only connections that are silent for longer than PingTimeout
\* when it takes them out, although it chose them in an earlier scan.
OnlyIdleExpire == [][\A c \in registered \ registered' : c \notin waking' => age[c] > PingTimeout]_vars

\* Timely expiry: when no token has restarted the timer for longer than its wait, no
\* registered connection is silent for more than PingTimeout plus that wait.
PromptExpiry ==
  calm > HalfTimeout /\ loop # "exited" =>
    \A c \in registered : age[c] <= PingTimeout + HalfTimeout

\* A connection that stays silent is closed: it is removed, heard from again, or
\* the handler is shutting down.
IdleCloses == \A c \in Conns : c \in registered ~> (c \notin registered \/ age[c] = 0 \/ stop)
=============================================================================
