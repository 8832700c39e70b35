---------------------------- MODULE GracefulSend ----------------------------
(***************************************************************************)
(* What one SignalG connection promises to the goroutines that send on it  *)
(* and to Handler.Shutdown, whatever happens inside connection.go:         *)
(* accepted frames reach the websocket in the order of acceptance and at   *)
(* most once; a drain that has completed is final; it completes without    *)
(* having written everything only if the connection broke.                 *)
(***************************************************************************)
EXTENDS Naturals, Sequences

CONSTANT Senders  \* a frame is identified with the goroutine that sends it

VARIABLES
  accepted,  \* frames for which Send returned nil, in order
  written,   \* frames written to the websocket, in order
  phase,     \* "running", "draining" or "drained"
  broken     \* the connection has been cancelled

vars == <<accepted, written, phase, broken>>

Settled == broken \/ written = accepted

Init ==
  /\ accepted = <<>> /\ written = <<>>
  /\ phase = "running" /\ broken = FALSE

Accept(f) ==
  /\ phase # "drained"
  /\ accepted' = Append(accepted, f)
  /\ UNCHANGED <<written, phase, broken>>

Write ==
  /\ phase # "drained"
  /\ Len(written) < Len(accepted)
  /\ written' = Append(written, accepted[Len(written) + 1])
  /\ UNCHANGED <<accepted, phase, broken>>

\* A drain of a connection with nothing in progress completes at once.
BeginDrain ==
  /\ phase = "running"
  /\ phase' = "draining" \/ (phase' = "drained" /\ Settled)
  /\ UNCHANGED <<accepted, written, broken>>

FinishDrain ==
  /\ phase = "draining" /\ Settled
  /\ phase' = "drained"
  /\ UNCHANGED <<accepted, written, broken>>

Break ==
  /\ broken' = TRUE
  /\ UNCHANGED <<accepted, written, phase>>

Next ==
  \/ \E f \in Senders : Accept(f)
  \/ Write \/ BeginDrain \/ FinishDrain \/ Break

SafeSpec == Init /\ [][Next]_vars

\* A drain that has begun completes.
Spec == SafeSpec /\ (phase = "draining" ~> phase = "drained")
=============================================================================
