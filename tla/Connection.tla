----------------------------- MODULE Connection -----------------------------
(***************************************************************************)
(* One websocket connection of SignalG (connection.go): the bounded send   *)
(* queue, the writer goroutine that empties it, the count of operations    *)
(* that a graceful drain waits for, and the connection's context.          *)
(*                                                                         *)
(* Goroutines are interleaved at the granularity of the code's critical    *)
(* sections (opsMu, sendMu) and channel operations.  A frame is abstracted *)
(* to the goroutine that sent it; `accepted' and `written' are history     *)
(* variables recording the frames that entered sendQueue and the frames    *)
(* ws.Write reported as written.                                           *)
(***************************************************************************)
EXTENDS Naturals, Sequences, FiniteSets

CONSTANTS
  Callers,        \* goroutines that call Send, SendRaw, Complete, Ping, ...
  Handlers,       \* those of them that run hub callbacks (the read loop)
  SendQueueSize,  \* capacity of sendQueue, normalized by NewHandler to > 0
  MaxFrames       \* bound of the model: no Send starts beyond this many frames

ASSUME CallersAssumption == IsFiniteSet(Callers) /\ Handlers \subseteq Callers
ASSUME SizesAssumption == SendQueueSize \in Nat \ {0} /\ MaxFrames \in Nat

VARIABLES
  activeOps,      \* c.activeOps
  activeHandlers, \* c.activeHandlers
  draining,       \* c.draining
  opsDone,        \* state of the channel c.opsDone: "open" or "closed"
  drainDone,      \* the channel beginDrain returned: "none" before the drain,
                  \* "current" while it still is c.opsDone, else its last state
  sendQueue,      \* contents of the buffered channel c.sendQueue
  sendClosed,     \* c.sendClosed
  ctxDone,        \* c.ctx is cancelled
  wsClosed,       \* the websocket is closed on this side
  pc,             \* where each caller is inside Send
  inHandler,      \* callers that are inside runHandlerOperation
  writer,         \* where the writeLoop goroutine is
  inHand,         \* the frame the writer took from sendQueue: a sequence of length <= 1
  accepted,       \* history: frames that entered sendQueue
  written         \* history: frames that ws.Write wrote

opsVars == <<activeOps, activeHandlers, draining, opsDone, drainDone>>
queueVars == <<sendQueue, sendClosed, inHand, accepted, written>>
closeVars == <<ctxDone, wsClosed>>
vars == <<opsVars, queueVars, closeVars, pc, inHandler, writer>>

-----------------------------------------------------------------------------
(***************************************************************************)
(* Operation counting (opsMu).  opsDone is replaced by a new, open channel *)
(* when the count leaves zero and closed when it returns to zero.          *)
(***************************************************************************)

\* Mutant: opsDone is not renewed when the count leaves zero.
beginOperationLocked_StaleChannel ==
  /\ activeOps' = activeOps + 1
  /\ UNCHANGED <<opsDone, drainDone>>

beginOperationLocked ==
  /\ activeOps' = activeOps + 1
  /\ opsDone' = IF activeOps = 0 THEN "open" ELSE opsDone
  /\ drainDone' = IF activeOps = 0 /\ drainDone = "current" THEN opsDone ELSE drainDone

endOperationLocked ==
  /\ activeOps' = IF activeOps = 0 THEN 0 ELSE activeOps - 1
  /\ opsDone' = IF activeOps = 1 THEN "closed" ELSE opsDone
  /\ UNCHANGED drainDone

endOperation == endOperationLocked /\ UNCHANGED <<activeHandlers, draining>>

CanBeginHandler == ~draining

beginHandlerOperation(p) ==
  /\ p \notin inHandler /\ pc[p] = "idle"
  /\ CanBeginHandler
  /\ beginOperationLocked
  /\ activeHandlers' = activeHandlers + 1
  /\ inHandler' = inHandler \cup {p}
  /\ UNCHANGED <<draining, queueVars, closeVars, pc, writer>>

endHandlerOperation(p) ==
  /\ p \in inHandler /\ pc[p] = "idle"
  /\ activeHandlers' = IF activeHandlers > 0 THEN activeHandlers - 1 ELSE activeHandlers
  /\ endOperationLocked
  /\ inHandler' = inHandler \ {p}
  /\ UNCHANGED <<draining, queueVars, closeVars, pc, writer>>

beginDrain ==
  /\ ~draining
  /\ draining' = TRUE
  /\ drainDone' = "current"
  /\ UNCHANGED <<activeOps, activeHandlers, opsDone, queueVars, closeVars, pc, inHandler, writer>>

\* The channel that Shutdown waits on has been closed.
Drained == \/ drainDone = "closed"
           \/ drainDone = "current" /\ opsDone = "closed"

-----------------------------------------------------------------------------
(***************************************************************************)
(* Send and its siblings.  Every one of them begins a send operation,      *)
(* prepares a frame, tries to queue it, and ends the operation itself only *)
(* if queueing failed; a queued frame keeps the operation open.            *)
(***************************************************************************)

\* Mutant: Send does not look at draining.
CanBeginSend_Ungated == TRUE

CanBeginSend == ~(draining /\ activeHandlers = 0)

beginSendOperation(p) ==
  /\ pc[p] = "idle"
  /\ Len(accepted) < MaxFrames
  /\ CanBeginSend
  /\ beginOperationLocked
  /\ pc' = [pc EXCEPT ![p] = "begun"]
  /\ UNCHANGED <<activeHandlers, draining, queueVars, closeVars, inHandler, writer>>

\* The frame is refused: it does not validate, encode or fit.
frameRejected(p) ==
  /\ pc[p] = "begun"
  /\ pc' = [pc EXCEPT ![p] = "failed"]
  /\ UNCHANGED <<opsVars, queueVars, closeVars, inHandler, writer>>

\* First select of enqueueFrame: the caller's context may be done, the
\* connection's context may be done, otherwise the send goes on.
checkContexts(p) ==
  /\ pc[p] = "begun"
  /\ \/ pc' = [pc EXCEPT ![p] = "failed"]
     \/ ~ctxDone /\ pc' = [pc EXCEPT ![p] = "checked"]
  /\ UNCHANGED <<opsVars, queueVars, closeVars, inHandler, writer>>

\* The writer holds sendMu while it discards the queue.
SendMuFree == writer # "discarding"

\* Mutant: enqueueFrame does not look at sendClosed.
QueueOpen_Unchecked == TRUE

QueueOpen == ~sendClosed

\* Mutant: the sender ends the operation of the frame it has queued.
enqueueFrame_EndsOperation(p) ==
  /\ pc[p] = "checked" /\ SendMuFree
  /\ QueueOpen /\ Len(sendQueue) < SendQueueSize
  /\ sendQueue' = Append(sendQueue, p)
  /\ accepted' = Append(accepted, p)
  /\ pc' = [pc EXCEPT ![p] = "idle"]
  /\ endOperation
  /\ UNCHANGED <<sendClosed, inHand, written, closeVars, inHandler, writer>>

\* Second half of enqueueFrame, under sendMu.  When the queue has room and
\* the context is done the select takes either branch.
enqueueFrame(p) ==
  /\ pc[p] = "checked" /\ SendMuFree
  /\ \/ /\ QueueOpen /\ Len(sendQueue) < SendQueueSize
        /\ sendQueue' = Append(sendQueue, p)
        /\ accepted' = Append(accepted, p)
        /\ pc' = [pc EXCEPT ![p] = "idle"]
     \/ /\ ~QueueOpen \/ ctxDone
        /\ pc' = [pc EXCEPT ![p] = "failed"]
        /\ UNCHANGED <<sendQueue, accepted>>
     \/ /\ QueueOpen /\ ~ctxDone /\ Len(sendQueue) = SendQueueSize
        /\ pc' = [pc EXCEPT ![p] = "slow"]
        /\ UNCHANGED <<sendQueue, accepted>>
  /\ UNCHANGED <<opsVars, sendClosed, inHand, written, closeVars, inHandler, writer>>

\* disconnectSlowConsumer: closeContext, then closeNow.
slowCloseContext(p) ==
  /\ pc[p] = "slow"
  /\ ctxDone' = TRUE
  /\ pc' = [pc EXCEPT ![p] = "slowClose"]
  /\ UNCHANGED <<opsVars, queueVars, wsClosed, inHandler, writer>>

slowCloseNow(p) ==
  /\ pc[p] = "slowClose"
  /\ wsClosed' = TRUE
  /\ pc' = [pc EXCEPT ![p] = "failed"]
  /\ UNCHANGED <<opsVars, queueVars, ctxDone, inHandler, writer>>

\* Mutant: an error path of Send returns without endOperation.
sendFailed_LeaksOperation(p) ==
  /\ pc[p] = "failed"
  /\ pc' = [pc EXCEPT ![p] = "idle"]
  /\ UNCHANGED <<opsVars, queueVars, closeVars, inHandler, writer>>

sendFailed(p) ==
  /\ pc[p] = "failed"
  /\ endOperation
  /\ pc' = [pc EXCEPT ![p] = "idle"]
  /\ UNCHANGED <<queueVars, closeVars, inHandler, writer>>

-----------------------------------------------------------------------------
(***************************************************************************)
(* The writer goroutine.  ws.Write is external: it returns within the      *)
(* write timeout, and cannot succeed once the websocket is closed.         *)
(***************************************************************************)

\* writeLoop's select, when both cases are ready, takes either.
takeFrame ==
  /\ writer = "select" /\ sendQueue # <<>>
  /\ inHand' = <<Head(sendQueue)>>
  /\ sendQueue' = Tail(sendQueue)
  /\ writer' = "writing"
  /\ UNCHANGED <<opsVars, sendClosed, accepted, written, closeVars, pc, inHandler>>

\* Mutant: writeLoop waits for frames only.
writerCancelled_Ignored == FALSE /\ UNCHANGED vars

writerCancelled ==
  /\ writer = "select" /\ ctxDone
  /\ writer' = "discard"
  /\ UNCHANGED <<opsVars, queueVars, closeVars, pc, inHandler>>

writeSucceeds ==
  /\ writer = "writing" /\ ~wsClosed
  /\ written' = written \o inHand
  /\ inHand' = <<>>
  /\ writer' = "wrote"
  /\ UNCHANGED <<opsVars, sendQueue, sendClosed, accepted, closeVars, pc, inHandler>>

\* The deferred endOperation of writeQueuedFrame after a successful write.
endWrite ==
  /\ writer = "wrote"
  /\ endOperation
  /\ writer' = "select"
  /\ UNCHANGED <<queueVars, closeVars, pc, inHandler>>

\* Mutant: a failed write is skipped and the loop goes on.
writeFails_Skips ==
  /\ writer = "writing"
  /\ inHand' = <<>>
  /\ writer' = "wrote"
  /\ UNCHANGED <<opsVars, sendQueue, sendClosed, accepted, written, closeVars, pc, inHandler>>

\* A write error: closeContext, closeNow, the deferred endOperation, discard.
writeFails ==
  /\ writer = "writing"
  /\ ctxDone' = TRUE
  /\ writer' = "failing"
  /\ UNCHANGED <<opsVars, queueVars, wsClosed, pc, inHandler>>

writeFailsClose ==
  /\ writer = "failing"
  /\ wsClosed' = TRUE
  /\ writer' = "failed"
  /\ UNCHANGED <<opsVars, queueVars, ctxDone, pc, inHandler>>

\* Mutant: the frame of a failed write is not given back.
endFailedWrite_KeepsFrame ==
  /\ writer = "failed"
  /\ endOperation
  /\ writer' = "discard"
  /\ UNCHANGED <<queueVars, closeVars, pc, inHandler>>

endFailedWrite ==
  /\ writer = "failed"
  /\ endOperation
  /\ inHand' = <<>>
  /\ writer' = "discard"
  /\ UNCHANGED <<sendQueue, sendClosed, accepted, written, closeVars, pc, inHandler>>

\* discardQueuedFrames: sendMu is held from closing the queue to the end.
discardBegin ==
  /\ writer = "discard"
  /\ writer' = IF sendClosed THEN "stopped" ELSE "discarding"
  /\ sendClosed' = TRUE
  /\ UNCHANGED <<opsVars, sendQueue, inHand, accepted, written, closeVars, pc, inHandler>>

\* Mutant: a discarded frame keeps its operation open.
discardOne_LeaksOperation ==
  /\ writer = "discarding" /\ sendQueue # <<>>
  /\ sendQueue' = Tail(sendQueue)
  /\ UNCHANGED <<opsVars, sendClosed, inHand, accepted, written, closeVars, pc, inHandler, writer>>

discardOne ==
  /\ writer = "discarding" /\ sendQueue # <<>>
  /\ sendQueue' = Tail(sendQueue)
  /\ endOperation
  /\ UNCHANGED <<sendClosed, inHand, accepted, written, closeVars, pc, inHandler, writer>>

discardEnd ==
  /\ writer = "discarding" /\ sendQueue = <<>>
  /\ writer' = "stopped"
  /\ UNCHANGED <<opsVars, queueVars, closeVars, pc, inHandler>>

-----------------------------------------------------------------------------
(***************************************************************************)
(* Closing from outside: ServeHTTP when it returns, the heartbeat, batch   *)
(* close, Shutdown and CloseWithStatus cancel the context and close the    *)
(* websocket, in either order.                                             *)
(***************************************************************************)

closeContext ==
  /\ ~ctxDone
  /\ ctxDone' = TRUE
  /\ UNCHANGED <<opsVars, queueVars, wsClosed, pc, inHandler, writer>>

closeNow ==
  /\ ~wsClosed
  /\ wsClosed' = TRUE
  /\ UNCHANGED <<opsVars, queueVars, ctxDone, pc, inHandler, writer>>

-----------------------------------------------------------------------------
newConnection ==
  /\ activeOps = 0 /\ activeHandlers = 0
  /\ draining = FALSE
  /\ opsDone = "closed" /\ drainDone = "none"
  /\ sendQueue = <<>> /\ sendClosed = FALSE
  /\ ctxDone = FALSE /\ wsClosed = FALSE
  /\ pc = [p \in Callers |-> "idle"]
  /\ inHandler = {}
  /\ writer = "select" /\ inHand = <<>>
  /\ accepted = <<>> /\ written = <<>>

Init == newConnection

\* The steps of a Send after it has begun.
SendStep(p) ==
  \/ frameRejected(p) \/ checkContexts(p) \/ enqueueFrame(p)
  \/ slowCloseContext(p) \/ slowCloseNow(p) \/ sendFailed(p)

WriterStep ==
  \/ takeFrame \/ writerCancelled \/ writeSucceeds \/ endWrite
  \/ writeFails \/ writeFailsClose \/ endFailedWrite
  \/ discardBegin \/ discardOne \/ discardEnd

Next ==
  \/ \E p \in Callers : beginSendOperation(p) \/ SendStep(p)
  \/ \E p \in Handlers : beginHandlerOperation(p) \/ endHandlerOperation(p)
  \/ WriterStep
  \/ beginDrain \/ closeContext \/ closeNow

(***************************************************************************)
(* A Send that has begun and the writer never block for ever (sendMu is    *)
(* released after finitely many steps, ws.Write is bounded by the write    *)
(* timeout).  Hub callbacks are assumed to return: strong fairness, since  *)
(* a callback may call Send over and over before it does.                  *)
(***************************************************************************)
Fairness ==
  /\ \A p \in Callers : WF_vars(SendStep(p))
  /\ \A p \in Handlers : SF_vars(endHandlerOperation(p))
  /\ WF_vars(WriterStep)

Spec == Init /\ [][Next]_vars /\ Fairness
-----------------------------------------------------------------------------
(***************************************************************************)
(* Properties.                                                             *)
(***************************************************************************)

PCs == {"idle", "begun", "checked", "slow", "slowClose", "failed"}
WriterStates == {"select", "writing", "wrote", "failing", "failed",
                 "discard", "discarding", "stopped"}

\* Every variable has its type, sendQueue respects its capacity, and the writer
\* holds a frame exactly while writeQueuedFrame works on one.
TypeOK ==
  /\ activeOps \in Nat /\ activeHandlers \in Nat
  /\ draining \in BOOLEAN
  /\ opsDone \in {"open", "closed"}
  /\ drainDone \in {"none", "current", "open", "closed"}
  /\ sendQueue \in Seq(Callers) /\ inHand \in Seq(Callers)
  /\ sendClosed \in BOOLEAN /\ ctxDone \in BOOLEAN /\ wsClosed \in BOOLEAN
  /\ pc \in [Callers -> PCs]
  /\ inHandler \in SUBSET Handlers
  /\ writer \in WriterStates
  /\ Len(sendQueue) <= SendQueueSize
  /\ Len(inHand) = IF writer \in {"writing", "failing", "failed"} THEN 1 ELSE 0
  /\ accepted \in Seq(Callers) /\ written \in Seq(Callers)

Sending == {p \in Callers : pc[p] # "idle"}
WriterOps == IF writer \in {"writing", "wrote", "failing", "failed"} THEN 1 ELSE 0

\* Every counted operation has exactly one owner: a Send in progress, a hub
\* callback in progress, a queued frame, or the frame the writer works on.  No
\* path of Send, writeQueuedFrame or discardQueuedFrames ends an operation twice
\* or forgets to.
OpsAccounted ==
  /\ activeOps = Cardinality(Sending) + Cardinality(inHandler) + Len(sendQueue) + WriterOps
  /\ activeHandlers = Cardinality(inHandler)

\* opsDone is closed exactly while no operation is active: endOperationLocked
\* never closes it twice (a panic) and beginDrain never returns a channel that
\* is already closed while an operation is active, or open while none is.
OpsDoneSignals == (opsDone = "closed") <=> (activeOps = 0)

\* A drain that completes on a connection whose context is still alive has lost
\* nothing: every frame that Send accepted was written to the websocket.
DrainLosesNothing == Drained /\ ~ctxDone => written = accepted

\* The websocket sees a prefix of what Send accepted: no frame is reordered,
\* repeated or written after an earlier one was dropped.
WrittenInOrder ==
  /\ Len(written) <= Len(accepted)
  /\ \A i \in 1..Len(written) : written[i] = accepted[i]

\* While the connection works, no frame is lost, repeated or invented: what Send
\* accepted is what was written, then the writer's frame, then the queue.
QueueConserved ==
  writer \in {"select", "writing", "wrote"} => accepted = written \o inHand \o sendQueue

\* The writer leaves its loop only with the context cancelled, so that the reader,
\* the batch senders and later Sends see that the connection is dead.
WriterLeavesCancelled ==
  writer \in {"failing", "failed", "discard", "discarding", "stopped"} => ctxDone

\* No frame enters a queue nobody will read: sendClosed is set exactly from the
\* moment the writer begins to discard, and once it has released sendMu the queue
\* is empty for ever (a frame left there would keep its operation open and stall
\* Shutdown).
NothingStranded ==
  /\ sendClosed <=> writer \in {"discarding", "stopped"}
  /\ writer = "stopped" => sendQueue = <<>>

\* The channel that beginDrain returned stays c.opsDone: beginOperationLocked never
\* replaces it under Shutdown, which would then wait on the wrong channel.
DrainChannelStable == drainDone = IF draining THEN "current" ELSE "none"

\* A completed drain is final: no operation begins and no frame is accepted after
\* Shutdown has seen opsDone closed, whatever Send calls are still arriving.
DrainIsFinal == [][Drained => Drained' /\ activeOps' = 0 /\ accepted' = accepted]_vars

\* A cancelled context stops the writer goroutine and returns every queued frame.
WriterStops == ctxDone ~> (writer = "stopped" /\ sendQueue = <<>>)

-----------------------------------------------------------------------------
\* The drain as Shutdown sees it: not begun, waiting on opsDone, released.
DrainPhase == IF ~draining THEN "running" ELSE IF Drained THEN "drained" ELSE "draining"

Promise == INSTANCE GracefulSend WITH
  Senders <- Callers, accepted <- accepted, written <- written,
  phase <- DrainPhase, broken <- ctxDone

\* The connection keeps the promise of GracefulSend, safety and liveness: with the
\* queue, the writer and the operation count hidden, accepting, writing, draining
\* and breaking happen as that specification allows, and every drain completes if
\* hub callbacks return, also when the peer is dead or the queue is full.
KeepsPromise == Promise!Spec

=============================================================================
