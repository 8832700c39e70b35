-------------------------- MODULE ConnectionProofs --------------------------
(***************************************************************************)
(* Proofs about Connection, for every finite set of callers, every queue   *)
(* size and every number of frames.                                        *)
(***************************************************************************)
EXTENDS Connection, FiniteSetTheorems, SequenceTheorems, TLAPS

-----------------------------------------------------------------------------
(***************************************************************************)
(* Type correctness.                                                       *)
(***************************************************************************)

LEMMA QueueLengths ==
  ASSUME NEW q \in Seq(Callers), NEW p \in Callers
  PROVE  /\ Len(q) \in Nat
         /\ Append(q, p) \in Seq(Callers) /\ Len(Append(q, p)) = Len(q) + 1
         /\ <<p>> \in Seq(Callers) /\ Len(<<p>>) = 1
         /\ q # <<>> => /\ Head(q) \in Callers
                        /\ Tail(q) \in Seq(Callers)
                        /\ Len(Tail(q)) = Len(q) - 1
  BY LenProperties, AppendProperties, HeadTailProperties

LEMMA TypeOKInit == Init => TypeOK
<1> SUFFICES ASSUME Init PROVE TypeOK
  OBVIOUS
<1>1. <<>> \in Seq(Callers) /\ Len(<<>>) = 0
  BY EmptySeq
<1>2. /\ draining \in BOOLEAN /\ sendClosed \in BOOLEAN
      /\ ctxDone \in BOOLEAN /\ wsClosed \in BOOLEAN
  BY Zenon DEF Init, newConnection
<1>3. /\ sendQueue \in Seq(Callers) /\ inHand \in Seq(Callers)
      /\ accepted \in Seq(Callers) /\ written \in Seq(Callers)
      /\ Len(sendQueue) = 0 /\ Len(inHand) = 0
  BY <1>1, Zenon DEF Init, newConnection
<1>4. pc \in [Callers -> PCs]
  BY DEF Init, newConnection, PCs
<1>. QED
  BY <1>2, <1>3, <1>4, SizesAssumption DEF Init, newConnection, TypeOK, WriterStates

LEMMA TypeOKNext == TypeOK /\ [Next]_vars => TypeOK'
<1> SUFFICES ASSUME TypeOK, [Next]_vars PROVE TypeOK'
  OBVIOUS
<1> USE SizesAssumption, CallersAssumption DEF TypeOK, PCs, WriterStates, opsVars, queueVars, closeVars
<1>0. CASE UNCHANGED vars
  BY <1>0 DEF vars
<1>1. ASSUME NEW p \in Callers, beginSendOperation(p) PROVE TypeOK'
  BY <1>1 DEF beginSendOperation, beginOperationLocked
<1>2. ASSUME NEW p \in Callers, frameRejected(p) \/ checkContexts(p) PROVE TypeOK'
  <2>1. PICK s \in PCs : pc' = [pc EXCEPT ![p] = s]
    BY <1>2 DEF frameRejected, checkContexts
  <2>2. UNCHANGED <<opsVars, queueVars, closeVars, inHandler, writer>>
    BY <1>2, Zenon DEF frameRejected, checkContexts
  <2>. QED
    BY <2>1, <2>2
<1>3. ASSUME NEW p \in Callers, enqueueFrame(p) PROVE TypeOK'
  <2>1. PICK s \in PCs : pc' = [pc EXCEPT ![p] = s]
    BY <1>3 DEF enqueueFrame
  <2>2. /\ sendQueue' \in Seq(Callers) /\ accepted' \in Seq(Callers)
        /\ Len(sendQueue') <= SendQueueSize
    <3>1. CASE UNCHANGED <<sendQueue, accepted>>
      BY <3>1
    <3>2. CASE /\ Len(sendQueue) < SendQueueSize
               /\ sendQueue' = Append(sendQueue, p)
               /\ accepted' = Append(accepted, p)
      BY <3>2, QueueLengths
    <3>. QED
      BY <1>3, <3>1, <3>2, Zenon DEF enqueueFrame
  <2>3. UNCHANGED <<opsVars, sendClosed, inHand, written, closeVars, inHandler, writer>>
    BY <1>3, Zenon DEF enqueueFrame
  <2>. QED
    BY <2>1, <2>2, <2>3
<1>4. ASSUME NEW p \in Callers, slowCloseContext(p) \/ slowCloseNow(p) PROVE TypeOK'
  BY <1>4 DEF slowCloseContext, slowCloseNow
<1>5. ASSUME NEW p \in Callers, sendFailed(p) PROVE TypeOK'
  BY <1>5 DEF sendFailed, endOperation, endOperationLocked
<1>6. ASSUME NEW p \in Handlers, beginHandlerOperation(p) PROVE TypeOK'
  BY <1>6 DEF beginHandlerOperation, beginOperationLocked
<1>7. ASSUME NEW p \in Handlers, endHandlerOperation(p) PROVE TypeOK'
  BY <1>7 DEF endHandlerOperation, endOperationLocked
<1>8. CASE takeFrame
  <2>1. sendQueue # <<>>
    BY <1>8 DEF takeFrame
  <2>2. PICK h \in Callers : h = Head(sendQueue)
    BY <2>1, HeadTailProperties
  <2>. QED
    BY <1>8, <2>1, <2>2, QueueLengths DEF takeFrame
<1>9. CASE writerCancelled
  BY <1>9 DEF writerCancelled
<1>10. CASE writeSucceeds
  BY <1>10, ConcatProperties, EmptySeq DEF writeSucceeds
<1>11. CASE endWrite
  BY <1>11 DEF endWrite, endOperation, endOperationLocked
<1>12. CASE writeFails \/ writeFailsClose
  BY <1>12 DEF writeFails, writeFailsClose
<1>13. CASE endFailedWrite
  BY <1>13, EmptySeq DEF endFailedWrite, endOperation, endOperationLocked
<1>14. CASE discardBegin
  BY <1>14 DEF discardBegin
<1>15. CASE discardOne
  BY <1>15, HeadTailProperties DEF discardOne, endOperation, endOperationLocked
<1>16. CASE discardEnd
  BY <1>16 DEF discardEnd
<1>17. CASE beginDrain
  BY <1>17 DEF beginDrain
<1>18. CASE closeContext \/ closeNow
  BY <1>18 DEF closeContext, closeNow
<1>. QED
  BY <1>0, <1>1, <1>2, <1>3, <1>4, <1>5, <1>6, <1>7, <1>8, <1>9, <1>10, <1>11, <1>12,
     <1>13, <1>14, <1>15, <1>16, <1>17, <1>18 DEF Next, SendStep, WriterStep

\* Type correctness for every instance: in particular sendQueue never exceeds its
\* capacity and the writer holds a frame exactly inside writeQueuedFrame.
THEOREM TypeCorrect == Spec => []TypeOK
  BY TypeOKInit, TypeOKNext, PTL DEF Spec
-----------------------------------------------------------------------------
(***************************************************************************)
(* Operation counting: every action moves the count and its owners alike.  *)
(***************************************************************************)

LEMMA FiniteOwners ==
  ASSUME TypeOK
  PROVE  /\ IsFiniteSet(Sending) /\ Cardinality(Sending) \in Nat
         /\ IsFiniteSet(inHandler) /\ Cardinality(inHandler) \in Nat
         /\ Len(sendQueue) \in Nat
<1>1. Sending \in SUBSET Callers /\ inHandler \in SUBSET Callers
  BY CallersAssumption DEF Sending, TypeOK
<1>. QED
  BY <1>1, CallersAssumption, FS_Subset, FS_CardinalityType, LenProperties DEF TypeOK

\* How one caller's program counter changes the number of Sends in progress.
LEMMA SendingCount ==
  ASSUME TypeOK, NEW p \in Callers, NEW s \in PCs, pc' = [pc EXCEPT ![p] = s]
  PROVE  /\ pc[p] = "idle" /\ s # "idle" =>
              Cardinality(Sending)' = Cardinality(Sending) + 1
         /\ pc[p] # "idle" /\ s = "idle" =>
              /\ Cardinality(Sending)' = Cardinality(Sending) - 1
              /\ Cardinality(Sending) > 0
         /\ pc[p] # "idle" /\ s # "idle" =>
              Cardinality(Sending)' = Cardinality(Sending)
<1>1. CASE pc[p] = "idle" /\ s # "idle"
  <2>1. Sending' = Sending \cup {p} /\ p \notin Sending
    BY <1>1 DEF Sending, TypeOK
  <2>. QED
    BY <1>1, <2>1, FiniteOwners, FS_AddElement
<1>2. CASE pc[p] # "idle" /\ s = "idle"
  <2>1. Sending' = Sending \ {p} /\ p \in Sending
    BY <1>2 DEF Sending, TypeOK
  <2>2. Cardinality(Sending)' = Cardinality(Sending) - 1
    BY <2>1, FiniteOwners, FS_RemoveElement
  <2>3. Cardinality(Sending) > 0
    BY <2>1, FiniteOwners, FS_EmptySet
  <2>. QED
    BY <1>2, <2>2, <2>3
<1>3. CASE pc[p] # "idle" /\ s # "idle"
  <2>1. Sending' = Sending
    BY <1>3 DEF Sending, TypeOK
  <2>. QED
    BY <1>3, <2>1
<1>. QED
  BY <1>1, <1>2, <1>3

LEMMA OpsInit == Init => OpsAccounted /\ OpsDoneSignals
<1> SUFFICES ASSUME Init PROVE OpsAccounted /\ OpsDoneSignals
  OBVIOUS
<1>1. Sending = {} /\ inHandler = {} /\ sendQueue = <<>> /\ writer = "select"
  BY DEF Init, newConnection, Sending
<1>2. Cardinality({}) = 0 /\ Len(<<>>) = 0
  BY FS_EmptySet, EmptySeq
<1>. QED
  BY <1>1, <1>2 DEF Init, newConnection, OpsAccounted, OpsDoneSignals, WriterOps

LEMMA OpsNext ==
  TypeOK /\ OpsAccounted /\ OpsDoneSignals /\ [Next]_vars => OpsAccounted' /\ OpsDoneSignals'
<1> SUFFICES ASSUME TypeOK, OpsAccounted, OpsDoneSignals, [Next]_vars
             PROVE  OpsAccounted' /\ OpsDoneSignals'
  OBVIOUS
<1> DEFINE S == Cardinality(Sending)
           H == Cardinality(inHandler)
           L == Len(sendQueue)
           W == WriterOps
<1>a. /\ S \in Nat /\ H \in Nat /\ L \in Nat /\ activeOps \in Nat /\ W \in Nat
      /\ opsDone \in {"open", "closed"}
  BY FiniteOwners DEF TypeOK, WriterOps
<1>b. activeOps = S + H + L + W /\ activeHandlers = H /\ (opsDone = "closed" <=> activeOps = 0)
  BY DEF OpsAccounted, OpsDoneSignals
<1>c. SUFFICES /\ activeOps' = S' + H' + L' + W' /\ activeHandlers' = H'
               /\ opsDone' = "closed" <=> activeOps' = 0
  BY DEF OpsAccounted, OpsDoneSignals
\* The three ways an action changes the count.
<1>d. ASSUME beginOperationLocked, activeHandlers' = H', S' + H' + L' + W' = S + H + L + W + 1
      PROVE  <1>c!1
  BY <1>a, <1>b, <1>d DEF beginOperationLocked
<1>e. ASSUME endOperationLocked, activeHandlers' = H',
             S' + H' + L' + W' = S + H + L + W - 1, S + H + L + W > 0
      PROVE  <1>c!1
  BY <1>a, <1>b, <1>e DEF endOperationLocked
<1>f. ASSUME UNCHANGED <<activeOps, activeHandlers, opsDone>>, activeHandlers' = H',
             S' + H' + L' + W' = S + H + L + W
      PROVE  <1>c!1
  BY <1>a, <1>b, <1>f
\* What is left alone keeps its share.
<1>g. /\ UNCHANGED pc => UNCHANGED S
      /\ UNCHANGED inHandler => UNCHANGED H
      /\ UNCHANGED sendQueue => UNCHANGED L
      /\ UNCHANGED writer => UNCHANGED W
  BY DEF Sending, WriterOps
<1> HIDE DEF S, H, L, W
<1> USE <1>a, <1>b, <1>g DEF opsVars, queueVars, closeVars
<1>0. CASE UNCHANGED vars
  BY <1>0, <1>f DEF vars
<1>1. ASSUME NEW p \in Callers, beginSendOperation(p) PROVE <1>c!1
  <2>1. S' = S + 1
    BY <1>1, SendingCount DEF beginSendOperation, PCs, S
  <2>. QED
    BY <1>1, <2>1, <1>d DEF beginSendOperation
<1>2. ASSUME NEW p \in Callers,
             frameRejected(p) \/ checkContexts(p) \/ slowCloseContext(p) \/ slowCloseNow(p)
      PROVE  <1>c!1
  <2>1. PICK s \in PCs \ {"idle"} : pc' = [pc EXCEPT ![p] = s] /\ pc[p] # "idle"
    BY <1>2 DEF frameRejected, checkContexts, slowCloseContext, slowCloseNow, PCs
  <2>2. S' = S
    BY <2>1, SendingCount DEF S
  <2>. QED
    BY <1>2, <2>2, <1>f DEF frameRejected, checkContexts, slowCloseContext, slowCloseNow
<1>3. ASSUME NEW p \in Callers, enqueueFrame(p) PROVE <1>c!1
  <2>1. pc[p] # "idle" /\ UNCHANGED <<activeOps, activeHandlers, opsDone, inHandler, writer>>
    BY <1>3 DEF enqueueFrame
  <2>2. CASE /\ sendQueue' = Append(sendQueue, p) /\ pc' = [pc EXCEPT ![p] = "idle"]
    <3>1. S' = S - 1
      BY <2>1, <2>2, SendingCount DEF S, PCs
    <3>2. L' = L + 1
      BY <2>2, QueueLengths DEF L, TypeOK
    <3>. QED
      BY <2>1, <3>1, <3>2, <1>f
  <2>3. CASE UNCHANGED sendQueue /\ \E s \in PCs \ {"idle"} : pc' = [pc EXCEPT ![p] = s]
    <3>1. S' = S
      BY <2>1, <2>3, SendingCount DEF S
    <3>. QED
      BY <2>1, <2>3, <3>1, <1>f
  <2>. QED
    BY <1>3, <2>2, <2>3 DEF enqueueFrame, PCs
<1>4. ASSUME NEW p \in Callers, sendFailed(p) PROVE <1>c!1
  <2>1. S' = S - 1 /\ S > 0
    BY <1>4, SendingCount DEF sendFailed, PCs, S
  <2>. QED
    BY <1>4, <2>1, <1>e DEF sendFailed, endOperation
<1>5. ASSUME NEW p \in Handlers, beginHandlerOperation(p) PROVE <1>c!1
  <2>1. H' = H + 1
    BY <1>5, FiniteOwners, FS_AddElement DEF beginHandlerOperation, H
  <2>. QED
    BY <1>5, <2>1, <1>d DEF beginHandlerOperation
<1>6. ASSUME NEW p \in Handlers, endHandlerOperation(p) PROVE <1>c!1
  <2>1. H' = H - 1 /\ H > 0
    <3>1. p \in inHandler /\ inHandler' = inHandler \ {p}
      BY <1>6 DEF endHandlerOperation
    <3>2. H # 0
      BY <3>1, FiniteOwners, FS_EmptySet DEF H
    <3>3. H' = H - 1
      BY <3>1, FiniteOwners, FS_RemoveElement DEF H
    <3>. QED
      BY <3>2, <3>3
  <2>. QED
    BY <1>6, <2>1, <1>e DEF endHandlerOperation
<1>7. CASE takeFrame
  <2>1. L' = L - 1 /\ W' = W + 1
    BY <1>7, HeadTailProperties DEF takeFrame, L, W, WriterOps, TypeOK
  <2>. QED
    BY <1>7, <2>1, <1>f DEF takeFrame
<1>8. CASE writerCancelled \/ writeSucceeds \/ writeFails \/ writeFailsClose
           \/ discardBegin \/ discardEnd
  <2>1. W' = W
    BY <1>8 DEF writerCancelled, writeSucceeds, writeFails, writeFailsClose, discardBegin,
       discardEnd, W, WriterOps
  <2>. QED
    BY <1>8, <2>1, <1>f DEF writerCancelled, writeSucceeds, writeFails, writeFailsClose,
       discardBegin, discardEnd
<1>9. CASE endWrite \/ endFailedWrite
  <2>1. W' = W - 1 /\ W > 0
    BY <1>9 DEF endWrite, endFailedWrite, W, WriterOps
  <2>. QED
    BY <1>9, <2>1, <1>e DEF endWrite, endFailedWrite, endOperation
<1>10. CASE discardOne
  <2>1. L' = L - 1 /\ L > 0
    BY <1>10, HeadTailProperties, EmptySeq DEF discardOne, L, TypeOK
  <2>. QED
    BY <1>10, <2>1, <1>e DEF discardOne, endOperation
<1>11. CASE beginDrain \/ closeContext \/ closeNow
  BY <1>11, <1>f DEF beginDrain, closeContext, closeNow
<1>. QED
  BY <1>0, <1>1, <1>2, <1>3, <1>4, <1>5, <1>6, <1>7, <1>8, <1>9, <1>10, <1>11
     DEF Next, SendStep, WriterStep

LEMMA CountingHolds == Spec => [](OpsAccounted /\ OpsDoneSignals)
<1>1. Init => TypeOK /\ OpsAccounted /\ OpsDoneSignals
  BY TypeOKInit, OpsInit
<1>2. TypeOK /\ OpsAccounted /\ OpsDoneSignals /\ [Next]_vars
        => (TypeOK /\ OpsAccounted /\ OpsDoneSignals)'
  BY TypeOKNext, OpsNext
<1>. QED
  BY <1>1, <1>2, PTL DEF Spec

\* Every counted operation has exactly one owner, on every path of Send, the
\* callbacks, writeQueuedFrame and discardQueuedFrames, for any number of callers
\* and any queue size.
THEOREM OperationsCounted == Spec => []OpsAccounted
  BY CountingHolds, PTL

\* opsDone is closed exactly while no operation is active: endOperationLocked
\* never closes a closed channel and beginDrain never returns a stale one.
THEOREM OperationsSignalled == Spec => []OpsDoneSignals
  BY CountingHolds, PTL

-----------------------------------------------------------------------------
(***************************************************************************)
(* The frames: conservation, order, and the closing of the queue.          *)
(***************************************************************************)

LEMMA ConcatAppend ==
  ASSUME NEW s \in Seq(Callers), NEW q \in Seq(Callers), NEW p \in Callers
  PROVE  s \o Append(q, p) = Append(s \o q, p)
<1>1. <<p>> \in Seq(Callers) /\ s \o q \in Seq(Callers)
  BY QueueLengths, ConcatProperties
<1>2. Append(q, p) = q \o <<p>> /\ Append(s \o q, p) = (s \o q) \o <<p>>
  BY <1>1, AppendIsConcat
<1>. QED
  BY <1>1, <1>2, ConcatAssociative

LEMMA ConcatHeadTail ==
  ASSUME NEW s \in Seq(Callers), NEW q \in Seq(Callers), q # <<>>
  PROVE  s \o <<>> \o q = s \o <<Head(q)>> \o Tail(q)
<1>1. /\ Head(q) \in Callers /\ Tail(q) \in Seq(Callers)
      /\ Len(q) \in Nat \ {0} /\ Len(Tail(q)) = Len(q) - 1
      /\ \A i \in 1 .. Len(Tail(q)) : Tail(q)[i] = q[i + 1]
      /\ Head(q) = q[1]
  BY HeadTailProperties, EmptySeq
<1>2. <<Head(q)>> \in Seq(Callers) /\ Len(<<Head(q)>>) = 1 /\ <<Head(q)>>[1] = Head(q)
  BY <1>1
<1>3. q = <<Head(q)>> \o Tail(q)
  <2> DEFINE r == <<Head(q)>> \o Tail(q)
  <2>1. /\ r \in Seq(Callers) /\ Len(r) = Len(q)
        /\ \A i \in 1 .. Len(q) : r[i] = IF i <= 1 THEN <<Head(q)>>[i] ELSE Tail(q)[i - 1]
    BY <1>1, <1>2, ConcatProperties
  <2>2. \A i \in 1 .. Len(q) : q[i] = r[i]
    BY <1>1, <1>2, <2>1
  <2> HIDE DEF r
  <2>3. q = r
    BY <2>1, <2>2, SeqEqual
  <2>. QED
    BY <2>3 DEF r
<1>4. s \o <<>> = s
  BY ConcatEmptySeq
<1>. QED
  BY <1>1, <1>2, <1>3, <1>4, ConcatAssociative

\* WrittenInOrder is kept when the sequence of accepted frames grows and when the
\* frame that follows in it is written.
LEMMA PrefixAppend ==
  ASSUME NEW w \in Seq(Callers), NEW a \in Seq(Callers), NEW p \in Callers,
         Len(w) <= Len(a), \A i \in 1 .. Len(w) : w[i] = a[i]
  PROVE  /\ Len(w) <= Len(Append(a, p))
         /\ \A i \in 1 .. Len(w) : w[i] = Append(a, p)[i]
  BY LenProperties, AppendProperties

LEMMA PrefixConcat ==
  ASSUME NEW w \in Seq(Callers), NEW q \in Seq(Callers)
  PROVE  /\ Len(w) <= Len(w \o q)
         /\ \A i \in 1 .. Len(w) : w[i] = (w \o q)[i]
  BY LenProperties, ConcatProperties

FrameInv == QueueConserved /\ WrittenInOrder /\ NothingStranded /\ WriterLeavesCancelled

LEMMA FrameInit == Init => FrameInv
<1> SUFFICES ASSUME Init PROVE FrameInv
  OBVIOUS
<1>1. <<>> \o <<>> \o <<>> = <<>> /\ Len(<<>>) = 0
  BY EmptySeq, ConcatEmptySeq
<1>. QED
  BY <1>1 DEF Init, newConnection, FrameInv, QueueConserved, WrittenInOrder,
     NothingStranded, WriterLeavesCancelled

LEMMA FrameNext == TypeOK /\ FrameInv /\ [Next]_vars => FrameInv'
<1> SUFFICES ASSUME TypeOK, FrameInv, [Next]_vars PROVE FrameInv'
  OBVIOUS
<1>t. /\ sendQueue \in Seq(Callers) /\ inHand \in Seq(Callers)
      /\ accepted \in Seq(Callers) /\ written \in Seq(Callers)
      /\ writer \in WriterStates
  BY DEF TypeOK
<1>e. writer \notin {"writing", "failing", "failed"} => inHand = <<>>
  BY EmptySeq DEF TypeOK
<1> USE DEF opsVars, queueVars, closeVars
\* Most actions leave the frames alone: only the writer and the context move.
<1>u. ASSUME UNCHANGED <<queueVars>>,
             UNCHANGED writer \/ (writer \in {"select", "writing", "wrote", "failing"}
                                  /\ writer' \in {"select", "failing", "failed", "discard"}
                                  /\ (writer' # "select" => ctxDone')
                                  /\ (writer' = "select" => writer = "wrote")),
             ctxDone => ctxDone'
      PROVE  FrameInv'
  BY <1>u DEF FrameInv, QueueConserved, WrittenInOrder, NothingStranded, WriterLeavesCancelled
<1>0. CASE UNCHANGED vars
  BY <1>0, <1>u DEF vars
<1>1. ASSUME NEW p \in Callers,
             beginSendOperation(p) \/ frameRejected(p) \/ checkContexts(p)
             \/ slowCloseContext(p) \/ slowCloseNow(p) \/ sendFailed(p)
      PROVE  FrameInv'
  BY <1>1, <1>u DEF beginSendOperation, frameRejected, checkContexts, slowCloseContext,
     slowCloseNow, sendFailed
<1>2. ASSUME NEW p \in Handlers, beginHandlerOperation(p) \/ endHandlerOperation(p)
      PROVE  FrameInv'
  BY <1>2, <1>u DEF beginHandlerOperation, endHandlerOperation
<1>3. ASSUME NEW p \in Callers, enqueueFrame(p) PROVE FrameInv'
  <2>0. UNCHANGED <<opsVars, sendClosed, inHand, written, closeVars, inHandler, writer>>
    BY <1>3, Zenon DEF enqueueFrame
  <2>1. CASE UNCHANGED <<sendQueue, accepted>>
    BY <2>0, <2>1, <1>u
  <2>2. CASE ~sendClosed /\ sendQueue' = Append(sendQueue, p) /\ accepted' = Append(accepted, p)
    <3>1. QueueConserved'
      <4>1. written \o inHand \in Seq(Callers)
        BY <1>t, ConcatProperties
      <4>2. written \o inHand \o Append(sendQueue, p) = Append(written \o inHand \o sendQueue, p)
        BY <4>1, <1>t, ConcatAppend
      <4>. QED
        BY <2>0, <2>2, <4>2 DEF FrameInv, QueueConserved
    <3>2. WrittenInOrder'
      BY <2>0, <2>2, <1>t, PrefixAppend DEF FrameInv, WrittenInOrder
    <3>. QED
      BY <2>0, <2>2, <3>1, <3>2 DEF FrameInv, NothingStranded, WriterLeavesCancelled
  <2>. QED
    BY <1>3, <2>1, <2>2 DEF enqueueFrame, QueueOpen
<1>4. CASE takeFrame
  <2>1. QueueConserved'
    BY <1>4, <1>t, <1>e, ConcatHeadTail DEF takeFrame, FrameInv, QueueConserved
  <2>. QED
    BY <1>4, <2>1 DEF takeFrame, FrameInv, WrittenInOrder, NothingStranded,
       WriterLeavesCancelled
<1>5. CASE writeSucceeds
  <2>1. accepted = (written \o inHand) \o sendQueue /\ written \o inHand \in Seq(Callers)
    BY <1>5, <1>t, ConcatProperties DEF writeSucceeds, FrameInv, QueueConserved
  <2>2. QueueConserved'
    BY <1>5, <1>t, <2>1, ConcatEmptySeq DEF writeSucceeds, QueueConserved
  <2>3. WrittenInOrder'
    BY <1>5, <1>t, <2>1, PrefixConcat DEF writeSucceeds, WrittenInOrder
  <2>. QED
    BY <1>5, <2>2, <2>3 DEF writeSucceeds, FrameInv, NothingStranded, WriterLeavesCancelled
<1>6. CASE writerCancelled \/ endWrite \/ writeFails \/ writeFailsClose
  BY <1>6, <1>u DEF writerCancelled, endWrite, writeFails, writeFailsClose,
     FrameInv, WriterLeavesCancelled
<1>7. CASE endFailedWrite
  BY <1>7 DEF endFailedWrite, FrameInv, QueueConserved, WrittenInOrder, NothingStranded,
     WriterLeavesCancelled
<1>8. CASE discardBegin \/ discardOne \/ discardEnd
  BY <1>8 DEF discardBegin, discardOne, discardEnd, FrameInv, QueueConserved, WrittenInOrder,
     NothingStranded, WriterLeavesCancelled
<1>9. CASE beginDrain \/ closeContext \/ closeNow
  BY <1>9, <1>u DEF beginDrain, closeContext, closeNow
<1>. QED
  BY <1>0, <1>1, <1>2, <1>3, <1>4, <1>5, <1>6, <1>7, <1>8, <1>9 DEF Next, SendStep, WriterStep

-----------------------------------------------------------------------------
(***************************************************************************)
(* The drain, and the inductive invariant of the connection.               *)
(***************************************************************************)

LEMMA DrainNext ==
  TypeOK /\ OpsAccounted /\ DrainChannelStable /\ [Next]_vars => DrainChannelStable'
<1> SUFFICES ASSUME TypeOK, OpsAccounted, DrainChannelStable, [Next]_vars
             PROVE  DrainChannelStable'
  OBVIOUS
<1>1. activeHandlers # 0 => activeOps # 0
  BY FiniteOwners DEF OpsAccounted, WriterOps
<1>2. ASSUME UNCHANGED <<draining, drainDone>> PROVE DrainChannelStable'
  BY <1>2 DEF DrainChannelStable
<1> USE DEF opsVars, queueVars, closeVars
<1>3. ASSUME NEW p \in Callers, beginSendOperation(p) PROVE DrainChannelStable'
  BY <1>1, <1>2, <1>3 DEF beginSendOperation, CanBeginSend, beginOperationLocked, DrainChannelStable
<1>4. ASSUME NEW p \in Handlers, beginHandlerOperation(p) PROVE DrainChannelStable'
  BY <1>2, <1>4 DEF beginHandlerOperation, CanBeginHandler, beginOperationLocked, DrainChannelStable
<1>5. CASE beginDrain
  BY <1>5 DEF beginDrain, DrainChannelStable
<1>6. ASSUME NEW p \in Callers, SendStep(p) PROVE DrainChannelStable'
  BY <1>2, <1>6 DEF SendStep, frameRejected, checkContexts, enqueueFrame, slowCloseContext,
     slowCloseNow, sendFailed, endOperation, endOperationLocked
<1>7. ASSUME NEW p \in Handlers, endHandlerOperation(p) PROVE DrainChannelStable'
  BY <1>2, <1>7 DEF endHandlerOperation, endOperationLocked
<1>8. CASE WriterStep
  BY <1>2, <1>8 DEF WriterStep, takeFrame, writerCancelled, writeSucceeds, endWrite, writeFails,
     writeFailsClose, endFailedWrite, discardBegin, discardOne, discardEnd, endOperation,
     endOperationLocked
<1>9. CASE closeContext \/ closeNow \/ UNCHANGED vars
  BY <1>2, <1>9 DEF closeContext, closeNow, vars
<1>. QED
  BY <1>3, <1>4, <1>5, <1>6, <1>7, <1>8, <1>9 DEF Next

\* The inductive invariant.
IInv == TypeOK /\ OpsAccounted /\ OpsDoneSignals /\ FrameInv /\ DrainChannelStable

LEMMA IInvInit == Init => IInv
<1>1. Init => DrainChannelStable
  BY DEF Init, newConnection, DrainChannelStable
<1>. QED
  BY <1>1, TypeOKInit, OpsInit, FrameInit DEF IInv

LEMMA IInvNext == IInv /\ [Next]_vars => IInv'
  BY TypeOKNext, OpsNext, FrameNext, DrainNext DEF IInv

LEMMA IInvHolds == Spec => []IInv
  BY IInvInit, IInvNext, PTL DEF Spec

\* The websocket sees a prefix of what Send accepted: frames are written in the
\* order of acceptance, also after a write error and while the queue is discarded.
THEOREM FramesInOrder == Spec => []WrittenInOrder
<1>1. IInv => WrittenInOrder
  BY DEF IInv, FrameInv
<1>. QED
  BY <1>1, IInvHolds, PTL

\* While the connection works no frame is lost, repeated or invented between Send
\* and ws.Write, for any number of senders and any queue size.
THEOREM FramesConserved == Spec => []QueueConserved
<1>1. IInv => QueueConserved
  BY DEF IInv, FrameInv
<1>. QED
  BY <1>1, IInvHolds, PTL

\* No frame enters the queue once discardQueuedFrames has emptied it, although
\* enqueueFrame checks the context before it takes sendMu.
THEOREM QueueNotStranded == Spec => []NothingStranded
<1>1. IInv => NothingStranded
  BY DEF IInv, FrameInv
<1>. QED
  BY <1>1, IInvHolds, PTL

\* With the invariant, the drain is complete exactly when no operation is left.
LEMMA DrainedMeansIdle == IInv => (Drained <=> draining /\ activeOps = 0)
  BY DEF IInv, Drained, DrainChannelStable, OpsDoneSignals

\* Without operations there is no owner of one.
LEMMA IdleMeansEmpty ==
  ASSUME IInv, activeOps = 0
  PROVE  /\ Sending = {} /\ inHandler = {} /\ sendQueue = <<>> /\ activeHandlers = 0
         /\ writer \notin {"writing", "wrote", "failing", "failed"}
<1>1. TypeOK /\ OpsAccounted
  BY DEF IInv
<1>2. WriterOps \in Nat
  BY DEF WriterOps
<1>3. /\ Cardinality(Sending) = 0 /\ Cardinality(inHandler) = 0
      /\ Len(sendQueue) = 0 /\ WriterOps = 0
  BY <1>1, <1>2, FiniteOwners DEF OpsAccounted
<1>. QED
  BY <1>1, <1>3, FiniteOwners, FS_EmptySet, EmptySeq DEF WriterOps, TypeOK, OpsAccounted

LEMMA DrainLosesNothingHolds == IInv => DrainLosesNothing
<1> SUFFICES ASSUME IInv, Drained, ~ctxDone PROVE written = accepted
  BY DEF DrainLosesNothing
<1>1. sendQueue = <<>> /\ writer \notin {"writing", "wrote", "failing", "failed"}
  BY DrainedMeansIdle, IdleMeansEmpty
<1>2. writer = "select"
  BY <1>1 DEF IInv, FrameInv, WriterLeavesCancelled, TypeOK, WriterStates
<1>3. inHand = <<>>
  BY <1>2, EmptySeq DEF IInv, TypeOK
<1>4. accepted = written \o <<>> \o <<>>
  BY <1>1, <1>2, <1>3 DEF IInv, FrameInv, QueueConserved
<1>. QED
  BY <1>4, ConcatEmptySeq DEF IInv, TypeOK

\* A completed drain of a connection that was not cancelled has lost no frame.
THEOREM DrainIsLossless == Spec => []DrainLosesNothing
  BY DrainLosesNothingHolds, IInvHolds, PTL

LEMMA DrainIsFinalStep ==
  IInv /\ [Next]_vars => [Drained => Drained' /\ activeOps' = 0 /\ accepted' = accepted]_vars
<1> SUFFICES ASSUME IInv, Next, Drained
             PROVE  Drained' /\ activeOps' = 0 /\ accepted' = accepted
  BY Zenon
<1>1. /\ Sending = {} /\ inHandler = {} /\ sendQueue = <<>> /\ activeHandlers = 0
      /\ writer \notin {"writing", "wrote", "failing", "failed"}
      /\ draining /\ activeOps = 0
  BY DrainedMeansIdle, IdleMeansEmpty
<1>2. \A p \in Callers : pc[p] = "idle"
  BY <1>1 DEF Sending
<1>3. SUFFICES UNCHANGED <<activeOps, draining, opsDone, drainDone, accepted>>
  BY <1>1 DEF Drained
<1> USE DEF opsVars, queueVars, closeVars
<1>4. ASSUME NEW p \in Callers, beginSendOperation(p) PROVE FALSE
  BY <1>1, <1>4 DEF beginSendOperation, CanBeginSend
<1>5. ASSUME NEW p \in Callers, SendStep(p) PROVE FALSE
  BY <1>2, <1>5 DEF SendStep, frameRejected, checkContexts, enqueueFrame, slowCloseContext,
     slowCloseNow, sendFailed
<1>6. ASSUME NEW p \in Handlers, beginHandlerOperation(p) \/ endHandlerOperation(p) PROVE FALSE
  BY <1>1, <1>6 DEF beginHandlerOperation, CanBeginHandler, endHandlerOperation
<1>7. CASE WriterStep
  BY <1>1, <1>7 DEF WriterStep, takeFrame, writerCancelled, writeSucceeds, endWrite, writeFails,
     writeFailsClose, endFailedWrite, discardBegin, discardOne, discardEnd
<1>8. CASE beginDrain \/ closeContext \/ closeNow
  BY <1>1, <1>8 DEF beginDrain, closeContext, closeNow
<1>. QED
  BY <1>4, <1>5, <1>6, <1>7, <1>8 DEF Next

\* Once Shutdown has seen the drain complete, nothing begins on the connection and
\* no frame is accepted any more.
THEOREM DrainFinal == Spec => DrainIsFinal
  BY DrainIsFinalStep, IInvHolds, PTL DEF Spec, DrainIsFinal

-----------------------------------------------------------------------------
(***************************************************************************)
(* The connection implements GracefulSend.                                 *)
(***************************************************************************)

LEMMA PromiseInit == Init => Promise!Init
  BY DEF Init, newConnection, Promise!Init, DrainPhase

\* The phase, read off the operation count.
PhaseByCount ==
  DrainPhase = IF ~draining THEN "running"
               ELSE IF activeOps = 0 THEN "drained" ELSE "draining"

LEMMA PhaseOf == IInv => PhaseByCount /\ DrainLosesNothing
  BY DrainedMeansIdle, DrainLosesNothingHolds DEF DrainPhase, PhaseByCount

LEMMA PhaseOfNext == IInv' => PhaseByCount' /\ DrainLosesNothing'
  BY PhaseOf, PTL

\* A step that only ends an operation completes the drain or leaves it pending.
LEMMA EndMapsToFinish ==
  ASSUME IInv, IInv', endOperationLocked, activeOps > 0,
         UNCHANGED <<draining, accepted, written, ctxDone>>
  PROVE  [Promise!Next]_(Promise!vars)
<1>1. DrainPhase' = DrainPhase \/ (DrainPhase = "draining" /\ DrainPhase' = "drained")
  BY PhaseOf, PhaseOfNext DEF PhaseByCount, endOperationLocked, IInv, TypeOK
<1>2. CASE DrainPhase' = DrainPhase
  BY <1>2 DEF Promise!vars
<1>3. CASE DrainPhase = "draining" /\ DrainPhase' = "drained"
  <2>1. Drained'
    BY <1>3 DEF DrainPhase
  <2>2. ctxDone' \/ written' = accepted'
    BY <2>1, PhaseOfNext DEF DrainLosesNothing
  <2>3. Promise!FinishDrain
    BY <1>3, <2>2 DEF Promise!FinishDrain, Promise!Settled
  <2>. QED
    BY <2>3 DEF Promise!Next
<1>. QED
  BY <1>1, <1>2, <1>3

\* A step that begins an operation does not show.
LEMMA BeginStutters ==
  ASSUME IInv, IInv', beginOperationLocked, draining => activeOps > 0,
         UNCHANGED <<draining, accepted, written, ctxDone>>
  PROVE  UNCHANGED Promise!vars
<1>1. DrainPhase' = DrainPhase
  BY PhaseOf, PhaseOfNext DEF PhaseByCount, beginOperationLocked, IInv, TypeOK
<1>. QED
  BY <1>1 DEF Promise!vars

\* Neither does one that changes nothing the promise speaks of.
LEMMA OtherStutters ==
  ASSUME UNCHANGED <<draining, opsDone, drainDone, accepted, written, ctxDone>>
  PROVE  UNCHANGED Promise!vars
  BY DEF Promise!vars, DrainPhase, Drained

\* A step that cancels the context breaks the connection.
LEMMA CancelBreaks ==
  ASSUME UNCHANGED <<draining, opsDone, drainDone, accepted, written>>, ctxDone' = TRUE
  PROVE  Promise!Next
  BY DEF Promise!Next, Promise!Break, DrainPhase, Drained

LEMMA BusyOwners ==
  ASSUME IInv
  PROVE  /\ \A p \in Callers : pc[p] # "idle" => activeOps > 0
         /\ activeHandlers > 0 => activeOps > 0
         /\ inHandler # {} => activeOps > 0
         /\ sendQueue # <<>> => activeOps > 0
         /\ writer \in {"writing", "wrote", "failing", "failed"} => activeOps > 0
<1>1. activeOps \in Nat
  BY DEF IInv, TypeOK
<1>2. activeOps # 0 => activeOps > 0
  BY <1>1
<1>. QED
  BY <1>2, IdleMeansEmpty DEF Sending

LEMMA PromiseNext == IInv /\ IInv' /\ [Next]_vars => [Promise!Next]_(Promise!vars)
<1> SUFFICES ASSUME IInv, IInv', [Next]_vars PROVE [Promise!Next]_(Promise!vars)
  OBVIOUS
<1> USE DEF opsVars, queueVars, closeVars
<1>0. CASE UNCHANGED vars
  BY <1>0, OtherStutters DEF vars
<1>1. ASSUME NEW p \in Callers, beginSendOperation(p) PROVE [Promise!Next]_(Promise!vars)
  <2>1. draining => activeOps > 0
    BY <1>1, BusyOwners DEF beginSendOperation, CanBeginSend, IInv, TypeOK
  <2>. QED
    BY <1>1, <2>1, BeginStutters DEF beginSendOperation
<1>2. ASSUME NEW p \in Handlers, beginHandlerOperation(p) PROVE [Promise!Next]_(Promise!vars)
  BY <1>2, BeginStutters DEF beginHandlerOperation, CanBeginHandler
<1>3. ASSUME NEW p \in Callers, frameRejected(p) \/ checkContexts(p) \/ slowCloseNow(p)
      PROVE  [Promise!Next]_(Promise!vars)
  BY <1>3, OtherStutters DEF frameRejected, checkContexts, slowCloseNow
<1>4. ASSUME NEW p \in Callers, enqueueFrame(p) PROVE [Promise!Next]_(Promise!vars)
  <2>0. UNCHANGED <<activeOps, draining, opsDone, drainDone, written, ctxDone>> /\ activeOps > 0
    BY <1>4, BusyOwners DEF enqueueFrame
  <2>1. CASE UNCHANGED accepted
    BY <2>0, <2>1, OtherStutters
  <2>2. CASE accepted' = Append(accepted, p)
    <3>1. DrainPhase' = DrainPhase /\ DrainPhase # "drained"
      BY <2>0, PhaseOf, PhaseOfNext DEF PhaseByCount
    <3>2. Promise!Accept(p)
      BY <2>0, <2>2, <3>1 DEF Promise!Accept
    <3>. QED
      BY <3>2 DEF Promise!Next
  <2>. QED
    BY <1>4, <2>1, <2>2 DEF enqueueFrame
<1>5. ASSUME NEW p \in Callers, slowCloseContext(p) PROVE [Promise!Next]_(Promise!vars)
  BY <1>5, CancelBreaks DEF slowCloseContext
<1>6. ASSUME NEW p \in Callers, sendFailed(p) PROVE [Promise!Next]_(Promise!vars)
  BY <1>6, BusyOwners, EndMapsToFinish DEF sendFailed, endOperation
<1>7. ASSUME NEW p \in Handlers, endHandlerOperation(p) PROVE [Promise!Next]_(Promise!vars)
  BY <1>7, BusyOwners, EndMapsToFinish DEF endHandlerOperation
<1>8. CASE takeFrame \/ writerCancelled \/ writeFailsClose \/ discardBegin \/ discardEnd
  BY <1>8, OtherStutters DEF takeFrame, writerCancelled, writeFailsClose, discardBegin, discardEnd
<1>9. CASE writeSucceeds
  <2>1. /\ written \in Seq(Callers) /\ inHand \in Seq(Callers) /\ sendQueue \in Seq(Callers)
        /\ Len(inHand) = 1
    BY <1>9 DEF writeSucceeds, IInv, TypeOK
  <2>2. accepted = written \o inHand \o sendQueue
    BY <1>9 DEF writeSucceeds, IInv, FrameInv, QueueConserved
  <2>3. inHand = <<inHand[1]>> /\ inHand[1] \in Callers
    <3>1. inHand \in [1 .. 1 -> Callers]
      BY <2>1, LenProperties
    <3>. QED
      BY <3>1
  <2>4. /\ Len(written) < Len(accepted)
        /\ accepted[Len(written) + 1] = inHand[1]
    <3>1. /\ written \o inHand \in Seq(Callers)
          /\ Len(written \o inHand) = Len(written) + 1
          /\ (written \o inHand)[Len(written) + 1] = inHand[1]
      <4>1. Len(written) \in Nat
        BY <2>1, LenProperties
      <4>2. /\ written \o inHand \in Seq(Callers)
            /\ Len(written \o inHand) = Len(written) + Len(inHand)
            /\ \A i \in 1 .. Len(written) + Len(inHand) :
                 (written \o inHand)[i] =
                   IF i <= Len(written) THEN written[i] ELSE inHand[i - Len(written)]
        BY <2>1, ConcatProperties
      <4>. QED
        BY <4>1, <4>2, <2>1
    <3>. QED
      BY <3>1, <2>1, <2>2, ConcatProperties, LenProperties
  <2>5. written \o inHand = Append(written, accepted[Len(written) + 1])
    BY <2>1, <2>3, <2>4, AppendIsConcat
  <2>6. DrainPhase' = DrainPhase /\ DrainPhase # "drained"
    BY <1>9, PhaseOf, PhaseOfNext, BusyOwners DEF PhaseByCount, writeSucceeds
  <2>7. Promise!Write
    BY <1>9, <2>4, <2>5, <2>6 DEF writeSucceeds, Promise!Write
  <2>. QED
    BY <2>7 DEF Promise!Next
<1>10. CASE endWrite \/ endFailedWrite \/ discardOne
  BY <1>10, BusyOwners, EndMapsToFinish DEF endWrite, endFailedWrite, discardOne, endOperation
<1>11. CASE writeFails \/ closeContext
  BY <1>11, CancelBreaks DEF writeFails, closeContext
<1>12. CASE beginDrain
  <2>1. DrainPhase = "running" /\ DrainPhase' \in {"draining", "drained"}
    BY <1>12, PhaseOf, PhaseOfNext DEF PhaseByCount, beginDrain
  <2>2. DrainPhase' = "drained" => (ctxDone' \/ written' = accepted')
    BY <2>1, PhaseOfNext DEF DrainLosesNothing, DrainPhase
  <2>3. Promise!BeginDrain
    BY <1>12, <2>1, <2>2 DEF beginDrain, Promise!BeginDrain, Promise!Settled
  <2>. QED
    BY <2>3 DEF Promise!Next
<1>13. CASE closeNow
  BY <1>13, OtherStutters DEF closeNow
<1>. QED
  BY <1>0, <1>1, <1>2, <1>3, <1>4, <1>5, <1>6, <1>7, <1>8, <1>9, <1>10, <1>11, <1>12, <1>13
     DEF Next, SendStep, WriterStep

\* Refinement: with queue, writer and operation count hidden, the connection's
\* behaviours are behaviours of GracefulSend (its safety part).
THEOREM ConnectionImplementsPromise == Spec => Promise!SafeSpec
  BY PromiseInit, PromiseNext, IInvHolds, PTL DEF Spec, Promise!SafeSpec

=============================================================================
