------------------------------ MODULE Exchange ------------------------------
(***************************************************************************)
(* The frames of one connection, with their contents: goroutines that send *)
(* and the read loop that answers build frames in buffers of a pool, the   *)
(* writer puts them on the wire and gives the buffers back; the connection *)
(* remembers how large bodies have been (connection.go, readLoop and       *)
(* dispatchMessage in server.go, dispatcher.go).                           *)
(*                                                                         *)
(* How queue, drain and close work together is the subject of Connection:  *)
(* here the queue is full, closed or takes the frame.  A body is its       *)
(* encoding by the connection's codec (external), Nil, or a value the      *)
(* codec refuses.                                                          *)
(***************************************************************************)
EXTENDS Protocol, SequencesExt

CONSTANTS
  Senders,       \* goroutines of the application, one call each
  Reader,        \* the connection's ServeHTTP goroutine
  Codec,         \* the handler's serialization
  Calls,         \* the calls a sender may make
  Greeting,      \* the call sendConnected makes
  PeerFrames,    \* frames the peer may send
  MaxReads,      \* bound of the model: frames read
  HubMethods,    \* the methods of the hub type, with their signatures
  Results,       \* bodies hub methods return
  ErrorText,     \* err.Error() of a failed dispatch
  Buffers,       \* bound of the model: backing arrays, a set of numbers
  SendQueueSize,
  defaultEncodedPayloadSizeHint, encodedPayloadHeadroomDivisor, encodedPayloadDecayDivisor,
  Nil, Unsupported, None

Writers == Senders \cup {Reader}

\* A call that names no method; raw calls carry an encoded payload (SendRaw,
\* CompleteError, Ping, Pong).
Reply(raw, kind, id, body) ==
  [raw |-> raw, kind |-> kind, method |-> <<>>, id |-> id, body |-> body]

NoCall == Reply(TRUE, FrameKindMessage, <<>>, Nil)
NoMessage == [kind |-> FrameKindPong, method |-> <<>>, id |-> <<>>, body |-> <<>>]

\* The bodies a caller may pass, and the calls the API lets it make: SendRaw and
\* CompleteError carry bytes, Ping and Pong nothing.
Bodies == Seq(Nat) \cup {Nil, Unsupported}

WellFormed(c) ==
  /\ c \in [raw : BOOLEAN, kind : FrameKinds, method : Seq(Nat), id : Seq(Nat), body : Bodies]
  /\ c.raw => c.body # Unsupported
  /\ isControlFrameKind(c.kind) => c.raw /\ c.body = Nil

ASSUME ExchangeConstants ==
  /\ Reader \notin Senders
  /\ Codec \in Serializations /\ Buffers \subseteq Nat /\ None \notin Buffers
  /\ Nil \notin Seq(Nat) /\ Unsupported \notin Seq(Nat) /\ Nil # Unsupported
  /\ \A c \in Calls \cup {Greeting} : WellFormed(c)
  /\ Greeting.kind = FrameKindMessage
  /\ ErrorText \in Seq(Nat) /\ Results \subseteq Bodies /\ PeerFrames \subseteq Seq(Nat)
  /\ MaxReads \in Nat
  /\ defaultEncodedPayloadSizeHint \in Nat \ {0} /\ SendQueueSize \in Nat \ {0}
  /\ encodedPayloadHeadroomDivisor \in Nat \ {0} /\ encodedPayloadDecayDivisor \in Nat \ {0}

VARIABLES
  pc,         \* where each writer is in its call
  call,       \* the call it is in
  buf,        \* the buffer it fills
  room,       \* the size it asked for
  loaded,     \* the hint it loaded
  content,    \* bytes in each buffer
  pool,       \* frameBufferPool
  hint,       \* c.encodedPayloadHint
  sendQueue,  \* buffers in c.sendQueue
  writing,    \* the buffer writeLoop holds: a sequence of length <= 1
  closed,     \* c.ctx is done
  wire,       \* history: frames written to the websocket
  accepted,   \* history: calls whose frame was queued
  answered,   \* history: ids of the completions and errors among them
  reading,    \* where the read loop is
  message,    \* the message it handles
  reads,      \* frames read
  invoked     \* history: ids of the invocations dispatched

sendVars == <<pc, call, buf, room, loaded>>
bufVars == <<content, pool>>
outVars == <<sendQueue, writing, closed, wire, accepted, answered>>
readVars == <<reading, message, reads, invoked>>
vars == <<sendVars, bufVars, hint, outVars, readVars>>

newConnection ==
  /\ pc = [p \in Writers |-> "idle"] /\ call = [p \in Writers |-> NoCall]
  /\ buf = [p \in Writers |-> None] /\ room = [p \in Writers |-> 0]
  /\ loaded = [p \in Writers |-> 0]
  /\ content = [b \in Buffers |-> <<>>] /\ pool = {}
  /\ hint = 0
  /\ sendQueue = <<>> /\ writing = <<>> /\ closed = FALSE /\ wire = <<>>
  /\ accepted = <<>> /\ answered = <<>>
  /\ reading = "greet"
  /\ message = NoMessage /\ reads = 0 /\ invoked = <<>>

Init == newConnection
-----------------------------------------------------------------------------
(***************************************************************************)
(* Buffers.                                                                *)
(***************************************************************************)
InUse == Range(buf) \cup Range(sendQueue) \cup Range(writing)

\* b is a backing array nobody refers to, as make and a growing append return.
newBuffer(b) ==
  /\ b \notin InUse \cup pool
  /\ \A o \in Buffers \ (InUse \cup pool) : b <= o

\* Any buffer of the pool (external), or a new one; that the pool may drop buffers or
\* find them too small only makes it hand out more new ones.
getFrameBuffer(b) == IF pool # {} THEN b \in pool ELSE newBuffer(b)

encodedFrameBufferSize(prefixLen) ==
  LET body == IF hint > 0 THEN hint ELSE defaultEncodedPayloadSizeHint
      roomy == body + body \div encodedPayloadHeadroomDivisor
  IN prefixLen + (IF roomy > maxPayloadSize THEN maxPayloadSize ELSE roomy)

\* putFrameBuffer: the pool gets the buffer with length 0.
putFrameBuffers(bs) ==
  /\ pool' = pool \cup bs
  /\ content' = [b \in Buffers |-> IF b \in bs THEN <<>> ELSE content[b]]

\* Bytes of the header before it is filled in, then method and id.
Prefix(c) == <<0, 0, 0, 0, 0>> \o c.method \o c.id
PayloadOf(c) == IF c.body = Nil THEN <<>> ELSE c.body
-----------------------------------------------------------------------------
(***************************************************************************)
(* One call of Send, SendRaw, Complete, CompleteError, Ping or Pong.       *)
(***************************************************************************)
Call(p, c) ==
  /\ pc' = [pc EXCEPT ![p] = "begun"]
  /\ call' = [call EXCEPT ![p] = c]
  /\ UNCHANGED <<buf, room, loaded>>

Return(p, result) ==
  /\ pc' = [pc EXCEPT ![p] = result]
  /\ call' = [call EXCEPT ![p] = NoCall]

send(p) ==
  /\ p \in Senders /\ pc[p] = "idle"
  /\ \E c \in Calls : Call(p, c)
  /\ UNCHANGED <<bufVars, hint, outVars, readVars>>

Rejected(c) ==
  \/ ~validateProtocolFrame(c.kind, c.method, c.id)
  \/ c.raw /\ ~ensurePayloadSize(Len(PayloadOf(c)))

refuse(p) ==
  /\ pc[p] = "begun" /\ Rejected(call[p])
  /\ Return(p, "failed")
  /\ UNCHANGED <<buf, room, loaded, bufVars, hint, outVars, readVars>>

\* writeRawProtocolFrame up to the queue.
writeRawProtocolFrame(p) ==
  /\ pc[p] = "begun" /\ call[p].raw /\ ~Rejected(call[p])
  /\ \E b \in Buffers :
       /\ getFrameBuffer(b)
       /\ buf' = [buf EXCEPT ![p] = b] /\ pool' = pool \ {b}
       /\ content' = [content EXCEPT ![b] = Prefix(call[p]) \o PayloadOf(call[p])]
  /\ pc' = [pc EXCEPT ![p] = "enqueue"]
  /\ UNCHANGED <<call, room, loaded, hint, outVars, readVars>>

\* writeEncodedProtocolFrame up to marshalAppend.
writeEncodedProtocolFrame(p) ==
  /\ pc[p] = "begun" /\ ~call[p].raw /\ ~Rejected(call[p])
  /\ \E b \in Buffers :
       /\ getFrameBuffer(b)
       /\ buf' = [buf EXCEPT ![p] = b] /\ pool' = pool \ {b}
       /\ content' = [content EXCEPT ![b] = Prefix(call[p])]
  /\ room' = [room EXCEPT ![p] = encodedFrameBufferSize(Len(Prefix(call[p])))]
  /\ pc' = [pc EXCEPT ![p] = "marshal"]
  /\ UNCHANGED <<call, loaded, hint, outVars, readVars>>

\* The call fails, and its buffers go back to the pool.
Discard(p, bs) ==
  /\ putFrameBuffers(bs)
  /\ buf' = [buf EXCEPT ![p] = None]
  /\ Return(p, "failed")

\* The codec accepts the body, and it is not too large.
Encodes(c) == c.body # Unsupported /\ ensurePayloadSize(Len(PayloadOf(c)))

\* Where marshalAppend may leave the frame: in the buffer, which may be larger than asked
\* for, or in a new one if what was asked for is too small.
Grown(p) ==
  {b \in Buffers : \/ b = buf[p]
                   \/ /\ call[p].body # Unsupported
                      /\ Len(content[buf[p]]) + Len(PayloadOf(call[p])) > room[p]
                      /\ newBuffer(b)}

marshalFails(p) ==
  /\ pc[p] = "marshal"
  /\ ~Encodes(call[p])
  /\ \E b \in Grown(p) : Discard(p, {buf[p], b})
  /\ room' = [room EXCEPT ![p] = 0]
  /\ UNCHANGED <<loaded, hint, outVars, readVars>>

\* Mutant: the buffer that was outgrown stays in use and goes back to the pool.
Outgrown_Always(p, b) == {buf[p]}

\* sameFrameBuffer: the buffer to put back once the frame has moved to b.
Outgrown(p, b) == {buf[p]} \ {b}

marshalAppend(p) ==
  LET frame == content[buf[p]] \o PayloadOf(call[p]) IN
  /\ pc[p] = "marshal"
  /\ Encodes(call[p])
  /\ \E b \in Grown(p) :
       /\ content' = [o \in Buffers |-> IF o = b THEN frame ELSE IF o \in Outgrown(p, b) THEN <<>> ELSE content[o]]
       /\ buf' = [buf EXCEPT ![p] = b]
       /\ pool' = pool \cup Outgrown(p, b)
  /\ room' = [room EXCEPT ![p] = 0]
  /\ pc' = [pc EXCEPT ![p] = "observe"]
  /\ UNCHANGED <<call, loaded, hint, outVars, readVars>>

Larger(a, b) == IF a > b THEN a ELSE b
Sample(p) == Larger(Len(PayloadOf(call[p])), defaultEncodedPayloadSizeHint)

\* observeEncodedPayloadSize: Load.
observeLoad(p) ==
  /\ pc[p] = "observe"
  /\ loaded' = [loaded EXCEPT ![p] = hint]
  /\ pc' = [pc EXCEPT ![p] = "swap"]
  /\ UNCHANGED <<call, buf, room, bufVars, hint, outVars, readVars>>

NextHint(current, sample) ==
  IF current > 0 /\ sample < current
  THEN current - (current - sample) \div encodedPayloadDecayDivisor
  ELSE sample

\* Mutant: Store instead of CompareAndSwap.
MaySwap_Store(p) == TRUE

MaySwap(p) == hint = loaded[p]

\* observeEncodedPayloadSize: CompareAndSwap.
observeSwap(p) ==
  /\ pc[p] = "swap"
  /\ \/ /\ MaySwap(p)
        /\ hint' = NextHint(loaded[p], Sample(p))
        /\ pc' = [pc EXCEPT ![p] = "enqueue"]
     \/ /\ ~MaySwap(p)
        /\ pc' = [pc EXCEPT ![p] = "observe"]
        /\ UNCHANGED hint
  /\ loaded' = [loaded EXCEPT ![p] = 0]
  /\ UNCHANGED <<call, buf, room, bufVars, outVars, readVars>>

\* The header encodeFrameHeader writes over the first cells of the buffer.
WithHeader(p) ==
  LET c == call[p]
      frame == content[buf[p]]
  IN encodeFrameHeader(Codec, c.kind, Len(c.method), Len(c.id), Len(frame) - Len(Prefix(c)))
     \o SubSeq(frame, HeaderSize + 1, Len(frame))

\* Mutant: the queue has no limit.
QueueRoom_Unbounded == ~closed

QueueRoom == ~closed /\ Len(sendQueue) < SendQueueSize

\* enqueuePreparedProtocolFrame and enqueueFrame.
enqueueFrame(p) ==
  /\ pc[p] = "enqueue"
  /\ content' = [content EXCEPT ![buf[p]] = WithHeader(p)]
  /\ QueueRoom
  /\ sendQueue' = Append(sendQueue, buf[p])
  /\ accepted' = Append(accepted, call[p])
  /\ answered' = IF call[p].kind \in {FrameKindCompletion, FrameKindError}
                 THEN Append(answered, call[p].id) ELSE answered
  /\ buf' = [buf EXCEPT ![p] = None]
  /\ Return(p, "sent")
  /\ UNCHANGED <<room, loaded, pool, hint, writing, closed, wire, readVars>>

\* enqueueFrame fails: a context is done, or the queue is full and the consumer is
\* disconnected.
enqueueFails(p) ==
  /\ pc[p] = "enqueue"
  /\ Discard(p, {buf[p]})
  /\ \/ UNCHANGED closed
     \/ Len(sendQueue) = SendQueueSize /\ closed' = TRUE
  /\ UNCHANGED <<room, loaded, hint, sendQueue, writing, wire, accepted, answered, readVars>>

SendStep(p) ==
  \/ refuse(p) \/ writeRawProtocolFrame(p) \/ writeEncodedProtocolFrame(p)
  \/ marshalFails(p) \/ marshalAppend(p) \/ observeLoad(p) \/ observeSwap(p)
  \/ enqueueFrame(p) \/ enqueueFails(p)
-----------------------------------------------------------------------------
(***************************************************************************)
(* The writer.                                                             *)
(***************************************************************************)
\* Mutant: the buffer goes back to the pool before it is written.
takeFrame_PutsFirst ==
  /\ writing = <<>> /\ sendQueue # <<>>
  /\ writing' = <<Head(sendQueue)>> /\ sendQueue' = Tail(sendQueue)
  /\ pool' = pool \cup {Head(sendQueue)}
  /\ UNCHANGED <<sendVars, content, hint, closed, wire, accepted, answered, readVars>>

takeFrame ==
  /\ writing = <<>> /\ sendQueue # <<>>
  /\ writing' = <<Head(sendQueue)>> /\ sendQueue' = Tail(sendQueue)
  /\ UNCHANGED <<sendVars, bufVars, hint, closed, wire, accepted, answered, readVars>>

\* ws.Write and the deferred putFrameBuffer.
writeQueuedFrame ==
  /\ writing # <<>>
  /\ \/ ~closed /\ wire' = Append(wire, content[writing[1]]) /\ UNCHANGED closed
     \/ closed' = TRUE /\ UNCHANGED wire
  /\ putFrameBuffers({writing[1]}) /\ writing' = <<>>
  /\ UNCHANGED <<sendVars, hint, sendQueue, accepted, answered, readVars>>

discardQueuedFrames ==
  /\ closed /\ writing = <<>> /\ sendQueue # <<>>
  /\ putFrameBuffers(Range(sendQueue)) /\ sendQueue' = <<>>
  /\ UNCHANGED <<sendVars, hint, writing, closed, wire, accepted, answered, readVars>>
-----------------------------------------------------------------------------
(***************************************************************************)
(* The read loop.                                                          *)
(***************************************************************************)
\* buildDispatcher: methods of the shape (context, pointer) -> (result, error).
routes == {m.name : m \in {h \in HubMethods :
             h.in = 3 /\ h.out = 2 /\ h.takesContext /\ h.takesPointer /\ h.returnsError}}

At(s) == reading' = s

\* The read loop makes a call and looks at its result when it returns.
Answer(c) == Call(Reader, c) /\ At("calling")

sendConnected ==
  /\ reading = "greet" /\ pc[Reader] = "idle"
  /\ Call(Reader, Greeting) /\ UNCHANGED reading
  /\ UNCHANGED <<bufVars, hint, outVars, message, reads, invoked>>

\* Mutant: the error of the call is dropped and the loop goes on.
callReturns_Ignored ==
  /\ pc[Reader] \in {"sent", "failed"}
  /\ pc' = [pc EXCEPT ![Reader] = "idle"]
  /\ At("read")
  /\ message' = NoMessage
  /\ UNCHANGED <<call, buf, room, loaded, bufVars, hint, outVars, reads, invoked>>

\* A call of the read loop returns.  Its failure ends ServeHTTP, whose deferred
\* closeContext runs.
callReturns ==
  /\ pc[Reader] \in {"sent", "failed"}
  /\ pc' = [pc EXCEPT ![Reader] = "idle"]
  /\ \/ pc[Reader] = "sent" /\ At("read")
        /\ UNCHANGED closed
     \/ pc[Reader] = "failed" /\ At("stopped") /\ closed' = TRUE
  /\ message' = NoMessage
  /\ UNCHANGED <<call, buf, room, loaded, bufVars, hint, sendQueue, writing, wire, accepted, answered,
                 reads, invoked>>

Stop == At("stopped") /\ closed' = TRUE /\ message' = NoMessage

\* Reader fails, or the frame does not decode.
readFails ==
  /\ reading = "read"
  /\ Stop
  /\ UNCHANGED <<sendVars, bufVars, hint, sendQueue, writing, wire, accepted, answered, reads, invoked>>

\* A frame decodes: pings and pongs are dealt with here, the rest is dispatched.
readFrame ==
  /\ reading = "read" /\ ~closed /\ reads < MaxReads
  /\ \E f \in PeerFrames :
       /\ Decodes(f, Codec)
       /\ LET m == decodeFrame(f) IN
          \/ /\ m.kind = FrameKindPing
             /\ Answer(Reply(TRUE, FrameKindPong, <<>>, Nil)) /\ UNCHANGED message
          \/ /\ m.kind = FrameKindPong
             /\ UNCHANGED <<sendVars, reading, message>>
          \/ /\ ~isControlFrameKind(m.kind)
             /\ At("dispatch") /\ message' = m /\ UNCHANGED sendVars
  /\ reads' = reads + 1
  /\ UNCHANGED <<bufVars, hint, outVars, invoked>>

\* Mutant: a failed invocation is only logged.
answerFailure_None == At("read") /\ UNCHANGED sendVars

\* CompleteError.
answerFailure == Answer(Reply(TRUE, FrameKindError, message.id, ErrorText))

\* dispatchMessage for an invocation: not found, body not decoded, the hub's error, or
\* a result.
dispatchInvoke ==
  /\ reading = "dispatch" /\ message.kind = FrameKindInvoke
  /\ invoked' = Append(invoked, message.id)
  /\ \/ answerFailure
     \/ /\ message.method \in routes
        /\ \E res \in Results : Answer(Reply(FALSE, FrameKindCompletion, message.id, res))
  /\ UNCHANGED <<bufVars, hint, outVars, message, reads>>

\* dispatchMessage for a message, whose result is dropped and whose error ends the
\* loop, as does any other kind.
dispatchMessage ==
  /\ reading = "dispatch" /\ message.kind # FrameKindInvoke
  /\ \/ /\ message.kind = FrameKindMessage /\ message.method \in routes
        /\ At("read") /\ message' = NoMessage /\ UNCHANGED closed
     \/ Stop
  /\ UNCHANGED <<sendVars, bufVars, hint, sendQueue, writing, wire, accepted, answered, reads, invoked>>

closeContext ==
  /\ ~closed /\ closed' = TRUE
  /\ UNCHANGED <<sendVars, bufVars, hint, sendQueue, writing, wire, accepted, answered, readVars>>

ReadStep == sendConnected \/ callReturns \/ readFails \/ readFrame \/ dispatchInvoke \/ dispatchMessage
-----------------------------------------------------------------------------
Next ==
  \/ \E p \in Senders : send(p)
  \/ \E p \in Writers : SendStep(p)
  \/ takeFrame \/ writeQueuedFrame \/ discardQueuedFrames
  \/ ReadStep \/ closeContext

Spec == Init /\ [][Next]_vars
-----------------------------------------------------------------------------
(***************************************************************************)
(* Properties.                                                             *)
(***************************************************************************)

\* Every variable has its type; whoever fills or writes a frame has a buffer.
TypeOK ==
  /\ pc \in [Writers -> {"idle", "begun", "marshal", "observe", "swap", "enqueue", "sent", "failed"}]
  /\ \A p \in Writers : pc[p] \in {"marshal", "observe", "swap", "enqueue"} <=> buf[p] # None
  /\ buf \in [Writers -> Buffers \cup {None}]
  /\ room \in [Writers -> Nat] /\ loaded \in [Writers -> Nat] /\ hint \in Nat
  /\ DOMAIN call = Writers /\ DOMAIN content = Buffers /\ pool \subseteq Buffers
  /\ sendQueue \in Seq(Buffers) /\ Len(sendQueue) <= SendQueueSize
  /\ writing \in Seq(Buffers) /\ Len(writing) <= 1
  /\ closed \in BOOLEAN /\ reads \in 0 .. MaxReads
  /\ reading \in {"greet", "read", "dispatch", "calling", "stopped"}

\* A buffer has one owner: the pool, one goroutine that fills it, one place in the
\* queue, or the writer.  No error path puts a buffer back twice or while it is in use.
BuffersOwnedOnce ==
  /\ \A p, q \in Writers : buf[p] # None /\ buf[p] = buf[q] => p = q
  /\ IsInjective(writing \o sendQueue)
  /\ Range(writing \o sendQueue) \cap Range(buf) = {}
  /\ pool \cap InUse = {}

\* The peer reads what was sent: the i-th frame on the wire decodes, and its kind,
\* method, invocation id and body are those of the i-th call that was accepted, although
\* frames are built in place, header last, in buffers that other calls have used.
WireFaithful ==
  /\ Len(wire) <= Len(accepted)
  /\ \A i \in DOMAIN wire :
       /\ Decodes(wire[i], Codec)
       /\ decodeFrame(wire[i]) = [kind |-> accepted[i].kind, method |-> accepted[i].method,
                                  id |-> accepted[i].id, body |-> PayloadOf(accepted[i])]

\* The payload hint grows at once and decays gradually, whatever calls observe at the
\* same time: an observation leaves it no lower than the body observed, and never more
\* than one decay step towards the default below what it was.
HintDecays ==
  [][hint' # hint =>
       /\ hint' >= defaultEncodedPayloadSizeHint
       /\ hint' <= Larger(maxPayloadSize, defaultEncodedPayloadSizeHint)
       /\ hint > defaultEncodedPayloadSizeHint =>
            hint' >= hint - (hint - defaultEncodedPayloadSizeHint) \div encodedPayloadDecayDivisor
       /\ \A p \in Writers : pc[p] = "swap" /\ pc'[p] = "enqueue" => hint' >= Sample(p)]_vars

\* Every invocation is answered once, with its own id and in the order received, before
\* the next frame is read; only an answer that cannot be sent stays out, and then the
\* read loop ends.
InvocationsAnswered ==
  /\ IsPrefix(answered, invoked)
  /\ reading = "read" => answered = invoked
  /\ Len(invoked) <= Len(answered) + 1

\* The connected message reaches the peer before any answer to what the peer sent
\* (completion, error or pong), though messages of other goroutines may come before it.
GreetedBeforeAnswers ==
  \A i \in DOMAIN accepted :
    accepted[i].kind \in {FrameKindCompletion, FrameKindError, FrameKindPong} =>
      \E j \in 1 .. i - 1 : accepted[j] = Greeting
=============================================================================
