---------------------------- MODULE ExchangeProofs ----------------------------
(***************************************************************************)
(* Proofs about Exchange: whatever the calls, the peer's frames, the size  *)
(* of the queue and the number of goroutines, a frame buffer has one owner,*)
(* the frames on the wire are the calls that were accepted, the payload    *)
(* hint decays gradually, and the read loop greets and answers in order.   *)
(***************************************************************************)
EXTENDS Exchange, ProtocolProofs

Working == {"marshal", "observe", "swap", "enqueue"}
InCall == {"begun"} \cup Working

(***************************************************************************)
(* The inductive invariant.                                                *)
(***************************************************************************)

\* Nobody but the pool has the buffer.
Unowned(b) ==
  /\ \A p \in Writers : buf[p] # b
  /\ \A i \in 1 .. Len(sendQueue) : sendQueue[i] # b
  /\ \A i \in 1 .. Len(writing) : writing[i] # b

\* BuffersOwnedOnce, owner by owner.
OwnInv ==
  /\ \A p, q \in Writers : buf[p] # None /\ buf[p] = buf[q] => p = q
  /\ \A i, j \in 1 .. Len(sendQueue) : sendQueue[i] = sendQueue[j] => i = j
  /\ \A i \in 1 .. Len(writing), j \in 1 .. Len(sendQueue) : writing[i] # sendQueue[j]
  /\ \A p \in Writers, i \in 1 .. Len(sendQueue) : buf[p] # sendQueue[i]
  /\ \A p \in Writers, i \in 1 .. Len(writing) : buf[p] # writing[i]
  /\ \A b \in pool : Unowned(b)

\* The frame of a call at each step: checked before it gets a buffer, then the cells of
\* the header left open, the names and at last the body.
CallOK(at, c, frame) ==
  /\ at \in InCall => WellFormed(c)
  /\ at \in Working => ~Rejected(c)
  /\ at = "marshal" => ~c.raw /\ frame = Prefix(c)
  /\ at \in {"observe", "swap", "enqueue"} => Encodes(c) /\ frame = Prefix(c) \o PayloadOf(c)

CallInv(p) == CallOK(pc[p], call[p], content[buf[p]])

\* A call whose frame may be queued, and that frame.
CallRecords == [raw : BOOLEAN, kind : FrameKinds, method : Seq(Nat), id : Seq(Nat), body : Bodies]
Accepted == {c \in CallRecords : WellFormed(c) /\ ~Rejected(c) /\ Encodes(c)}
FrameOf(c) == encodeFrame(Codec, c.kind, c.method, c.id, PayloadOf(c))

\* Until the connection is closed, what was accepted is on the wire, with the writer or in
\* the queue, in that order.
WireInv ==
  /\ accepted \in Seq(Accepted) /\ wire \in Seq({FrameOf(c) : c \in Accepted})
  /\ Len(wire) <= Len(accepted)
  /\ \A i \in 1 .. Len(wire) : wire[i] = FrameOf(accepted[i])
  /\ ~closed =>
       /\ Len(accepted) = Len(wire) + Len(writing) + Len(sendQueue)
       /\ \A i \in 1 .. Len(writing) : content[writing[i]] = FrameOf(accepted[Len(wire) + i])
       /\ \A i \in 1 .. Len(sendQueue) :
            content[sendQueue[i]] = FrameOf(accepted[Len(wire) + Len(writing) + i])

HintBound == Larger(maxPayloadSize, defaultEncodedPayloadSizeHint)
HintInv == hint = 0 \/ (defaultEncodedPayloadSizeHint <= hint /\ hint <= HintBound)

\* The read loop reads only between calls.
ReaderInv ==
  /\ reading \in {"read", "dispatch", "stopped"} => pc[Reader] = "idle"
  /\ reading = "dispatch" => message.id \in Seq(Nat)

IInv ==
  /\ TypeOK /\ OwnInv
  /\ \A p \in Writers : CallInv(p)
  /\ WireInv /\ HintInv /\ ReaderInv

\* The read loop alone answers: the application leaves Complete, CompleteError and Pong to
\* it.
ReaderAnswers ==
  \A c \in Calls : c.kind \notin {FrameKindCompletion, FrameKindError, FrameKindPong}

Answers == {FrameKindCompletion, FrameKindError}
Greeted == \E j \in 1 .. Len(accepted) : accepted[j] = Greeting

\* With ReaderAnswers: the greeting is accepted before the loop reads, and what was
\* invoked is what was answered, but for the invocation in hand.
GreetInv ==
  /\ reading \in {"read", "dispatch", "calling"} => Greeted
  /\ reading = "greet" /\ pc[Reader] = "sent" => Greeted
  /\ reading = "greet" /\ pc[Reader] \in InCall => call[Reader] = Greeting
  /\ \A p \in Senders : pc[p] \in InCall => call[p] \in Calls
  /\ GreetedBeforeAnswers

AnswerInv ==
  /\ invoked \in Seq(Seq(Nat)) /\ answered \in Seq(Seq(Nat))
  /\ invoked = answered \/ \E id \in Seq(Nat) : invoked = Append(answered, id)
  /\ reading \in {"greet", "read", "dispatch"} \/ pc[Reader] = "sent" => invoked = answered
  /\ pc[Reader] \in InCall =>
       invoked = IF call[Reader].kind \in Answers THEN Append(answered, call[Reader].id)
                 ELSE answered
-----------------------------------------------------------------------------
(***************************************************************************)
(* Buffers.                                                                *)
(***************************************************************************)
LEMMA NewUnowned ==
  ASSUME TypeOK, NEW b, newBuffer(b)
  PROVE  Unowned(b) /\ b \notin pool
<1>1. Range(buf) = {buf[p] : p \in Writers}
  BY DEF TypeOK, Range
<1>2. DOMAIN sendQueue = 1 .. Len(sendQueue) /\ DOMAIN writing = 1 .. Len(writing)
  BY LenProperties DEF TypeOK
<1> QED
  BY <1>1, <1>2 DEF newBuffer, InUse, Unowned, Range

LEMMA GetUnowned ==
  ASSUME TypeOK, OwnInv, NEW b, getFrameBuffer(b)
  PROVE  Unowned(b)
<1>1. CASE pool = {}
  BY <1>1, NewUnowned DEF getFrameBuffer
<1>2. CASE pool # {}
  BY <1>2 DEF getFrameBuffer, OwnInv
<1> QED
  BY <1>1, <1>2

LEMMA OwnedOnce ==
  ASSUME TypeOK, OwnInv
  PROVE  BuffersOwnedOnce
<1> DEFINE q == writing \o sendQueue
<1>1. /\ Len(writing) \in Nat /\ Len(sendQueue) \in Nat
      /\ DOMAIN sendQueue = 1 .. Len(sendQueue) /\ DOMAIN writing = 1 .. Len(writing)
      /\ Len(writing) <= 1
      /\ writing \in Seq(Buffers) /\ sendQueue \in Seq(Buffers)
  BY LenProperties DEF TypeOK
<1>2. /\ q \in Seq(Buffers) /\ Len(q) = Len(writing) + Len(sendQueue)
      /\ \A i \in 1 .. Len(writing) + Len(sendQueue) :
           q[i] = IF i <= Len(writing) THEN writing[i] ELSE sendQueue[i - Len(writing)]
  BY <1>1, ConcatProperties
<1>3. DOMAIN q = 1 .. Len(q)
  BY <1>2, LenProperties
<1>4. IsInjective(q)
  <2> HIDE DEF q
  <2> SUFFICES ASSUME NEW i \in 1 .. Len(q), NEW j \in 1 .. Len(q), q[i] = q[j]
               PROVE  i = j
    BY <1>3 DEF IsInjective
  <2>1. CASE i <= Len(writing) /\ j <= Len(writing)
    BY <2>1, <1>1, <1>2
  <2>2. CASE i <= Len(writing) /\ ~(j <= Len(writing))
    BY <2>2, <1>1, <1>2 DEF OwnInv
  <2>3. CASE ~(i <= Len(writing)) /\ j <= Len(writing)
    <3>1. /\ j \in 1 .. Len(writing) /\ i - Len(writing) \in 1 .. Len(sendQueue)
          /\ writing[j] = sendQueue[i - Len(writing)]
      BY <2>3, <1>1, <1>2
    <3> QED
      BY <3>1 DEF OwnInv
  <2>4. CASE ~(i <= Len(writing)) /\ ~(j <= Len(writing))
    <3>1. /\ i - Len(writing) \in 1 .. Len(sendQueue) /\ j - Len(writing) \in 1 .. Len(sendQueue)
          /\ sendQueue[i - Len(writing)] = sendQueue[j - Len(writing)]
      BY <2>4, <1>1, <1>2
    <3>2. i - Len(writing) = j - Len(writing)
      BY <3>1 DEF OwnInv
    <3> QED
      BY <3>2, <1>1, <1>2
  <2> QED
    BY <2>1, <2>2, <2>3, <2>4
<1>5. Range(q) = Range(writing) \cup Range(sendQueue)
  BY <1>1, RangeConcatenation
<1>6. Range(buf) = {buf[p] : p \in Writers}
  BY DEF TypeOK, Range
<1>7. Range(q) \cap Range(buf) = {}
  <2>1. /\ Range(writing) = {writing[i] : i \in 1 .. Len(writing)}
        /\ Range(sendQueue) = {sendQueue[i] : i \in 1 .. Len(sendQueue)}
    BY <1>1, RangeEquality
  <2> HIDE DEF q
  <2> QED
    BY <2>1, <1>5, <1>6 DEF OwnInv
<1>8. pool \cap InUse = {}
  BY <1>1, <1>6 DEF OwnInv, Unowned, InUse, Range
<1> QED
  BY <1>4, <1>7, <1>8 DEF BuffersOwnedOnce, OwnInv

(***************************************************************************)
(* Frames.                                                                 *)
(***************************************************************************)
LEMMA CallParts ==
  ASSUME NEW c, WellFormed(c)
  PROVE  /\ c \in CallRecords /\ c.kind \in FrameKinds
         /\ c.method \in Seq(Nat) /\ c.id \in Seq(Nat)
         /\ c.body # Unsupported => PayloadOf(c) \in Seq(Nat)
<1>1. <<>> \in Seq(Nat)
  BY EmptySeq
<1> QED
  BY <1>1 DEF WellFormed, CallRecords, PayloadOf, Bodies

\* Concatenation, and what follows the first n cells, their definitions kept from the
\* provers.
Cat(a, b) == a \o b
After(f, n) == SubSeq(f, n + 1, Len(f))

LEMMA CatFacts ==
  /\ \A a, b \in Seq(Nat) :
       /\ Cat(a, b) \in Seq(Nat) /\ Len(Cat(a, b)) = Len(a) + Len(b)
       /\ SubSeq(Cat(a, b), Len(a) + 1, Len(a) + Len(b)) = b
  /\ \A a, b, c \in Seq(Nat) : Cat(Cat(a, b), c) = Cat(a, Cat(b, c))
<1>1. ASSUME NEW a \in Seq(Nat), NEW b \in Seq(Nat)
      PROVE  /\ Cat(a, b) \in Seq(Nat) /\ Len(Cat(a, b)) = Len(a) + Len(b)
             /\ SubSeq(Cat(a, b), Len(a) + 1, Len(a) + Len(b)) = b
  BY ConcatProperties, LastPart DEF Cat
<1>2. ASSUME NEW a \in Seq(Nat), NEW b \in Seq(Nat), NEW c \in Seq(Nat)
      PROVE  Cat(Cat(a, b), c) = Cat(a, Cat(b, c))
  BY ConcatAssociative DEF Cat
<1> QED
  BY <1>1, <1>2

\* Other first cells for the same rest.
LEMMA Reheaded ==
  ASSUME NEW o \in Seq(Nat), NEW h \in Seq(Nat), NEW m \in Seq(Nat), NEW i \in Seq(Nat),
         NEW b \in Seq(Nat)
  PROVE  /\ Len(Cat(Cat(Cat(o, m), i), b)) - Len(Cat(Cat(o, m), i)) = Len(b)
         /\ Cat(h, After(Cat(Cat(Cat(o, m), i), b), Len(o))) = Cat(Cat(Cat(h, m), i), b)
<1> DEFINE p == Cat(Cat(o, m), i)
           rest == Cat(Cat(m, i), b)
<1>1. p \in Seq(Nat) /\ rest \in Seq(Nat)
  BY CatFacts
<1>2. Cat(p, b) = Cat(o, rest) /\ Cat(Cat(Cat(h, m), i), b) = Cat(h, rest)
  <2> DEFINE mi == Cat(m, i)
  <2>1. mi \in Seq(Nat) /\ Cat(Cat(o, m), i) = Cat(o, mi) /\ Cat(Cat(h, m), i) = Cat(h, mi)
    BY CatFacts
  <2> HIDE DEF mi
  <2>2. Cat(Cat(o, mi), b) = Cat(o, Cat(mi, b)) /\ Cat(Cat(h, mi), b) = Cat(h, Cat(mi, b))
    BY <2>1, CatFacts
  <2> QED
    BY <2>1, <2>2 DEF mi
<1> HIDE DEF p, rest
<1>3. /\ Len(Cat(p, b)) = Len(p) + Len(b) /\ Len(p) \in Nat /\ Len(b) \in Nat
  BY <1>1, CatFacts, LenProperties
<1>4. /\ Len(Cat(o, rest)) = Len(o) + Len(rest)
      /\ SubSeq(Cat(o, rest), Len(o) + 1, Len(o) + Len(rest)) = rest
  BY <1>1, CatFacts
<1>5. Len(Cat(p, b)) - Len(p) = Len(b)
  BY <1>3
<1>6. Cat(h, After(Cat(p, b), Len(o))) = Cat(Cat(Cat(h, m), i), b)
  BY <1>2, <1>4 DEF After
<1> QED
  BY <1>5, <1>6 DEF p

LEMMA HeaderCells ==
  ASSUME NEW kind \in FrameKinds, NEW m \in Nat, NEW i \in Nat, NEW b \in Nat
  PROVE  encodeFrameHeader(Codec, kind, m, i, b) \in Seq(Nat)
<1>1. /\ kind \in Nat /\ Codec \in Nat /\ LenSize \in Nat \ {0} /\ WordSize \in Nat \ {0}
  BY ProtocolConstants, ExchangeConstants DEF FrameKinds, Serializations
<1>2. protocolMagic * 16 + protocolVersion \in Nat
  BY DEF protocolMagic, protocolVersion
<1>3. ((Codec * 16) % 256) + (kind % 16) \in Nat
  BY <1>1
<1>4. m % LenSize \in Nat /\ i % LenSize \in Nat /\ b % WordSize \in Nat
  BY <1>1
<1> QED
  BY <1>2, <1>3, <1>4 DEF encodeFrameHeader

\* The header replaces the cells left open for it: what enqueueFrame queues is the
\* encoding of the call.
LEMMA HeaderFits ==
  ASSUME NEW c, WellFormed(c), Encodes(c)
  PROVE  LET frame == Prefix(c) \o PayloadOf(c)
         IN encodeFrameHeader(Codec, c.kind, Len(c.method), Len(c.id), Len(frame) - Len(Prefix(c)))
              \o SubSeq(frame, HeaderSize + 1, Len(frame)) = FrameOf(c)
<1> DEFINE open == <<0, 0, 0, 0, 0>>
           m == c.method
           i == c.id
           b == PayloadOf(c)
           h == encodeFrameHeader(Codec, c.kind, Len(m), Len(i), Len(b))
<1>1. m \in Seq(Nat) /\ i \in Seq(Nat) /\ b \in Seq(Nat) /\ c.kind \in FrameKinds
  BY CallParts DEF Encodes
<1>2. open \in Seq(Nat) /\ Len(open) = HeaderSize
  BY DEF HeaderSize
<1>3. Prefix(c) = Cat(Cat(open, m), i)
  BY DEF Prefix, Cat
<1>4. Len(m) \in Nat /\ Len(i) \in Nat /\ Len(b) \in Nat
  BY <1>1, LenProperties
<1>5. h \in Seq(Nat)
  BY <1>1, <1>4, HeaderCells
<1>6. FrameOf(c) = Cat(Cat(Cat(h, m), i), b) /\ Prefix(c) \o b = Cat(Prefix(c), b)
  BY DEF FrameOf, encodeFrame, Cat
<1> HIDE DEF h, m, i, b, open
<1> DEFINE frame == Cat(Cat(Cat(open, m), i), b)
<1>7. /\ Len(frame) - Len(Prefix(c)) = Len(b)
      /\ Cat(h, After(frame, Len(open))) = FrameOf(c)
  <2>1. Len(frame) - Len(Cat(Cat(open, m), i)) = Len(b)
    BY <1>1, <1>2, <1>5, Reheaded
  <2>2. Cat(h, After(frame, Len(open))) = Cat(Cat(Cat(h, m), i), b)
    BY <1>1, <1>2, <1>5, Reheaded
  <2> QED
    BY <1>3, <1>6, <2>1, <2>2
<1>8. Prefix(c) \o b = frame
  BY <1>3, <1>6
<1> HIDE DEF frame
<1> QED
  BY <1>2, <1>7, <1>8 DEF h, m, i, b, Cat, After

\* The encoding of an accepted call decodes to it.
LEMMA FrameDecodes ==
  ASSUME NEW c \in Accepted
  PROVE  /\ Decodes(FrameOf(c), Codec)
         /\ decodeFrame(FrameOf(c)) = [kind |-> c.kind, method |-> c.method, id |-> c.id,
                                       body |-> PayloadOf(c)]
<1>1. /\ c.method \in Seq(Cells) /\ c.id \in Seq(Cells) /\ PayloadOf(c) \in Seq(Cells)
      /\ validateProtocolFrame(c.kind, c.method, c.id) /\ ensurePayloadSize(Len(PayloadOf(c)))
  BY CallParts DEF Accepted, Encodes, Rejected, Cells
<1>2. isControlFrameKind(c.kind) => PayloadOf(c) = <<>>
  BY DEF Accepted, WellFormed, PayloadOf
<1>3. Codec \in Serializations
  BY ExchangeConstants
<1> QED
  BY <1>1, <1>2, <1>3, RoundTrip DEF FrameOf

LEMMA WireIsFaithful ==
  ASSUME WireInv
  PROVE  WireFaithful
<1>1. /\ DOMAIN wire = 1 .. Len(wire) /\ Len(wire) \in Nat /\ Len(accepted) \in Nat
      /\ Len(wire) <= Len(accepted)
  BY LenProperties DEF WireInv
<1>2. ASSUME NEW i \in DOMAIN wire
      PROVE  /\ Decodes(wire[i], Codec)
             /\ decodeFrame(wire[i]) = [kind |-> accepted[i].kind, method |-> accepted[i].method,
                                        id |-> accepted[i].id, body |-> PayloadOf(accepted[i])]
  <2>1. wire[i] = FrameOf(accepted[i])
    BY <1>1 DEF WireInv
  <2>2. i \in 1 .. Len(accepted)
    BY <1>1
  <2>3. accepted[i] \in Accepted
    BY <2>2, ElementOfSeq DEF WireInv
  <2> QED
    BY <2>1, <2>3, FrameDecodes
<1> QED
  BY <1>1, <1>2 DEF WireFaithful

(***************************************************************************)
(* The payload hint.                                                       *)
(***************************************************************************)
LEMMA DivBounds ==
  ASSUME NEW a \in Nat, NEW d \in Nat \ {0}
  PROVE  a \div d \in Nat /\ a \div d <= a
  BY SMTT(30)

LEMMA DivMonotone ==
  ASSUME NEW a \in Nat, NEW b \in Nat, a <= b, NEW d \in Nat \ {0}
  PROVE  a \div d <= b \div d
  BY SMTT(30)

LEMMA HintStep ==
  ASSUME NEW h \in Nat, NEW s \in Nat,
         h = 0 \/ (defaultEncodedPayloadSizeHint <= h /\ h <= HintBound),
         defaultEncodedPayloadSizeHint <= s, s <= HintBound
  PROVE  /\ NextHint(h, s) \in Nat /\ s <= NextHint(h, s) /\ NextHint(h, s) <= HintBound
         /\ h > defaultEncodedPayloadSizeHint =>
              NextHint(h, s) >= h - (h - defaultEncodedPayloadSizeHint) \div encodedPayloadDecayDivisor
<1> DEFINE d == defaultEncodedPayloadSizeHint
           k == encodedPayloadDecayDivisor
<1>1. d \in Nat \ {0} /\ k \in Nat \ {0}
  BY ExchangeConstants
<1>2. HintBound \in Nat
  BY <1>1, ProtocolConstants DEF HintBound, Larger
<1>3. CASE h > 0 /\ s < h
  <2>1. h - s \in Nat /\ h - d \in Nat /\ h - s <= h - d
    BY <1>1, <1>3
  <2> DEFINE x == (h - s) \div k
             y == (h - d) \div k
  <2>2. x \in Nat /\ x <= h - s /\ y \in Nat /\ x <= y
    BY <1>1, <2>1, DivBounds, DivMonotone
  <2>3. NextHint(h, s) = h - x
    BY <1>3 DEF NextHint
  <2> HIDE DEF x
  <2>4. h - x \in Nat /\ s <= h - x /\ h - x <= HintBound
    BY <1>2, <1>3, <2>2
  <2>5. h - x >= h - y
    <3> HIDE DEF y
    <3> QED
      BY <2>2
  <2> QED
    BY <2>3, <2>4, <2>5
<1>4. CASE ~(h > 0 /\ s < h)
  <2>1. NextHint(h, s) = s
    BY <1>4 DEF NextHint
  <2>2. ASSUME h > d PROVE s >= h - (h - d) \div k
    <3>1. h - d \in Nat /\ h <= s
      BY <1>1, <1>4, <2>2
    <3>2. (h - d) \div k \in Nat
      BY <1>1, <3>1, DivBounds
    <3> DEFINE y == (h - d) \div k
    <3> HIDE DEF y
    <3>3. y \in Nat => s >= h - y
      BY <3>1
    <3> QED
      BY <3>2, <3>3 DEF y
  <2> QED
    BY <2>1, <2>2
<1> QED
  BY <1>3, <1>4

\* The sample of a body that encodes is within the bounds of the hint.
LEMMA SampleBounds ==
  ASSUME NEW p, WellFormed(call[p]), Encodes(call[p])
  PROVE  /\ Sample(p) \in Nat /\ defaultEncodedPayloadSizeHint <= Sample(p)
         /\ Sample(p) <= HintBound
<1>1. Len(PayloadOf(call[p])) \in Nat /\ Len(PayloadOf(call[p])) <= maxPayloadSize
  BY CallParts, LenProperties DEF Encodes, ensurePayloadSize
<1> QED
  BY <1>1, ExchangeConstants, ProtocolConstants DEF Sample, Larger, HintBound
-----------------------------------------------------------------------------
(***************************************************************************)
(* What the steps leave alone.                                             *)
(***************************************************************************)
\* Nobody but p, and not the pool's business, has the buffer.
FreeFor(p, b) ==
  /\ \A q \in Writers \ {p} : buf[q] # b
  /\ \A i \in 1 .. Len(sendQueue) : sendQueue[i] # b
  /\ \A i \in 1 .. Len(writing) : writing[i] # b

LEMMA OwnFree ==
  ASSUME IInv, NEW p \in Writers, pc[p] \in Working
  PROVE  buf[p] \in Buffers /\ buf[p] # None /\ FreeFor(p, buf[p]) /\ buf[p] \notin pool
<1>1. buf[p] \in Buffers /\ buf[p] # None
  BY DEF IInv, TypeOK, Working
<1> QED
  BY <1>1 DEF IInv, OwnInv, Unowned, FreeFor

LEMMA GrownFree ==
  ASSUME IInv, NEW p \in Writers, pc[p] \in Working, NEW b \in Grown(p)
  PROVE  b \in Buffers /\ FreeFor(p, b) /\ b \notin pool
<1>1. b \in Buffers /\ (b = buf[p] \/ newBuffer(b))
  BY DEF Grown
<1>2. CASE b = buf[p]
  BY <1>2, OwnFree
<1>3. CASE newBuffer(b)
  BY <1>1, <1>3, NewUnowned DEF IInv, Unowned, FreeFor
<1> QED
  BY <1>1, <1>2, <1>3

\* The buffers of the queue and of the writer keep their bytes.
QueueKept ==
  /\ \A i \in 1 .. Len(sendQueue) : content'[sendQueue[i]] = content[sendQueue[i]]
  /\ \A i \in 1 .. Len(writing) : content'[writing[i]] = content[writing[i]]

\* The calls of the other goroutines stay where they are.
OthersKept(p) ==
  \A q \in Writers \ {p} :
    /\ pc'[q] = pc[q] /\ call'[q] = call[q] /\ buf'[q] = buf[q]
    /\ pc[q] \in Working => content'[buf[q]] = content[buf[q]]

LEMMA FreeUntouched ==
  ASSUME IInv, NEW p, NEW X, \A x \in X : FreeFor(p, x),
         \A o \in Buffers \ X : content'[o] = content[o]
  PROVE  /\ QueueKept
         /\ \A q \in Writers \ {p} : pc[q] \in Working => content'[buf[q]] = content[buf[q]]
<1>1. ASSUME NEW i \in 1 .. Len(sendQueue) PROVE content'[sendQueue[i]] = content[sendQueue[i]]
  <2>1. sendQueue[i] \in Buffers
    BY ElementOfSeq DEF IInv, TypeOK
  <2> QED
    BY <2>1 DEF FreeFor
<1>2. ASSUME NEW i \in 1 .. Len(writing) PROVE content'[writing[i]] = content[writing[i]]
  <2>1. writing[i] \in Buffers
    BY ElementOfSeq DEF IInv, TypeOK
  <2> QED
    BY <2>1 DEF FreeFor
<1>3. ASSUME NEW q \in Writers \ {p}, pc[q] \in Working PROVE content'[buf[q]] = content[buf[q]]
  <2>1. buf[q] \in Buffers
    BY <1>3, OwnFree
  <2> QED
    BY <2>1 DEF FreeFor
<1> QED
  BY <1>1, <1>2, <1>3 DEF QueueKept

LEMMA CallsKept ==
  ASSUME IInv, NEW p, OthersKept(p), p \in Writers => CallInv(p)'
  PROVE  \A q \in Writers : CallInv(q)'
<1> SUFFICES ASSUME NEW q \in Writers \ {p} PROVE CallInv(q)'
  OBVIOUS
<1>1. CallInv(q)
  BY DEF IInv
<1>2. pc'[q] = pc[q] /\ call'[q] = call[q] /\ buf'[q] = buf[q]
  BY DEF OthersKept
<1>3. CASE pc[q] \in Working
  <2>1. content'[buf'[q]] = content[buf[q]]
    BY <1>2, <1>3 DEF OthersKept
  <2> QED
    BY <1>1, <1>2, <2>1 DEF CallInv
<1>4. CASE pc[q] \notin Working
  BY <1>1, <1>2, <1>4 DEF CallInv, CallOK, Working
<1> QED
  BY <1>3, <1>4

LEMMA OwnersKept ==
  ASSUME OwnInv, UNCHANGED <<buf, sendQueue, writing, pool>>
  PROVE  OwnInv'
  BY DEF OwnInv, Unowned

LEMMA WireKept ==
  ASSUME WireInv, QueueKept, closed' = closed \/ closed' = TRUE,
         UNCHANGED <<sendQueue, writing, wire, accepted>>
  PROVE  WireInv'
  BY DEF WireInv, QueueKept

\* A step of a call leaves the read loop where it is.
LEMMA ReaderKept ==
  ASSUME IInv, NEW p \in Writers, pc[p] # "idle", NEW x, pc' = [pc EXCEPT ![p] = x],
         UNCHANGED <<reading, message>>
  PROVE  ReaderInv'
<1>1. Reader \in Writers /\ pc \in [Writers -> {"idle", "begun", "marshal", "observe", "swap",
                                                "enqueue", "sent", "failed"}]
  BY DEF IInv, TypeOK, Writers
<1> QED
  BY <1>1 DEF IInv, ReaderInv
-----------------------------------------------------------------------------
(***************************************************************************)
(* The steps of a call.                                                    *)
(***************************************************************************)
LEMMA InitIInv ==
  ASSUME Init
  PROVE  IInv
<1> USE DEF Init, newConnection
<1>1. Len(<<>>) = 0 /\ <<>> \in Seq(Buffers) /\ <<>> \in Seq(Accepted)
      /\ <<>> \in Seq({FrameOf(c) : c \in Accepted})
  BY EmptySeq
<1>2. TypeOK
  <2>1. /\ sendQueue \in Seq(Buffers) /\ Len(sendQueue) <= SendQueueSize
        /\ writing \in Seq(Buffers) /\ Len(writing) <= 1
    BY <1>1, ExchangeConstants
  <2>2. /\ pc \in [Writers -> {"idle", "begun", "marshal", "observe", "swap", "enqueue", "sent",
                               "failed"}]
        /\ \A p \in Writers : pc[p] = "idle" /\ buf[p] = None
        /\ buf \in [Writers -> Buffers \cup {None}]
    OBVIOUS
  <2>3. room \in [Writers -> Nat] /\ loaded \in [Writers -> Nat] /\ hint \in Nat
    OBVIOUS
  <2>4. /\ DOMAIN call = Writers /\ DOMAIN content = Buffers /\ pool \subseteq Buffers
        /\ reading = "greet"
    OBVIOUS
  <2>5. reads \in 0 .. MaxReads
    BY ExchangeConstants
  <2>6. closed \in BOOLEAN
    OBVIOUS
  <2> QED
    BY <2>1, <2>2, <2>3, <2>4, <2>5, <2>6 DEF TypeOK
<1>3. OwnInv
  BY <1>1 DEF OwnInv
<1>4. \A p \in Writers : CallInv(p)
  BY DEF CallInv, CallOK, InCall, Working
<1>5. WireInv
  BY <1>1 DEF WireInv
<1>6. HintInv /\ ReaderInv
  BY DEF HintInv, ReaderInv
<1> QED
  BY <1>2, <1>3, <1>4, <1>5, <1>6 DEF IInv

\* A call begins.
LEMMA CallStep ==
  ASSUME IInv, NEW p \in Writers, NEW c, Call(p, c), WellFormed(c), pc[p] = "idle",
         UNCHANGED <<bufVars, hint, outVars>>,
         reading' \in {"greet", "read", "dispatch", "calling", "stopped"}, reads' \in 0 .. MaxReads
  PROVE  TypeOK' /\ OwnInv' /\ (\A q \in Writers : CallInv(q)') /\ WireInv' /\ HintInv'
<1> USE DEF bufVars, outVars, Call
<1>1. OwnInv'
  BY OwnersKept DEF IInv
<1>2. CallInv(p)'
  <2>1. pc'[p] = "begun" /\ call'[p] = c
    BY DEF IInv, TypeOK
  <2> QED
    BY <2>1 DEF CallInv, CallOK, InCall, Working
<1>3. OthersKept(p)
  BY DEF IInv, TypeOK, OthersKept
<1>4. \A q \in Writers : CallInv(q)'
  BY <1>2, <1>3, CallsKept
<1>5. WireInv'
  BY WireKept DEF IInv, QueueKept
<1>6. TypeOK'
  BY DEF IInv, TypeOK
<1> QED
  BY <1>1, <1>4, <1>5, <1>6 DEF IInv, HintInv

\* A step of p that takes it from one place of its call to another, and touches no
\* buffer.
LEMMA PlainStep ==
  ASSUME IInv, NEW p \in Writers, NEW x, pc' = [pc EXCEPT ![p] = x], pc[p] # "idle",
         call' = call \/ call' = [call EXCEPT ![p] = NoCall],
         UNCHANGED <<buf, bufVars, outVars, readVars>>, CallInv(p)'
  PROVE  OwnInv' /\ (\A q \in Writers : CallInv(q)') /\ WireInv' /\ ReaderInv'
<1> USE DEF bufVars, outVars, readVars
<1>1. OwnInv'
  BY OwnersKept DEF IInv
<1>2. OthersKept(p)
  BY DEF IInv, TypeOK, OthersKept
<1>3. \A q \in Writers : CallInv(q)'
  BY <1>2, CallsKept
<1>4. WireInv'
  BY WireKept DEF IInv, QueueKept
<1>5. ReaderInv'
  BY ReaderKept
<1> QED
  BY <1>1, <1>3, <1>4, <1>5

LEMMA RefuseStep ==
  ASSUME IInv, NEW p \in Writers, refuse(p)
  PROVE  IInv'
<1> USE DEF refuse, Return, outVars, bufVars, readVars
<1>1. TypeOK'
  BY DEF IInv, TypeOK
<1>2. CallInv(p)'
  <2>1. pc'[p] = "failed"
    BY DEF IInv, TypeOK
  <2> QED
    BY <2>1 DEF CallInv, CallOK, InCall, Working
<1>3. OwnInv' /\ (\A q \in Writers : CallInv(q)') /\ WireInv' /\ ReaderInv'
  BY <1>2, PlainStep
<1> QED
  BY <1>1, <1>3 DEF IInv, HintInv

LEMMA LoadStep ==
  ASSUME IInv, NEW p \in Writers, observeLoad(p)
  PROVE  IInv'
<1> USE DEF observeLoad, outVars, bufVars, readVars
<1>1. TypeOK'
  BY DEF IInv, TypeOK
<1>2. CallInv(p)'
  <2>1. pc[p] = "observe" /\ pc'[p] = "swap" /\ CallInv(p)
    BY DEF IInv, TypeOK
  <2> QED
    BY <2>1 DEF CallInv, CallOK, InCall, Working
<1>3. OwnInv' /\ (\A q \in Writers : CallInv(q)') /\ WireInv' /\ ReaderInv'
  BY <1>2, PlainStep
<1> QED
  BY <1>1, <1>3 DEF IInv, HintInv

LEMMA SwapStep ==
  ASSUME IInv, NEW p \in Writers, observeSwap(p)
  PROVE  IInv'
<1> USE DEF observeSwap, outVars, bufVars, readVars
<1>1. pc[p] = "swap" /\ CallInv(p) /\ pc'[p] \in {"enqueue", "observe"}
  BY DEF IInv, TypeOK
<1>2. CallInv(p)'
  BY <1>1 DEF CallInv, CallOK, InCall, Working
<1>3. OwnInv' /\ (\A q \in Writers : CallInv(q)') /\ WireInv' /\ ReaderInv'
  BY <1>1, <1>2, PlainStep
<1>4. hint' \in Nat /\ HintInv'
  <2>1. CASE MaySwap(p) /\ hint' = NextHint(loaded[p], Sample(p))
    <3>1. /\ Sample(p) \in Nat /\ defaultEncodedPayloadSizeHint <= Sample(p)
          /\ Sample(p) <= HintBound
      BY <1>1, SampleBounds DEF CallInv, CallOK, InCall, Working
    <3>2. hint' = NextHint(hint, Sample(p)) /\ hint \in Nat
      BY <2>1 DEF MaySwap, IInv, TypeOK
    <3>3. hint' \in Nat /\ Sample(p) <= hint' /\ hint' <= HintBound
      BY <3>1, <3>2, HintStep DEF IInv, HintInv
    <3> QED
      BY <3>1, <3>3, ExchangeConstants DEF HintInv
  <2>2. CASE hint' = hint
    BY <2>2 DEF IInv, TypeOK, HintInv
  <2> QED
    BY <2>1, <2>2
<1>5. TypeOK'
  BY <1>4 DEF IInv, TypeOK
<1> QED
  BY <1>3, <1>4, <1>5 DEF IInv

\* A step that gives p the buffer b, taken from the pool or new, with frame f in it.
LEMMA TakeStep ==
  ASSUME IInv, NEW p \in Writers, pc[p] = "begun", NEW b \in Buffers, getFrameBuffer(b),
         buf' = [buf EXCEPT ![p] = b], pool' = pool \ {b},
         NEW f, content' = [content EXCEPT ![b] = f],
         NEW x \in Working, pc' = [pc EXCEPT ![p] = x],
         UNCHANGED <<call, outVars, readVars>>, CallOK(x, call[p], f)
  PROVE  OwnInv' /\ (\A q \in Writers : CallInv(q)') /\ WireInv' /\ ReaderInv'
<1> USE DEF outVars, readVars
<1>1. Unowned(b) /\ b # None
  BY GetUnowned, ExchangeConstants DEF IInv
<1>2. /\ buf'[p] = b /\ pc'[p] = x /\ content'[b] = f
      /\ \A q \in Writers \ {p} : buf'[q] = buf[q] /\ pc'[q] = pc[q]
  BY DEF IInv, TypeOK
<1>3. OwnInv'
  <2>1. \A q, r \in Writers : buf'[q] # None /\ buf'[q] = buf'[r] => q = r
    BY <1>1, <1>2 DEF IInv, OwnInv, Unowned
  <2>2. /\ \A q \in Writers, i \in 1 .. Len(sendQueue) : buf'[q] # sendQueue[i]
        /\ \A q \in Writers, i \in 1 .. Len(writing) : buf'[q] # writing[i]
    BY <1>1, <1>2 DEF IInv, OwnInv, Unowned
  <2>3. \A o \in pool' : Unowned(o)'
    BY <1>1, <1>2 DEF IInv, OwnInv, Unowned
  <2> QED
    BY <2>1, <2>2, <2>3 DEF IInv, OwnInv
<1>4. /\ QueueKept
      /\ \A q \in Writers \ {p} : pc[q] \in Working => content'[buf[q]] = content[buf[q]]
  <2> DEFINE X == {b}
  <2>1. \A y \in X : FreeFor(p, y)
    BY <1>1 DEF FreeFor, Unowned
  <2>2. \A o \in Buffers \ X : content'[o] = content[o]
    BY DEF IInv, TypeOK
  <2> HIDE DEF X
  <2> QED
    BY <2>1, <2>2, FreeUntouched
<1>5. OthersKept(p)
  BY <1>2, <1>4 DEF OthersKept
<1>6. CallInv(p)'
  BY <1>2 DEF CallInv
<1>7. \A q \in Writers : CallInv(q)'
  BY <1>5, <1>6, CallsKept
<1>8. WireInv'
  BY <1>4, WireKept DEF IInv
<1>9. ReaderInv'
  BY ReaderKept
<1> QED
  BY <1>3, <1>7, <1>8, <1>9

LEMMA RawStep ==
  ASSUME IInv, NEW p \in Writers, writeRawProtocolFrame(p)
  PROVE  IInv'
<1> USE DEF outVars, readVars
<1>1. PICK b \in Buffers :
        /\ getFrameBuffer(b) /\ buf' = [buf EXCEPT ![p] = b] /\ pool' = pool \ {b}
        /\ content' = [content EXCEPT ![b] = Prefix(call[p]) \o PayloadOf(call[p])]
  BY DEF writeRawProtocolFrame
<1>2. /\ pc[p] = "begun" /\ call[p].raw /\ ~Rejected(call[p])
      /\ pc' = [pc EXCEPT ![p] = "enqueue"]
      /\ UNCHANGED <<call, room, loaded, hint, outVars, readVars>>
  BY DEF writeRawProtocolFrame
<1>3. TypeOK'
  BY <1>1, <1>2, ExchangeConstants DEF IInv, TypeOK
<1>4. CallOK("enqueue", call[p], Prefix(call[p]) \o PayloadOf(call[p]))
  <2>1. WellFormed(call[p])
    BY <1>2 DEF IInv, CallInv, CallOK, InCall
  <2>2. Encodes(call[p])
    BY <1>2, <2>1 DEF Encodes, Rejected, WellFormed
  <2> QED
    BY <1>2, <2>1, <2>2 DEF CallOK
<1>5. OwnInv' /\ (\A q \in Writers : CallInv(q)') /\ WireInv' /\ ReaderInv'
  BY <1>1, <1>2, <1>4, TakeStep DEF Working
<1> QED
  BY <1>2, <1>3, <1>5 DEF IInv, HintInv

LEMMA EncodedStep ==
  ASSUME IInv, NEW p \in Writers, writeEncodedProtocolFrame(p)
  PROVE  IInv'
<1> USE DEF outVars, readVars
<1>1. PICK b \in Buffers :
        /\ getFrameBuffer(b) /\ buf' = [buf EXCEPT ![p] = b] /\ pool' = pool \ {b}
        /\ content' = [content EXCEPT ![b] = Prefix(call[p])]
  BY DEF writeEncodedProtocolFrame
<1>2. /\ pc[p] = "begun" /\ ~call[p].raw /\ ~Rejected(call[p])
      /\ room' = [room EXCEPT ![p] = encodedFrameBufferSize(Len(Prefix(call[p])))]
      /\ pc' = [pc EXCEPT ![p] = "marshal"]
      /\ UNCHANGED <<call, loaded, hint, outVars, readVars>>
  BY DEF writeEncodedProtocolFrame
<1>3. WellFormed(call[p])
  BY <1>2 DEF IInv, CallInv, CallOK, InCall
<1>4. encodedFrameBufferSize(Len(Prefix(call[p]))) \in Nat
  <2>1. Len(Prefix(call[p])) \in Nat
    <3> DEFINE open == <<0, 0, 0, 0, 0>>
               m == call[p].method
               i == call[p].id
    <3>1. m \in Seq(Nat) /\ i \in Seq(Nat) /\ open \in Seq(Nat)
      BY <1>3, CallParts
    <3>2. Prefix(call[p]) = Cat(Cat(open, m), i)
      BY DEF Prefix, Cat
    <3> HIDE DEF open, m, i
    <3>3. Prefix(call[p]) \in Seq(Nat)
      BY <3>1, <3>2, CatFacts
    <3> QED
      BY <3>3, LenProperties
  <2>2. /\ hint \in Nat /\ defaultEncodedPayloadSizeHint \in Nat /\ maxPayloadSize \in Nat
        /\ encodedPayloadHeadroomDivisor \in Nat \ {0}
    BY ExchangeConstants, ProtocolConstants DEF IInv, TypeOK
  <2>3. \A n \in Nat : n \div encodedPayloadHeadroomDivisor \in Nat
    BY <2>2, DivBounds
  <2> DEFINE body == IF hint > 0 THEN hint ELSE defaultEncodedPayloadSizeHint
             extra == body \div encodedPayloadHeadroomDivisor
  <2>4. body \in Nat /\ extra \in Nat
    BY <2>2, <2>3
  <2>5. encodedFrameBufferSize(Len(Prefix(call[p]))) = Len(Prefix(call[p])) +
          (IF body + extra > maxPayloadSize THEN maxPayloadSize ELSE body + extra)
    BY DEF encodedFrameBufferSize
  <2> HIDE DEF body, extra
  <2> QED
    BY <2>1, <2>2, <2>4, <2>5
<1>5. TypeOK'
  BY <1>1, <1>2, <1>4, ExchangeConstants DEF IInv, TypeOK
<1>6. CallOK("marshal", call[p], Prefix(call[p]))
  BY <1>2, <1>3 DEF CallOK
<1>7. OwnInv' /\ (\A q \in Writers : CallInv(q)') /\ WireInv' /\ ReaderInv'
  BY <1>1, <1>2, <1>6, TakeStep DEF Working
<1> QED
  BY <1>2, <1>5, <1>7 DEF IInv, HintInv

\* A step of p that puts the buffers bs back, all of them p's, and ends its call.
LEMMA DiscardStep ==
  ASSUME IInv, NEW p \in Writers, pc[p] \in Working, NEW bs, bs \subseteq Buffers,
         \A b \in bs : FreeFor(p, b), Discard(p, bs), closed' = closed \/ closed' = TRUE,
         UNCHANGED <<sendQueue, writing, wire, accepted, readVars>>
  PROVE  OwnInv' /\ (\A q \in Writers : CallInv(q)') /\ WireInv' /\ ReaderInv'
<1> USE DEF readVars
<1>1. /\ pool' = pool \cup bs /\ buf' = [buf EXCEPT ![p] = None]
      /\ content' = [b \in Buffers |-> IF b \in bs THEN <<>> ELSE content[b]]
      /\ pc' = [pc EXCEPT ![p] = "failed"] /\ call' = [call EXCEPT ![p] = NoCall]
  BY DEF Discard, putFrameBuffers, Return
<1>2. /\ buf'[p] = None /\ pc'[p] = "failed"
      /\ \A q \in Writers \ {p} : buf'[q] = buf[q] /\ pc'[q] = pc[q] /\ call'[q] = call[q]
  BY <1>1 DEF IInv, TypeOK
<1>3. OwnInv'
  <2>1. \A q, r \in Writers : buf'[q] # None /\ buf'[q] = buf'[r] => q = r
    BY <1>2 DEF IInv, OwnInv
  <2>2. /\ \A i \in 1 .. Len(sendQueue) : sendQueue[i] \in Buffers
        /\ \A i \in 1 .. Len(writing) : writing[i] \in Buffers
    BY ElementOfSeq DEF IInv, TypeOK
  <2>3. /\ \A q \in Writers, i \in 1 .. Len(sendQueue) : buf'[q] # sendQueue[i]
        /\ \A q \in Writers, i \in 1 .. Len(writing) : buf'[q] # writing[i]
    BY <1>2, <2>2, ExchangeConstants DEF IInv, OwnInv
  <2>4. ASSUME NEW o \in pool' PROVE Unowned(o)'
    <3>1. o \in Buffers /\ o # None
      BY <1>1, ExchangeConstants DEF IInv, TypeOK
    <3>2. CASE o \in pool
      BY <1>2, <3>1, <3>2 DEF IInv, OwnInv, Unowned
    <3>3. CASE o \in bs
      BY <1>2, <3>1, <3>3 DEF FreeFor, Unowned
    <3> QED
      BY <1>1, <3>2, <3>3
  <2> QED
    BY <2>1, <2>3, <2>4 DEF IInv, OwnInv
<1>4. /\ QueueKept
      /\ \A q \in Writers \ {p} : pc[q] \in Working => content'[buf[q]] = content[buf[q]]
  <2>1. \A o \in Buffers \ bs : content'[o] = content[o]
    BY <1>1
  <2> QED
    BY <2>1, FreeUntouched
<1>5. OthersKept(p)
  BY <1>2, <1>4 DEF OthersKept
<1>6. CallInv(p)'
  BY <1>2 DEF CallInv, CallOK, InCall, Working
<1>7. \A q \in Writers : CallInv(q)'
  BY <1>5, <1>6, CallsKept
<1>8. WireInv'
  BY <1>4, WireKept DEF IInv
<1>9. ReaderInv'
  BY <1>1, ReaderKept DEF Working
<1> QED
  BY <1>3, <1>7, <1>8, <1>9

LEMMA MarshalFailsStep ==
  ASSUME IInv, NEW p \in Writers, marshalFails(p)
  PROVE  IInv'
<1> USE DEF outVars, readVars
<1>1. /\ pc[p] = "marshal" /\ room' = [room EXCEPT ![p] = 0]
      /\ UNCHANGED <<loaded, hint, outVars, readVars>>
  BY DEF marshalFails
<1>2. PICK b \in Grown(p) : Discard(p, {buf[p], b})
  BY DEF marshalFails
<1> DEFINE bs == {buf[p], b}
<1>3. bs \subseteq Buffers /\ \A o \in bs : FreeFor(p, o)
  BY <1>1, OwnFree, GrownFree DEF Working
<1>4. Discard(p, bs)
  BY <1>2
<1> HIDE DEF bs
<1>5. OwnInv' /\ (\A q \in Writers : CallInv(q)') /\ WireInv' /\ ReaderInv'
  BY <1>1, <1>3, <1>4, DiscardStep DEF Working
<1>6. TypeOK'
  BY <1>1, <1>3, <1>4 DEF IInv, TypeOK, Discard, putFrameBuffers, Return
<1> QED
  BY <1>1, <1>5, <1>6 DEF IInv, HintInv

LEMMA EnqueueFailsStep ==
  ASSUME IInv, NEW p \in Writers, enqueueFails(p)
  PROVE  IInv'
<1> USE DEF outVars, readVars
<1>1. /\ pc[p] = "enqueue" /\ (closed' = closed \/ closed' = TRUE)
      /\ UNCHANGED <<room, loaded, hint, sendQueue, writing, wire, accepted, answered, readVars>>
  BY DEF enqueueFails
<1> DEFINE bs == {buf[p]}
<1>2. bs \subseteq Buffers /\ \A o \in bs : FreeFor(p, o)
  BY <1>1, OwnFree DEF Working
<1>3. Discard(p, bs)
  BY DEF enqueueFails
<1> HIDE DEF bs
<1>4. OwnInv' /\ (\A q \in Writers : CallInv(q)') /\ WireInv' /\ ReaderInv'
  BY <1>1, <1>2, <1>3, DiscardStep DEF Working
<1>5. TypeOK'
  BY <1>1, <1>2, <1>3 DEF IInv, TypeOK, Discard, putFrameBuffers, Return
<1> QED
  BY <1>1, <1>4, <1>5 DEF IInv, HintInv

LEMMA MarshalStep ==
  ASSUME IInv, NEW p \in Writers, marshalAppend(p)
  PROVE  IInv'
<1> USE DEF outVars, readVars
<1> DEFINE frame == content[buf[p]] \o PayloadOf(call[p])
<1>1. /\ pc[p] = "marshal" /\ Encodes(call[p]) /\ room' = [room EXCEPT ![p] = 0]
      /\ pc' = [pc EXCEPT ![p] = "observe"]
      /\ UNCHANGED <<call, loaded, hint, outVars, readVars>>
  BY DEF marshalAppend
<1>2. PICK b \in Grown(p) :
        /\ content' = [o \in Buffers |-> IF o = b THEN frame
                                         ELSE IF o \in Outgrown(p, b) THEN <<>> ELSE content[o]]
        /\ buf' = [buf EXCEPT ![p] = b]
        /\ pool' = pool \cup Outgrown(p, b)
  BY DEF marshalAppend
<1>3. CallInv(p) /\ frame = Prefix(call[p]) \o PayloadOf(call[p])
  BY <1>1 DEF IInv, CallInv, CallOK
<1> HIDE DEF frame
<1>4. /\ buf[p] \in Buffers /\ FreeFor(p, buf[p]) /\ buf[p] \notin pool
      /\ b \in Buffers /\ FreeFor(p, b) /\ b \notin pool /\ b # None
  BY <1>1, OwnFree, GrownFree, ExchangeConstants DEF Working
<1>5. /\ buf'[p] = b /\ pc'[p] = "observe" /\ content'[b] = frame
      /\ \A q \in Writers \ {p} : buf'[q] = buf[q] /\ pc'[q] = pc[q]
  BY <1>1, <1>2, <1>4 DEF IInv, TypeOK
<1>6. OwnInv'
  <2>1. \A q, r \in Writers : buf'[q] # None /\ buf'[q] = buf'[r] => q = r
    BY <1>4, <1>5 DEF IInv, OwnInv, FreeFor
  <2>2. /\ \A q \in Writers, i \in 1 .. Len(sendQueue) : buf'[q] # sendQueue[i]
        /\ \A q \in Writers, i \in 1 .. Len(writing) : buf'[q] # writing[i]
    BY <1>4, <1>5 DEF IInv, OwnInv, FreeFor
  <2>3. ASSUME NEW o \in pool' PROVE Unowned(o)'
    <3>1. CASE o \in pool
      BY <1>1, <1>4, <1>5, <3>1 DEF IInv, OwnInv, Unowned
    <3>2. CASE o = buf[p] /\ o # b
      BY <1>1, <1>4, <1>5, <3>2 DEF Unowned, FreeFor
    <3> QED
      BY <1>2, <3>1, <3>2 DEF Outgrown
  <2> QED
    BY <1>1, <2>1, <2>2, <2>3 DEF IInv, OwnInv
<1>7. /\ QueueKept
      /\ \A q \in Writers \ {p} : pc[q] \in Working => content'[buf[q]] = content[buf[q]]
  <2> DEFINE X == {b, buf[p]}
  <2>1. \A y \in X : FreeFor(p, y)
    BY <1>4
  <2>2. \A o \in Buffers \ X : content'[o] = content[o]
    BY <1>2 DEF Outgrown
  <2> HIDE DEF X
  <2> QED
    BY <2>1, <2>2, FreeUntouched
<1>8. OthersKept(p)
  BY <1>1, <1>5, <1>7 DEF OthersKept
<1>9. CallInv(p)'
  BY <1>1, <1>3, <1>5 DEF CallInv, CallOK, InCall, Working
<1>10. \A q \in Writers : CallInv(q)'
  BY <1>8, <1>9, CallsKept
<1>11. WireInv'
  BY <1>1, <1>7, WireKept DEF IInv
<1>12. ReaderInv'
  BY <1>1, ReaderKept
<1>13. TypeOK'
  BY <1>1, <1>2, <1>4 DEF IInv, TypeOK, Outgrown
<1> QED
  BY <1>1, <1>6, <1>10, <1>11, <1>12, <1>13 DEF IInv, HintInv

LEMMA EnqueueStep ==
  ASSUME IInv, NEW p \in Writers, enqueueFrame(p)
  PROVE  IInv'
<1> USE DEF readVars
<1> DEFINE b == buf[p]
           f == FrameOf(call[p])
           n == Len(sendQueue)
<1>1. /\ pc[p] = "enqueue" /\ QueueRoom /\ sendQueue' = Append(sendQueue, b)
      /\ accepted' = Append(accepted, call[p]) /\ buf' = [buf EXCEPT ![p] = None]
      /\ pc' = [pc EXCEPT ![p] = "sent"] /\ call' = [call EXCEPT ![p] = NoCall]
      /\ content' = [content EXCEPT ![b] = WithHeader(p)]
      /\ UNCHANGED <<room, loaded, pool, hint, writing, closed, wire, readVars>>
  BY DEF enqueueFrame, Return
<1>2. b \in Buffers /\ b # None /\ FreeFor(p, b) /\ b \notin pool
  BY <1>1, OwnFree DEF Working
<1>3. /\ WellFormed(call[p]) /\ ~Rejected(call[p]) /\ Encodes(call[p])
      /\ content[b] = Prefix(call[p]) \o PayloadOf(call[p])
  BY <1>1 DEF IInv, CallInv, CallOK, InCall, Working
<1>4. WithHeader(p) = f
  BY <1>3, HeaderFits DEF WithHeader
<1>5. call[p] \in Accepted
  BY <1>3, CallParts DEF Accepted
<1> HIDE DEF f, b
<1>6. /\ buf'[p] = None /\ pc'[p] = "sent" /\ content'[b] = f
      /\ \A o \in Buffers \ {b} : content'[o] = content[o]
      /\ \A q \in Writers \ {p} : buf'[q] = buf[q] /\ pc'[q] = pc[q] /\ call'[q] = call[q]
  BY <1>1, <1>2, <1>4 DEF IInv, TypeOK
<1>7. /\ sendQueue' \in Seq(Buffers) /\ Len(sendQueue') = n + 1 /\ n \in Nat
      /\ \A i \in 1 .. n : sendQueue'[i] = sendQueue[i] /\ sendQueue[i] \in Buffers
      /\ sendQueue'[n + 1] = b
      /\ Len(sendQueue') <= SendQueueSize
  <2>1. sendQueue \in Seq(Buffers) /\ n < SendQueueSize
    BY <1>1 DEF IInv, TypeOK, QueueRoom
  <2>2. /\ sendQueue' \in Seq(Buffers) /\ Len(sendQueue') = n + 1 /\ n \in Nat
        /\ \A i \in 1 .. n : sendQueue'[i] = sendQueue[i] /\ sendQueue'[n + 1] = b
    BY <1>1, <1>2, <2>1, AppendProperties, LenProperties
  <2>3. \A i \in 1 .. n : sendQueue[i] \in Buffers
    BY <2>1, ElementOfSeq
  <2> HIDE DEF n
  <2>4. Len(sendQueue') <= SendQueueSize
    BY <2>1, <2>2, ExchangeConstants
  <2>5. sendQueue'[n + 1] = b
    BY <1>1, <1>2, <2>1, AppendProperties DEF n
  <2> QED
    BY <2>2, <2>3, <2>4, <2>5
<1>8. \A i \in 1 .. Len(writing) : writing[i] \in Buffers
  BY ElementOfSeq DEF IInv, TypeOK
<1>9. OwnInv'
  <2>1. \A q, r \in Writers : buf'[q] # None /\ buf'[q] = buf'[r] => q = r
    BY <1>6 DEF IInv, OwnInv
  <2>2. ASSUME NEW i \in 1 .. Len(sendQueue')
        PROVE  (i \in 1 .. n /\ sendQueue'[i] = sendQueue[i]) \/ (i = n + 1 /\ sendQueue'[i] = b)
    <3> HIDE DEF n
    <3>1. i \in 1 .. n \/ i = n + 1
      BY <1>7
    <3> QED
      BY <1>7, <3>1
  <2>3. ASSUME NEW i \in 1 .. Len(sendQueue'), NEW j \in 1 .. Len(sendQueue'),
               sendQueue'[i] = sendQueue'[j]
        PROVE  i = j
    BY <1>2, <2>2, <2>3 DEF IInv, OwnInv, FreeFor
  <2>4. ASSUME NEW i \in 1 .. Len(writing), NEW j \in 1 .. Len(sendQueue')
        PROVE  writing[i] # sendQueue'[j]
    BY <1>2, <2>2 DEF IInv, OwnInv, FreeFor
  <2>5. ASSUME NEW q \in Writers, NEW i \in 1 .. Len(sendQueue')
        PROVE  buf'[q] # sendQueue'[i]
    <3>1. CASE q = p
      BY <1>2, <1>6, <1>7, <2>2, <3>1, ExchangeConstants
    <3>2. CASE q # p
      BY <1>2, <1>6, <2>2, <3>2 DEF IInv, OwnInv, FreeFor
    <3> QED
      BY <3>1, <3>2
  <2>6. \A q \in Writers, i \in 1 .. Len(writing) : buf'[q] # writing[i]
    BY <1>6, <1>8, ExchangeConstants DEF IInv, OwnInv
  <2>7. ASSUME NEW o \in pool PROVE Unowned(o)'
    <3>1. o \in Buffers /\ o # None /\ o # b /\ Unowned(o)
      BY <1>2, ExchangeConstants DEF IInv, TypeOK, OwnInv
    <3>2. \A q \in Writers : buf'[q] # o
      BY <1>6, <3>1 DEF Unowned
    <3>3. \A i \in 1 .. Len(sendQueue') : sendQueue'[i] # o
      BY <2>2, <3>1 DEF Unowned
    <3> QED
      BY <1>1, <3>1, <3>2, <3>3 DEF Unowned
  <2> QED
    BY <1>1, <2>1, <2>3, <2>4, <2>5, <2>6, <2>7 DEF OwnInv
<1>10. /\ QueueKept
       /\ \A q \in Writers \ {p} : pc[q] \in Working => content'[buf[q]] = content[buf[q]]
  <2> DEFINE X == {b}
  <2>1. \A y \in X : FreeFor(p, y)
    BY <1>2
  <2>2. \A o \in Buffers \ X : content'[o] = content[o]
    BY <1>6
  <2> HIDE DEF X
  <2> QED
    BY <2>1, <2>2, FreeUntouched
<1>11. OthersKept(p)
  BY <1>6, <1>10 DEF OthersKept
<1>12. CallInv(p)'
  BY <1>6 DEF CallInv, CallOK, InCall, Working
<1>13. \A q \in Writers : CallInv(q)'
  BY <1>11, <1>12, CallsKept
<1>14. WireInv'
  <2> DEFINE k == Len(accepted)
             w == Len(wire)
             v == Len(writing)
  <2>1. /\ accepted' \in Seq(Accepted) /\ Len(accepted') = k + 1 /\ accepted'[k + 1] = call[p]
        /\ \A i \in 1 .. k : accepted'[i] = accepted[i]
    BY <1>1, <1>5, AppendProperties DEF IInv, WireInv
  <2>2. /\ k \in Nat /\ w \in Nat /\ v \in Nat /\ w <= k /\ ~closed /\ k = w + v + n /\ n \in Nat
    BY <1>1, LenProperties DEF IInv, WireInv, TypeOK, QueueRoom
  <2>3. /\ \A i \in 1 .. w : wire[i] = FrameOf(accepted[i])
        /\ \A i \in 1 .. v : content'[writing[i]] = FrameOf(accepted[w + i])
        /\ \A i \in 1 .. n : content'[sendQueue[i]] = FrameOf(accepted[w + v + i])
    BY <1>10, <2>2 DEF IInv, WireInv, QueueKept
  <2>4. wire \in Seq({FrameOf(c) : c \in Accepted})
    BY DEF IInv, WireInv
  <2> HIDE DEF k, w, v, n
  <2>5. /\ \A i \in 1 .. w : i \in 1 .. k
        /\ \A i \in 1 .. v : w + i \in 1 .. k
        /\ \A i \in 1 .. n : w + v + i \in 1 .. k
    BY <2>2
  <2>6. /\ \A i \in 1 .. w : wire[i] = FrameOf(accepted'[i])
        /\ \A i \in 1 .. v : content'[writing[i]] = FrameOf(accepted'[w + i])
        /\ \A i \in 1 .. n : content'[sendQueue'[i]] = FrameOf(accepted'[w + v + i])
    BY <1>7, <2>1, <2>3, <2>5
  <2>7. content'[sendQueue'[n + 1]] = FrameOf(accepted'[w + v + (n + 1)])
    <3>1. w + v + (n + 1) = k + 1
      BY <2>2
    <3> QED
      BY <1>6, <1>7, <2>1, <3>1 DEF f
  <2>8. /\ \A i \in 1 .. n + 1 : i \in 1 .. n \/ i = n + 1
        /\ k + 1 = w + v + (n + 1) /\ w <= k + 1
    BY <2>2
  <2>9. \A i \in 1 .. n + 1 : content'[sendQueue'[i]] = FrameOf(accepted'[w + v + i])
    BY <2>6, <2>7, <2>8
  <2>10. wire' = wire /\ writing' = writing /\ Len(sendQueue') = n + 1
    BY <1>1, <1>7
  <2> QED
    BY <2>1, <2>4, <2>6, <2>8, <2>9, <2>10 DEF WireInv, k, w, v
<1>15. ReaderInv'
  BY <1>1, ReaderKept
<1>16. TypeOK'
  BY <1>1, <1>7 DEF IInv, TypeOK
<1> QED
  BY <1>1, <1>9, <1>13, <1>14, <1>15, <1>16 DEF IInv, HintInv
-----------------------------------------------------------------------------
(***************************************************************************)
(* The steps of the writer.                                                *)
(***************************************************************************)
\* What the writer does leaves the calls alone, if it touches no buffer of theirs.
LEMMA CallsUntouched ==
  ASSUME IInv, UNCHANGED <<pc, call, buf>>,
         \A q \in Writers : pc[q] \in Working => content'[buf[q]] = content[buf[q]]
  PROVE  \A q \in Writers : CallInv(q)'
<1> SUFFICES ASSUME NEW q \in Writers PROVE CallInv(q)'
  OBVIOUS
<1>1. CallInv(q)
  BY DEF IInv
<1>2. CASE pc[q] \in Working
  BY <1>1, <1>2 DEF CallInv
<1>3. CASE pc[q] \notin Working
  BY <1>1, <1>3 DEF CallInv, CallOK, Working
<1> QED
  BY <1>2, <1>3

LEMMA TakeFrameStep ==
  ASSUME IInv, takeFrame
  PROVE  IInv'
<1> USE DEF sendVars, bufVars, readVars
<1> DEFINE n == Len(sendQueue)
<1>1. /\ writing = <<>> /\ sendQueue # <<>> /\ writing' = <<Head(sendQueue)>>
      /\ sendQueue' = Tail(sendQueue) /\ sendQueue \in Seq(Buffers)
      /\ UNCHANGED <<sendVars, bufVars, hint, closed, wire, accepted, answered, readVars>>
  BY DEF takeFrame, IInv, TypeOK
<1>2. /\ n \in Nat \ {0} /\ Len(writing) = 0
      /\ sendQueue' \in Seq(Buffers) /\ Len(sendQueue') = n - 1
      /\ \A i \in 1 .. Len(sendQueue') : sendQueue'[i] = sendQueue[i + 1]
  BY <1>1, HeadTailProperties, EmptySeq
<1>3. /\ Head(sendQueue) = sendQueue[1] /\ sendQueue[1] \in Buffers
      /\ Len(writing') = 1 /\ writing'[1] = sendQueue[1] /\ writing' \in Seq(Buffers)
  <2>1. Head(sendQueue) = sendQueue[1]
    BY <1>1
  <2>2. 1 \in 1 .. Len(sendQueue)
    BY <1>2
  <2>3. sendQueue[1] \in Buffers
    BY <1>1, <2>2, ElementOfSeq
  <2> QED
    BY <1>1, <2>1, <2>3
<1> HIDE DEF n
<1>4. /\ 1 \in 1 .. n
      /\ \A i \in 1 .. n - 1 : i + 1 \in 1 .. n /\ i + 1 # 1
      /\ \A i, j \in 1 .. n - 1 : i + 1 = j + 1 => i = j
  BY <1>2
<1>5. \A i \in 1 .. Len(writing') : i = 1
  BY <1>3
<1>6. OwnInv'
  <2>1. /\ \A i, j \in 1 .. n : sendQueue[i] = sendQueue[j] => i = j
        /\ \A q \in Writers, i \in 1 .. n : buf[q] # sendQueue[i]
        /\ \A o \in pool : Unowned(o)
        /\ \A q, r \in Writers : buf[q] # None /\ buf[q] = buf[r] => q = r
    BY DEF IInv, OwnInv, n
  <2>2. \A i, j \in 1 .. Len(sendQueue') : sendQueue'[i] = sendQueue'[j] => i = j
    BY <1>2, <1>4, <2>1
  <2>3. \A i \in 1 .. Len(writing'), j \in 1 .. Len(sendQueue') : writing'[i] # sendQueue'[j]
    <3>1. ASSUME NEW j \in 1 .. n - 1 PROVE sendQueue[1] # sendQueue[j + 1]
      BY <1>4, <2>1
    <3>2. \A j \in 1 .. Len(sendQueue') : writing'[1] # sendQueue'[j]
      BY <1>2, <1>3, <3>1
    <3> QED
      BY <1>5, <3>2
  <2>4. /\ \A q \in Writers, i \in 1 .. Len(sendQueue') : buf'[q] # sendQueue'[i]
        /\ \A q \in Writers, i \in 1 .. Len(writing') : buf'[q] # writing'[i]
    BY <1>1, <1>2, <1>3, <1>4, <1>5, <2>1
  <2>5. ASSUME NEW o \in pool PROVE Unowned(o)'
    <3>1. \A i \in 1 .. n : sendQueue[i] # o
      BY <2>1 DEF Unowned, n
    <3>2. \A q \in Writers : buf[q] # o
      BY <2>1 DEF Unowned
    <3> QED
      BY <1>1, <1>2, <1>3, <1>4, <1>5, <3>1, <3>2 DEF Unowned
  <2> QED
    BY <1>1, <2>1, <2>2, <2>3, <2>4, <2>5 DEF OwnInv
<1>7. \A q \in Writers : CallInv(q)'
  BY <1>1, CallsUntouched
<1>8. WireInv'
  <2> DEFINE w == Len(wire)
  <2>1. w \in Nat
    BY LenProperties DEF IInv, WireInv
  <2>2. ~closed => /\ Len(accepted) = w + n
                   /\ \A i \in 1 .. n : content[sendQueue[i]] = FrameOf(accepted[w + i])
    BY <1>2, <2>1 DEF IInv, WireInv, n
  <2> HIDE DEF w
  <2>3. /\ w + n = w + 1 + (n - 1)
        /\ \A i \in 1 .. n - 1 : w + 1 + i = w + (i + 1)
    BY <1>2, <2>1
  <2>4. ~closed => content[writing'[1]] = FrameOf(accepted[w + 1])
    BY <1>3, <1>4, <2>2
  <2>5. ASSUME NEW i \in 1 .. Len(sendQueue'), ~closed
        PROVE  content[sendQueue'[i]] = FrameOf(accepted[w + 1 + i])
    BY <1>2, <1>4, <2>2, <2>3, <2>5
  <2>6. ~closed => Len(accepted) = w + Len(writing') + Len(sendQueue')
    BY <1>2, <1>3, <2>2, <2>3
  <2>7. ~closed => \A i \in 1 .. Len(writing') : content[writing'[i]] = FrameOf(accepted[w + i])
    BY <1>5, <2>4
  <2> QED
    BY <1>1, <1>3, <2>5, <2>6, <2>7 DEF IInv, WireInv, w
<1>9. TypeOK'
  <2>1. Len(sendQueue') <= SendQueueSize
    <3>1. n <= SendQueueSize
      BY DEF IInv, TypeOK, n
    <3> QED
      BY <1>2, <3>1, ExchangeConstants
  <2> QED
    BY <1>1, <1>2, <1>3, <2>1 DEF IInv, TypeOK
<1> QED
  BY <1>1, <1>6, <1>7, <1>8, <1>9 DEF IInv, HintInv, ReaderInv

LEMMA WriteStep ==
  ASSUME IInv, writeQueuedFrame
  PROVE  IInv'
<1> USE DEF sendVars, readVars
<1> DEFINE b == writing[1]
           w == Len(wire)
           n == Len(sendQueue)
<1>1. /\ writing # <<>> /\ writing' = <<>>
      /\ pool' = pool \cup {b}
      /\ content' = [o \in Buffers |-> IF o \in {b} THEN <<>> ELSE content[o]]
      /\ UNCHANGED <<sendVars, hint, sendQueue, accepted, answered, readVars>>
  BY DEF writeQueuedFrame, putFrameBuffers
<1>2. \/ ~closed /\ wire' = Append(wire, content[b]) /\ closed' = closed
      \/ closed' = TRUE /\ wire' = wire
  BY DEF writeQueuedFrame
<1>3. /\ writing \in Seq(Buffers) /\ Len(writing) = 1 /\ b \in Buffers /\ b # None
      /\ 1 \in 1 .. Len(writing)
  <2>1. writing \in Seq(Buffers) /\ Len(writing) \in Nat \ {0} /\ Len(writing) <= 1
    BY <1>1, EmptySeq DEF IInv, TypeOK
  <2>2. 1 \in 1 .. Len(writing)
    BY <2>1
  <2>3. b \in Buffers
    BY <2>1, <2>2, ElementOfSeq
  <2>4. Len(writing) = 1
    <3>1. \A k \in Nat \ {0} : k <= 1 => k = 1
      OBVIOUS
    <3> QED
      BY <2>1, <3>1, Zenon
  <2>5. b # None
    BY <2>3, ExchangeConstants
  <2> QED
    BY <2>1, <2>2, <2>3, <2>4, <2>5
<1>4. Len(writing') = 0 /\ writing' \in Seq(Buffers)
  BY <1>1, EmptySeq
<1>5. /\ \A i \in 1 .. Len(sendQueue) : sendQueue[i] # b /\ sendQueue[i] \in Buffers
      /\ \A q \in Writers : buf[q] # b
  BY <1>3, ElementOfSeq DEF IInv, TypeOK, OwnInv
<1> HIDE DEF b
<1>6. /\ \A i \in 1 .. Len(sendQueue) : content'[sendQueue[i]] = content[sendQueue[i]]
      /\ \A q \in Writers : pc[q] \in Working => content'[buf[q]] = content[buf[q]]
  BY <1>1, <1>5, OwnFree
<1>7. OwnInv'
  <2>1. \A o \in pool' : Unowned(o)'
    BY <1>1, <1>4, <1>5 DEF IInv, OwnInv, Unowned
  <2> QED
    BY <1>1, <1>4, <2>1 DEF IInv, OwnInv
<1>8. \A q \in Writers : CallInv(q)'
  BY <1>1, <1>6, CallsUntouched
<1>9. WireInv'
  <2>1. /\ w \in Nat /\ n \in Nat /\ wire \in Seq({FrameOf(c) : c \in Accepted})
        /\ accepted \in Seq(Accepted) /\ Len(accepted) \in Nat /\ w <= Len(accepted)
        /\ \A i \in 1 .. w : wire[i] = FrameOf(accepted[i])
    BY LenProperties DEF IInv, WireInv, TypeOK
  <2>2. CASE closed' = TRUE /\ wire' = wire
    BY <1>1, <2>1, <2>2 DEF WireInv
  <2>3. CASE ~closed /\ wire' = Append(wire, content[b]) /\ closed' = closed
    <3>1. /\ Len(accepted) = w + 1 + n /\ content[b] = FrameOf(accepted[w + 1])
          /\ \A i \in 1 .. n : content[sendQueue[i]] = FrameOf(accepted[w + 1 + i])
      BY <1>3, <2>3 DEF IInv, WireInv, b
    <3>2. accepted[w + 1] \in Accepted
      <4>1. w + 1 \in 1 .. Len(accepted)
        BY <2>1, <3>1
      <4> QED
        BY <2>1, <4>1, ElementOfSeq
    <3>3. content[b] \in {FrameOf(c) : c \in Accepted}
      BY <3>1, <3>2
    <3>4. /\ wire' \in Seq({FrameOf(c) : c \in Accepted}) /\ Len(wire') = w + 1
          /\ \A i \in 1 .. w : wire'[i] = wire[i]
          /\ wire'[w + 1] = content[b]
      BY <2>1, <2>3, <3>3, AppendProperties
    <3> HIDE DEF w, n
    <3>5. /\ \A i \in 1 .. w + 1 : i \in 1 .. w \/ i = w + 1
          /\ w + 1 <= Len(accepted) /\ w + 1 + 0 + n = w + 1 + n
          /\ \A i \in 1 .. n : w + 1 + 0 + i = w + 1 + i
      BY <2>1, <3>1
    <3>6. \A i \in 1 .. w + 1 : wire'[i] = FrameOf(accepted[i])
      BY <2>1, <3>1, <3>4, <3>5
    <3>7. ASSUME NEW i \in 1 .. n
          PROVE  content'[sendQueue[i]] = FrameOf(accepted[w + 1 + 0 + i])
      BY <1>6, <3>1, <3>5 DEF n
    <3>8. /\ \A i \in 1 .. 0 : content'[writing'[i]] = FrameOf(accepted[w + 1 + i])
          /\ n = Len(sendQueue)
      BY DEF n
    <3> QED
      BY <1>1, <1>4, <2>1, <3>1, <3>4, <3>5, <3>6, <3>7, <3>8 DEF WireInv
  <2> QED
    BY <1>2, <2>2, <2>3
<1>10. TypeOK'
  <2>1. closed' \in BOOLEAN
    BY <1>2 DEF IInv, TypeOK
  <2> QED
    BY <1>1, <1>3, <1>4, <2>1 DEF IInv, TypeOK
<1> QED
  BY <1>1, <1>7, <1>8, <1>9, <1>10 DEF IInv, HintInv, ReaderInv

LEMMA DiscardQueueStep ==
  ASSUME IInv, discardQueuedFrames
  PROVE  IInv'
<1> USE DEF sendVars, readVars
<1> DEFINE bs == Range(sendQueue)
<1>1. /\ closed /\ writing = <<>> /\ sendQueue' = <<>>
      /\ pool' = pool \cup bs
      /\ content' = [o \in Buffers |-> IF o \in bs THEN <<>> ELSE content[o]]
      /\ UNCHANGED <<sendVars, hint, writing, closed, wire, accepted, answered, readVars>>
  BY DEF discardQueuedFrames, putFrameBuffers
<1>2. bs = {sendQueue[i] : i \in 1 .. Len(sendQueue)} /\ bs \subseteq Buffers
  BY RangeEquality, RangeOfSeq DEF IInv, TypeOK
<1> HIDE DEF bs
<1>3. /\ sendQueue' \in Seq(Buffers) /\ Len(sendQueue') = 0 /\ Len(writing) = 0
  BY <1>1, EmptySeq
<1>4. \A q \in Writers : buf[q] \notin bs
  BY <1>2 DEF IInv, OwnInv
<1>5. \A q \in Writers : pc[q] \in Working => content'[buf[q]] = content[buf[q]]
  BY <1>1, <1>4, OwnFree
<1>6. OwnInv'
  <2>1. \A o \in pool' : Unowned(o)'
    BY <1>1, <1>3, <1>4 DEF IInv, OwnInv, Unowned
  <2> QED
    BY <1>1, <1>3, <2>1 DEF IInv, OwnInv
<1>7. \A q \in Writers : CallInv(q)'
  BY <1>1, <1>5, CallsUntouched
<1>8. WireInv'
  BY <1>1 DEF IInv, WireInv
<1>9. TypeOK'
  <2>1. Len(sendQueue') <= SendQueueSize
    BY <1>3, ExchangeConstants
  <2> QED
    BY <1>1, <1>2, <1>3, <2>1 DEF IInv, TypeOK
<1> QED
  BY <1>1, <1>6, <1>7, <1>8, <1>9 DEF IInv, HintInv, ReaderInv
-----------------------------------------------------------------------------
(***************************************************************************)
(* The steps of the read loop, and of the application.                     *)
(***************************************************************************)
LEMMA SendStarts ==
  ASSUME IInv, NEW p \in Senders, send(p)
  PROVE  IInv'
<1> USE DEF readVars
<1>1. PICK c \in Calls : Call(p, c)
  BY DEF send
<1>2. pc[p] = "idle" /\ UNCHANGED <<bufVars, hint, outVars, readVars>>
  BY DEF send
<1>3. WellFormed(c) /\ p \in Writers /\ p # Reader
  BY ExchangeConstants DEF Writers
<1>4. reading' \in {"greet", "read", "dispatch", "calling", "stopped"} /\ reads' \in 0 .. MaxReads
  BY <1>2 DEF IInv, TypeOK
<1>5. TypeOK' /\ OwnInv' /\ (\A q \in Writers : CallInv(q)') /\ WireInv' /\ HintInv'
  BY <1>1, <1>2, <1>3, <1>4, CallStep
<1>6. ReaderInv'
  <2>1. pc'[Reader] = pc[Reader]
    BY <1>1, <1>3 DEF Call, IInv, TypeOK, Writers
  <2> QED
    BY <1>2, <2>1 DEF IInv, ReaderInv
<1> QED
  BY <1>5, <1>6 DEF IInv

\* The read loop makes a call.
LEMMA ReaderCalls ==
  ASSUME IInv, NEW c, Call(Reader, c), WellFormed(c), pc[Reader] = "idle",
         UNCHANGED <<bufVars, hint, outVars>>,
         reading' \in {"greet", "calling"}, reads' \in 0 .. MaxReads
  PROVE  IInv'
<1>1. Reader \in Writers
  BY DEF Writers
<1>2. TypeOK' /\ OwnInv' /\ (\A q \in Writers : CallInv(q)') /\ WireInv' /\ HintInv'
  BY <1>1, CallStep
<1> QED
  BY <1>2 DEF IInv, ReaderInv

LEMMA ConnectedStep ==
  ASSUME IInv, sendConnected
  PROVE  IInv'
<1>1. WellFormed(Greeting)
  BY ExchangeConstants
<1>2. /\ Call(Reader, Greeting) /\ pc[Reader] = "idle" /\ UNCHANGED <<bufVars, hint, outVars>>
      /\ reading' = "greet" /\ reads' = reads
  BY DEF sendConnected
<1>3. reads' \in 0 .. MaxReads
  BY <1>2 DEF IInv, TypeOK
<1> QED
  BY <1>1, <1>2, <1>3, ReaderCalls

\* The read loop moves on, and the connection may close.
LEMMA ReaderMoves ==
  ASSUME IInv, UNCHANGED <<call, buf, room, loaded, bufVars, hint, sendQueue, writing, wire, accepted>>,
         pc' = pc \/ (pc[Reader] \in {"sent", "failed"} /\ pc' = [pc EXCEPT ![Reader] = "idle"]),
         closed' = closed \/ closed' = TRUE,
         reading' \in {"greet", "read", "dispatch", "calling", "stopped"}, reads' \in 0 .. MaxReads
  PROVE  TypeOK' /\ OwnInv' /\ (\A q \in Writers : CallInv(q)') /\ WireInv' /\ HintInv'
<1> USE DEF bufVars
<1>1. Reader \in Writers
  BY DEF Writers
<1>2. closed' \in BOOLEAN
  BY DEF IInv, TypeOK
<1>3. TypeOK'
  BY <1>1, <1>2 DEF IInv, TypeOK
<1>4. OwnInv'
  BY OwnersKept DEF IInv
<1>5. WireInv'
  BY WireKept DEF IInv, QueueKept
<1>6. \A q \in Writers : CallInv(q)'
  <2>1. CASE pc' = pc
    BY <2>1, CallsUntouched
  <2>2. CASE pc' = [pc EXCEPT ![Reader] = "idle"]
    <3>1. pc'[Reader] = "idle" /\ \A q \in Writers \ {Reader} : pc'[q] = pc[q]
      BY <1>1, <2>2 DEF IInv, TypeOK
    <3>2. CallInv(Reader)'
      BY <3>1 DEF CallInv, CallOK, InCall, Working
    <3>3. OthersKept(Reader)
      BY <3>1 DEF OthersKept
    <3> QED
      BY <3>2, <3>3, CallsKept
  <2> QED
    BY <2>1, <2>2
<1> QED
  BY <1>3, <1>4, <1>5, <1>6 DEF IInv, HintInv

LEMMA ReturnsStep ==
  ASSUME IInv, callReturns
  PROVE  IInv'
<1>1. /\ pc[Reader] \in {"sent", "failed"} /\ pc' = [pc EXCEPT ![Reader] = "idle"]
      /\ reading' \in {"read", "stopped"} /\ (closed' = closed \/ closed' = TRUE)
      /\ UNCHANGED <<call, buf, room, loaded, bufVars, hint, sendQueue, writing, wire, accepted, reads>>
  BY DEF callReturns, At
<1>2. reads' \in 0 .. MaxReads
  BY <1>1 DEF IInv, TypeOK
<1>3. TypeOK' /\ OwnInv' /\ (\A q \in Writers : CallInv(q)') /\ WireInv' /\ HintInv'
  BY <1>1, <1>2, ReaderMoves
<1>4. pc'[Reader] = "idle"
  BY <1>1 DEF IInv, TypeOK, Writers
<1> QED
  BY <1>1, <1>3, <1>4 DEF IInv, ReaderInv

LEMMA ReadFailsStep ==
  ASSUME IInv, readFails
  PROVE  IInv'
<1>1. /\ reading = "read" /\ reading' = "stopped" /\ closed' = TRUE
      /\ UNCHANGED <<pc, call, buf, room, loaded, bufVars, hint, sendQueue, writing, wire, accepted, reads>>
  BY DEF readFails, Stop, At, sendVars
<1>2. reads' \in 0 .. MaxReads
  BY <1>1 DEF IInv, TypeOK
<1>3. TypeOK' /\ OwnInv' /\ (\A q \in Writers : CallInv(q)') /\ WireInv' /\ HintInv'
  BY <1>1, <1>2, ReaderMoves
<1> QED
  BY <1>1, <1>3 DEF IInv, ReaderInv

LEMMA DispatchStep ==
  ASSUME IInv, dispatchMessage
  PROVE  IInv'
<1>1. /\ reading = "dispatch" /\ reading' \in {"read", "stopped"} /\ (closed' = closed \/ closed' = TRUE)
      /\ UNCHANGED <<pc, call, buf, room, loaded, bufVars, hint, sendQueue, writing, wire, accepted, reads>>
  BY DEF dispatchMessage, Stop, At, sendVars
<1>2. reads' \in 0 .. MaxReads
  BY <1>1 DEF IInv, TypeOK
<1>3. TypeOK' /\ OwnInv' /\ (\A q \in Writers : CallInv(q)') /\ WireInv' /\ HintInv'
  BY <1>1, <1>2, ReaderMoves
<1> QED
  BY <1>1, <1>3 DEF IInv, ReaderInv

LEMMA ClosesStep ==
  ASSUME IInv, closeContext
  PROVE  IInv'
<1>1. /\ closed' = TRUE /\ UNCHANGED <<reading, message>>
      /\ UNCHANGED <<pc, call, buf, room, loaded, bufVars, hint, sendQueue, writing, wire, accepted, reads>>
  BY DEF closeContext, sendVars, readVars
<1>2. /\ reads' \in 0 .. MaxReads
      /\ reading' \in {"greet", "read", "dispatch", "calling", "stopped"}
  BY <1>1 DEF IInv, TypeOK
<1>3. TypeOK' /\ OwnInv' /\ (\A q \in Writers : CallInv(q)') /\ WireInv' /\ HintInv'
  BY <1>1, <1>2, ReaderMoves
<1> QED
  BY <1>1, <1>3 DEF IInv, ReaderInv

\* The answers of the read loop are calls the API allows.
LEMMA AnswersWellFormed ==
  /\ WellFormed(Reply(TRUE, FrameKindPong, <<>>, Nil))
  /\ \A id \in Seq(Nat) :
       /\ WellFormed(Reply(TRUE, FrameKindError, id, ErrorText))
       /\ \A res \in Results : WellFormed(Reply(FALSE, FrameKindCompletion, id, res))
<1>1. <<>> \in Seq(Nat)
  BY EmptySeq
<1>2. /\ ErrorText \in Bodies /\ ErrorText # Unsupported /\ Results \subseteq Bodies
      /\ Nil \in Bodies /\ Nil # Unsupported
  BY ExchangeConstants DEF Bodies
<1> USE DEF WellFormed, Reply, isControlFrameKind, FrameKinds, FrameKindMessage, FrameKindPing,
            FrameKindPong, FrameKindError, FrameKindCompletion
<1>3. WellFormed(Reply(TRUE, FrameKindPong, <<>>, Nil))
  BY <1>1, <1>2
<1>4. ASSUME NEW id \in Seq(Nat)
      PROVE  WellFormed(Reply(TRUE, FrameKindError, id, ErrorText))
  BY <1>1, <1>2
<1>5. ASSUME NEW id \in Seq(Nat), NEW res \in Results
      PROVE  WellFormed(Reply(FALSE, FrameKindCompletion, id, res))
  BY <1>1, <1>2
<1> QED
  BY <1>3, <1>4, <1>5

LEMMA InvokeStep ==
  ASSUME IInv, dispatchInvoke
  PROVE  IInv'
<1>1. /\ reading = "dispatch" /\ reading' = "calling" /\ UNCHANGED <<bufVars, hint, outVars, reads>>
      /\ \E c : Call(Reader, c) /\ WellFormed(c)
  <2>1. message.id \in Seq(Nat)
    BY DEF dispatchInvoke, IInv, ReaderInv
  <2> QED
    BY <2>1, AnswersWellFormed DEF dispatchInvoke, answerFailure, Answer, At
<1>2. pc[Reader] = "idle" /\ reads' \in 0 .. MaxReads
  BY <1>1 DEF IInv, ReaderInv, TypeOK
<1> QED
  BY <1>1, <1>2, ReaderCalls

LEMMA ReadsStep ==
  ASSUME IInv, readFrame
  PROVE  IInv'
<1> USE DEF sendVars, outVars
<1>1. /\ reading = "read" /\ reads < MaxReads /\ reads' = reads + 1
      /\ UNCHANGED <<bufVars, hint, outVars, invoked>>
  BY DEF readFrame
<1>2. pc[Reader] = "idle" /\ reads' \in 0 .. MaxReads
  BY <1>1, ExchangeConstants DEF IInv, ReaderInv, TypeOK
<1>3. PICK f \in PeerFrames :
        /\ Decodes(f, Codec)
        /\ \/ /\ Answer(Reply(TRUE, FrameKindPong, <<>>, Nil)) /\ UNCHANGED message
           \/ UNCHANGED <<sendVars, reading, message>>
           \/ At("dispatch") /\ message' = decodeFrame(f) /\ UNCHANGED sendVars
  BY DEF readFrame
<1>4. CASE Answer(Reply(TRUE, FrameKindPong, <<>>, Nil))
  <2>1. reading' = "calling" /\ Call(Reader, Reply(TRUE, FrameKindPong, <<>>, Nil))
    BY <1>4 DEF Answer, At
  <2> QED
    BY <1>1, <1>2, <2>1, AnswersWellFormed, ReaderCalls
<1>5. CASE UNCHANGED <<sendVars, reading, message>>
  <2>1. reading' \in {"greet", "read", "dispatch", "calling", "stopped"}
    BY <1>1, <1>5
  <2>2. TypeOK' /\ OwnInv' /\ (\A q \in Writers : CallInv(q)') /\ WireInv' /\ HintInv'
    BY <1>1, <1>2, <1>5, <2>1, ReaderMoves
  <2> QED
    BY <1>5, <2>2 DEF IInv, ReaderInv
<1>6. CASE At("dispatch") /\ message' = decodeFrame(f) /\ UNCHANGED sendVars
  <2>1. reading' = "dispatch"
    BY <1>6 DEF At
  <2>2. TypeOK' /\ OwnInv' /\ (\A q \in Writers : CallInv(q)') /\ WireInv' /\ HintInv'
    BY <1>1, <1>2, <1>6, <2>1, ReaderMoves
  <2>3. message'.id = InvocationID(f)
    BY <1>6 DEF decodeFrame
  <2>4. InvocationID(f) \in Seq(Nat)
    BY <1>3, ExchangeConstants, DecodedParts DEF Cells
  <2> QED
    BY <1>2, <1>6, <2>1, <2>2, <2>3, <2>4 DEF IInv, ReaderInv
<1> QED
  BY <1>3, <1>4, <1>5, <1>6

LEMMA NextIInv ==
  ASSUME IInv, [Next]_vars
  PROVE  IInv'
<1>1. ASSUME NEW p \in Senders, send(p) PROVE IInv'
  BY <1>1, SendStarts
<1>2. ASSUME NEW p \in Writers, SendStep(p) PROVE IInv'
  BY <1>2, RefuseStep, RawStep, EncodedStep, MarshalFailsStep, MarshalStep, LoadStep, SwapStep,
     EnqueueStep, EnqueueFailsStep DEF SendStep
<1>3. ASSUME takeFrame \/ writeQueuedFrame \/ discardQueuedFrames PROVE IInv'
  BY <1>3, TakeFrameStep, WriteStep, DiscardQueueStep
<1>4. ASSUME ReadStep \/ closeContext PROVE IInv'
  BY <1>4, ConnectedStep, ReturnsStep, ReadFailsStep, ReadsStep, InvokeStep, DispatchStep, ClosesStep
     DEF ReadStep
<1>5. ASSUME UNCHANGED vars PROVE IInv'
  <2> USE DEF vars, sendVars, bufVars, outVars, readVars
  <2>1. TypeOK' /\ OwnInv'
    BY <1>5 DEF IInv, TypeOK, OwnInv, Unowned
  <2>2. \A p \in Writers : CallInv(p)'
    BY <1>5 DEF IInv, CallInv
  <2>3. WireInv' /\ HintInv' /\ ReaderInv'
    BY <1>5 DEF IInv, WireInv, HintInv, ReaderInv
  <2> QED
    BY <2>1, <2>2, <2>3 DEF IInv
<1> QED
  BY <1>1, <1>2, <1>3, <1>4, <1>5 DEF Next
-----------------------------------------------------------------------------
(***************************************************************************)
(* Theorems.                                                               *)
(***************************************************************************)
\* The invariant holds throughout.
THEOREM Invariance == Spec => []IInv
<1>1. Init => IInv
  BY InitIInv
<1>2. IInv /\ [Next]_vars => IInv'
  BY NextIInv
<1> QED
  BY <1>1, <1>2, PTL DEF Spec

\* The variables of a connection that frames, queues and reads keep their types, and the
\* queue its limit.
THEOREM ExchangeTypes == Spec => []TypeOK
<1>1. IInv => TypeOK
  BY DEF IInv
<1> QED
  BY <1>1, Invariance, PTL

\* Whatever call fails or outgrows its buffer, and whatever the writer discards, no frame
\* buffer is in two hands (putFrameBuffer, sameFrameBuffer).
THEOREM BuffersHaveOneOwner == Spec => []BuffersOwnedOnce
<1>1. IInv => BuffersOwnedOnce
  BY OwnedOnce DEF IInv
<1> QED
  BY <1>1, Invariance, PTL

\* The frames writeLoop writes decode, in order, to the calls enqueueFrame accepted.
THEOREM WireIsWhatWasSent == Spec => []WireFaithful
<1>1. IInv => WireFaithful
  BY WireIsFaithful DEF IInv
<1> QED
  BY <1>1, Invariance, PTL

\* Only CompareAndSwap changes the hint, from the value that was loaded.
LEMMA HintSwaps ==
  ASSUME Next, hint' # hint
  PROVE  \E p \in Writers : /\ pc[p] = "swap" /\ MaySwap(p)
                            /\ hint' = NextHint(loaded[p], Sample(p))
                            /\ pc' = [pc EXCEPT ![p] = "enqueue"]
<1>1. ASSUME NEW p \in Writers, SendStep(p) PROVE observeSwap(p)
  BY <1>1 DEF SendStep, refuse, writeRawProtocolFrame, writeEncodedProtocolFrame, marshalFails,
     marshalAppend, observeLoad, enqueueFrame, enqueueFails
<1>2. \A p \in Senders : ~send(p)
  BY DEF send
<1>3. ~takeFrame /\ ~writeQueuedFrame /\ ~discardQueuedFrames /\ ~closeContext
  BY DEF takeFrame, writeQueuedFrame, discardQueuedFrames, closeContext
<1>4. ~ReadStep
  BY DEF ReadStep, sendConnected, callReturns, readFails, readFrame, dispatchInvoke, dispatchMessage
<1>5. PICK p \in Writers : observeSwap(p)
  BY <1>1, <1>2, <1>3, <1>4 DEF Next
<1> QED
  BY <1>5 DEF observeSwap

\* observeEncodedPayloadSize, whatever calls observe at the same time: the hint is never
\* lower than what was just observed, and falls by one decay step at most.
THEOREM HintDecaysGradually == Spec => HintDecays
<1> DEFINE d == defaultEncodedPayloadSizeHint
           Decay ==
             hint' # hint =>
               /\ hint' >= d
               /\ hint' <= Larger(maxPayloadSize, d)
               /\ hint > d => hint' >= hint - (hint - d) \div encodedPayloadDecayDivisor
               /\ \A p \in Writers : pc[p] = "swap" /\ pc'[p] = "enqueue" => hint' >= Sample(p)
<1>1. IInv /\ [Next]_vars => [Decay]_vars
  <2> SUFFICES ASSUME IInv, Next, hint' # hint
               PROVE  /\ hint' >= d
                      /\ hint' <= Larger(maxPayloadSize, d)
                      /\ hint > d => hint' >= hint - (hint - d) \div encodedPayloadDecayDivisor
                      /\ \A p \in Writers : pc[p] = "swap" /\ pc'[p] = "enqueue" => hint' >= Sample(p)
    BY DEF vars
  <2>1. PICK p \in Writers : /\ pc[p] = "swap" /\ MaySwap(p)
                             /\ hint' = NextHint(loaded[p], Sample(p))
                             /\ pc' = [pc EXCEPT ![p] = "enqueue"]
    BY HintSwaps
  <2>2. /\ Sample(p) \in Nat /\ d <= Sample(p) /\ Sample(p) <= HintBound
    BY <2>1, SampleBounds DEF IInv, CallInv, CallOK, InCall, Working
  <2>3. hint' = NextHint(hint, Sample(p)) /\ hint \in Nat
    BY <2>1 DEF MaySwap, IInv, TypeOK
  <2>4. /\ hint' \in Nat /\ Sample(p) <= hint' /\ hint' <= HintBound
        /\ hint > d => hint' >= hint - (hint - d) \div encodedPayloadDecayDivisor
    BY <2>2, <2>3, HintStep DEF IInv, HintInv
  <2>5. hint' >= d
    BY <2>2, <2>4, ExchangeConstants
  <2>6. ASSUME NEW q \in Writers, pc[q] = "swap", pc'[q] = "enqueue"
        PROVE  hint' >= Sample(q)
    <3>1. q = p
      BY <2>1, <2>6 DEF IInv, TypeOK
    <3> QED
      BY <2>2, <2>4, <3>1
  <2> QED
    BY <2>4, <2>5, <2>6 DEF HintBound
<1> QED
  BY <1>1, Invariance, PTL DEF Spec, HintDecays
-----------------------------------------------------------------------------
(***************************************************************************)
(* Greeting and answers, if the application leaves answering to the read   *)
(* loop.                                                                   *)
(***************************************************************************)
RInv == GreetInv /\ AnswerInv

LEMMA GreetingIsNoAnswer ==
  /\ Greeting.kind \notin {FrameKindCompletion, FrameKindError, FrameKindPong}
  /\ Greeting.kind \notin Answers
  BY ExchangeConstants DEF Answers, FrameKindMessage, FrameKindCompletion, FrameKindError,
     FrameKindPong

LEMMA InitRInv ==
  ASSUME Init
  PROVE  RInv
<1> USE DEF Init, newConnection
<1>1. Len(<<>>) = 0 /\ <<>> \in Seq(Seq(Nat)) /\ DOMAIN <<>> = {}
  BY EmptySeq
<1>2. pc[Reader] = "idle" /\ \A p \in Senders : pc[p] = "idle"
  BY DEF Writers
<1>3. GreetInv
  BY <1>1, <1>2 DEF GreetInv, GreetedBeforeAnswers, InCall, Working
<1>4. AnswerInv
  BY <1>1, <1>2 DEF AnswerInv, InCall, Working
<1> QED
  BY <1>3, <1>4 DEF RInv

\* A step of p within its call, or to its failure.
LEMMA WithinCall ==
  ASSUME IInv, RInv, NEW p \in Writers, pc[p] \in InCall, NEW x, pc' = [pc EXCEPT ![p] = x],
         \/ x \in InCall /\ call' = call
         \/ x = "failed" /\ call' = [call EXCEPT ![p] = NoCall],
         UNCHANGED <<accepted, answered, reading, invoked>>
  PROVE  RInv'
<1>1. /\ pc'[p] = x /\ x # "sent"
      /\ x \in InCall => call'[p] = call[p]
      /\ \A q \in Writers \ {p} : pc'[q] = pc[q] /\ call'[q] = call[q]
  BY DEF IInv, TypeOK, InCall, Working
<1>2. Reader \in Writers /\ Senders \subseteq Writers
  BY DEF Writers
<1>3. /\ pc'[Reader] = "sent" => pc[Reader] = "sent"
      /\ pc'[Reader] \in InCall => pc[Reader] \in InCall /\ call'[Reader] = call[Reader]
      /\ \A q \in Senders : pc'[q] \in InCall => pc[q] \in InCall /\ call'[q] = call[q]
  BY <1>1, <1>2
<1>4. GreetInv'
  BY <1>3 DEF RInv, GreetInv, Greeted, GreetedBeforeAnswers
<1>5. AnswerInv'
  BY <1>3 DEF RInv, AnswerInv
<1> QED
  BY <1>4, <1>5 DEF RInv

LEMMA EnqueueAnswers ==
  ASSUME ReaderAnswers, IInv, RInv, NEW p \in Writers, enqueueFrame(p)
  PROVE  RInv'
<1> DEFINE c == call[p]
           k == Len(accepted)
<1>1. /\ pc[p] = "enqueue" /\ accepted' = Append(accepted, c)
      /\ answered' = IF c.kind \in Answers THEN Append(answered, c.id) ELSE answered
      /\ pc' = [pc EXCEPT ![p] = "sent"] /\ call' = [call EXCEPT ![p] = NoCall]
      /\ UNCHANGED <<reading, invoked>>
  BY DEF enqueueFrame, Return, readVars, Answers
<1>2. /\ pc[p] \in InCall /\ pc'[p] = "sent"
      /\ \A q \in Writers \ {p} : pc'[q] = pc[q] /\ call'[q] = call[q]
  BY <1>1 DEF IInv, TypeOK, InCall, Working
<1>3. WellFormed(c) /\ c \in Accepted /\ c.id \in Seq(Nat)
  <2>1. WellFormed(c) /\ ~Rejected(c) /\ Encodes(c)
    BY <1>1 DEF IInv, CallInv, CallOK, InCall, Working
  <2> QED
    BY <2>1, CallParts DEF Accepted
<1>4. /\ accepted \in Seq(Accepted) /\ k \in Nat
      /\ Len(accepted') = k + 1 /\ accepted'[k + 1] = c /\ DOMAIN accepted' = 1 .. k + 1
      /\ \A i \in 1 .. k : accepted'[i] = accepted[i]
      /\ DOMAIN accepted = 1 .. k
  <2>1. accepted \in Seq(Accepted)
    BY DEF IInv, WireInv
  <2>2. /\ accepted' \in Seq(Accepted) /\ Len(accepted') = k + 1 /\ accepted'[k + 1] = c
        /\ \A i \in 1 .. k : accepted'[i] = accepted[i]
    BY <1>1, <1>3, <2>1, AppendProperties
  <2> QED
    BY <2>1, <2>2, LenProperties
<1>5. Reader \in Writers /\ Senders \subseteq Writers /\ Reader \notin Senders
  BY ExchangeConstants DEF Writers
<1>6. p \in Senders => c \in Calls
  BY <1>2 DEF RInv, GreetInv
<1> HIDE DEF c, k
<1>7. \A i \in 1 .. k : i \in 1 .. k + 1
  BY <1>4
<1>8. Greeted => Greeted'
  BY <1>4, <1>7 DEF Greeted, k
<1>9. p = Reader /\ reading = "greet" => c = Greeting
  BY <1>2 DEF RInv, GreetInv, c
<1>10. c = Greeting => Greeted'
  <2>1. k + 1 \in 1 .. k + 1
    BY <1>4
  <2> QED
    BY <1>4, <2>1 DEF Greeted
<1>11. reading \in {"read", "dispatch", "stopped"} => p # Reader
  BY <1>1 DEF IInv, ReaderInv
<1>12. ASSUME c.kind \in {FrameKindCompletion, FrameKindError, FrameKindPong}
       PROVE  p = Reader /\ reading = "calling" /\ Greeted
  <2>1. p = Reader
    BY <1>5, <1>6, <1>12 DEF ReaderAnswers, Writers
  <2>2. reading # "greet"
    BY <1>9, <1>12, <2>1, GreetingIsNoAnswer
  <2>3. reading = "calling"
    BY <1>11, <2>1, <2>2 DEF IInv, TypeOK
  <2> QED
    BY <2>1, <2>3 DEF RInv, GreetInv
<1>13. GreetedBeforeAnswers'
  <2> SUFFICES ASSUME NEW i \in 1 .. k + 1,
                      accepted'[i].kind \in {FrameKindCompletion, FrameKindError, FrameKindPong}
               PROVE  \E j \in 1 .. i - 1 : accepted'[j] = Greeting
    BY <1>4 DEF GreetedBeforeAnswers
  <2>1. CASE i \in 1 .. k
    <3>1. PICK j \in 1 .. i - 1 : accepted[j] = Greeting
      BY <1>4, <2>1 DEF RInv, GreetInv, GreetedBeforeAnswers
    <3>2. j \in 1 .. k
      BY <1>4, <2>1
    <3> QED
      BY <1>4, <3>1, <3>2
  <2>2. CASE i = k + 1
    <3>1. Greeted
      BY <1>4, <1>12, <2>2
    <3>2. PICK j \in 1 .. k : accepted[j] = Greeting
      BY <3>1 DEF Greeted, k
    <3>3. j \in 1 .. i - 1
      BY <1>4, <2>2
    <3> QED
      BY <1>4, <3>2, <3>3
  <2> QED
    BY <1>4, <2>1, <2>2
<1>14. GreetInv'
  <2>1. reading' \in {"read", "dispatch", "calling"} => Greeted'
    BY <1>1, <1>8 DEF RInv, GreetInv
  <2>2. reading' = "greet" /\ pc'[Reader] = "sent" => Greeted'
    BY <1>1, <1>2, <1>5, <1>8, <1>9, <1>10 DEF RInv, GreetInv
  <2>3. reading' = "greet" /\ pc'[Reader] \in InCall => call'[Reader] = Greeting
    BY <1>1, <1>2, <1>5 DEF RInv, GreetInv, InCall, Working
  <2>4. \A q \in Senders : pc'[q] \in InCall => call'[q] \in Calls
    BY <1>2, <1>5 DEF RInv, GreetInv, InCall, Working
  <2> QED
    BY <1>13, <2>1, <2>2, <2>3, <2>4 DEF GreetInv
<1>15. AnswerInv'
  <2>1. answered \in Seq(Seq(Nat)) /\ invoked \in Seq(Seq(Nat))
    BY DEF RInv, AnswerInv
  <2>2. answered' \in Seq(Seq(Nat))
    BY <1>1, <1>3, <2>1, AppendProperties DEF c
  <2>3. CASE p = Reader
    <3>1. invoked = answered'
      BY <1>1, <1>2, <2>3 DEF RInv, AnswerInv, c
    <3> QED
      BY <1>1, <1>2, <2>1, <2>2, <2>3, <3>1 DEF AnswerInv, InCall, Working
  <2>4. CASE p # Reader
    <3>1. p \in Senders
      BY <2>4 DEF Writers
    <3>2. c.kind \notin Answers
      BY <1>6, <3>1 DEF ReaderAnswers, Answers
    <3>3. answered' = answered
      BY <1>1, <3>2
    <3>4. pc'[Reader] = pc[Reader] /\ call'[Reader] = call[Reader]
      BY <1>2, <1>5, <2>4
    <3> QED
      BY <1>1, <3>3, <3>4 DEF RInv, AnswerInv
  <2> QED
    BY <2>3, <2>4
<1> QED
  BY <1>14, <1>15 DEF RInv

\* A call begins, of the application or of the read loop.
LEMMA SenderCalls ==
  ASSUME IInv, RInv, NEW p \in Senders, send(p)
  PROVE  RInv'
<1>1. PICK c \in Calls : Call(p, c)
  BY DEF send
<1>2. UNCHANGED <<accepted, answered, reading, invoked>>
  BY DEF send, outVars, readVars
<1>3. p \in Writers /\ p # Reader /\ Reader \in Writers /\ Senders \subseteq Writers
  BY ExchangeConstants DEF Writers
<1>4. /\ call'[p] = c
      /\ \A q \in Writers \ {p} : pc'[q] = pc[q] /\ call'[q] = call[q]
  BY <1>1, <1>3 DEF Call, IInv, TypeOK
<1>5. GreetInv'
  BY <1>2, <1>3, <1>4 DEF RInv, GreetInv, Greeted, GreetedBeforeAnswers
<1>6. AnswerInv'
  BY <1>2, <1>3, <1>4 DEF RInv, AnswerInv
<1> QED
  BY <1>5, <1>6 DEF RInv

LEMMA ReaderBegins ==
  ASSUME IInv, RInv, NEW c, Call(Reader, c), UNCHANGED <<accepted, answered>>,
         \/ reading' = "greet" /\ reading = "greet" /\ c = Greeting
         \/ reading' = "calling" /\ reading \in {"read", "dispatch"},
         invoked = answered, c.id \in Seq(Nat),
         invoked' = IF c.kind \in Answers THEN Append(invoked, c.id) ELSE invoked
  PROVE  RInv'
<1>1. Reader \in Writers /\ Senders \subseteq Writers \ {Reader}
  BY ExchangeConstants DEF Writers
<1>2. /\ pc'[Reader] = "begun" /\ call'[Reader] = c
      /\ \A q \in Writers \ {Reader} : pc'[q] = pc[q] /\ call'[q] = call[q]
  BY <1>1 DEF Call, IInv, TypeOK
<1>3. GreetInv'
  <2>1. reading' \in {"read", "dispatch", "calling"} => Greeted'
    BY DEF RInv, GreetInv, Greeted
  <2>2. GreetedBeforeAnswers'
    BY DEF RInv, GreetInv, GreetedBeforeAnswers
  <2>3. \A q \in Senders : pc'[q] \in InCall => call'[q] \in Calls
    BY <1>1, <1>2 DEF RInv, GreetInv
  <2> QED
    BY <1>2, <2>1, <2>2, <2>3 DEF GreetInv
<1>4. AnswerInv'
  <2>1. answered \in Seq(Seq(Nat)) /\ answered' = answered
    BY DEF RInv, AnswerInv
  <2>2. invoked' = (IF c.kind \in Answers THEN Append(answered', c.id) ELSE answered')
    BY <2>1
  <2>3. invoked' \in Seq(Seq(Nat))
    BY <2>1, AppendProperties
  <2>4. reading' = "greet" => invoked' = answered'
    BY <2>2, GreetingIsNoAnswer
  <2> QED
    BY <1>2, <2>1, <2>2, <2>3, <2>4 DEF AnswerInv
<1> QED
  BY <1>3, <1>4 DEF RInv

\* The read loop moves on without a call.
LEMMA ReaderMovesOn ==
  ASSUME IInv, RInv, UNCHANGED <<call, accepted, answered, invoked>>,
         pc' = pc \/ (pc[Reader] \in {"sent", "failed"} /\ pc' = [pc EXCEPT ![Reader] = "idle"]),
         \/ reading' = reading \/ reading' = "stopped"
         \/ reading' \in {"read", "dispatch"} /\ reading \in {"read", "dispatch"}
         \/ reading' = "read" /\ pc[Reader] = "sent"
  PROVE  RInv'
<1>1. Reader \in Writers /\ Senders \subseteq Writers \ {Reader}
  BY ExchangeConstants DEF Writers
<1>2. /\ pc'[Reader] \in {pc[Reader], "idle"}
      /\ \A q \in Senders : pc'[q] = pc[q]
  BY <1>1 DEF IInv, TypeOK
<1>3. reading' \in {"read", "dispatch", "calling"} => Greeted
  BY DEF RInv, GreetInv, IInv, TypeOK, ReaderInv
<1>4. reading' \in {"greet", "read", "dispatch"} => invoked = answered
  BY DEF RInv, AnswerInv
<1>5. GreetInv'
  BY <1>2, <1>3 DEF RInv, GreetInv, Greeted, GreetedBeforeAnswers, InCall, Working
<1>6. AnswerInv'
  BY <1>2, <1>4 DEF RInv, AnswerInv, InCall, Working
<1> QED
  BY <1>5, <1>6 DEF RInv

LEMMA ReadStepAnswers ==
  ASSUME IInv, RInv, ReadStep
  PROVE  RInv'
<1> USE DEF sendVars, outVars, readVars
<1>1. CASE sendConnected
  <2>1. /\ reading = "greet" /\ reading' = "greet" /\ Call(Reader, Greeting)
        /\ UNCHANGED <<accepted, answered, invoked>>
    BY <1>1 DEF sendConnected
  <2>2. Greeting.id \in Seq(Nat)
    BY ExchangeConstants, CallParts
  <2>3. invoked = answered
    BY <2>1 DEF RInv, AnswerInv
  <2>4. Greeting.kind \notin Answers
    BY GreetingIsNoAnswer
  <2> QED
    BY <2>1, <2>2, <2>3, <2>4, ReaderBegins
<1>2. CASE callReturns
  <2>1. /\ UNCHANGED <<call, accepted, answered, invoked>>
        /\ pc[Reader] \in {"sent", "failed"} /\ pc' = [pc EXCEPT ![Reader] = "idle"]
        /\ reading' = "stopped" \/ (reading' = "read" /\ pc[Reader] = "sent")
    BY <1>2 DEF callReturns, At
  <2> QED
    BY <2>1, ReaderMovesOn
<1>3. CASE readFails
  <2>1. UNCHANGED <<pc, call, accepted, answered, invoked>> /\ reading' = "stopped"
    BY <1>3 DEF readFails, Stop, At
  <2> QED
    BY <2>1, ReaderMovesOn
<1>4. CASE dispatchMessage
  <2>1. /\ UNCHANGED <<pc, call, accepted, answered, invoked>>
        /\ reading = "dispatch" /\ reading' \in {"read", "stopped"}
    BY <1>4 DEF dispatchMessage, Stop, At
  <2> QED
    BY <2>1, ReaderMovesOn
<1>5. CASE readFrame
  <2>1. reading = "read" /\ UNCHANGED <<accepted, answered, invoked>>
    BY <1>5 DEF readFrame
  <2>2. \/ Call(Reader, Reply(TRUE, FrameKindPong, <<>>, Nil)) /\ reading' = "calling"
        \/ UNCHANGED <<pc, call>> /\ reading' \in {reading, "dispatch"}
    BY <1>5 DEF readFrame, Answer, At
  <2>3. CASE Call(Reader, Reply(TRUE, FrameKindPong, <<>>, Nil)) /\ reading' = "calling"
    <3> DEFINE c == Reply(TRUE, FrameKindPong, <<>>, Nil)
    <3>1. c.id \in Seq(Nat) /\ c.kind \notin Answers
      BY EmptySeq DEF Reply, Answers, FrameKindPong, FrameKindCompletion, FrameKindError
    <3>2. invoked = answered
      BY <2>1 DEF RInv, AnswerInv
    <3> HIDE DEF c
    <3> QED
      BY <2>1, <2>3, <3>1, <3>2, ReaderBegins DEF c
  <2>4. CASE UNCHANGED <<pc, call>> /\ reading' \in {reading, "dispatch"}
    BY <2>1, <2>4, ReaderMovesOn
  <2> QED
    BY <2>2, <2>3, <2>4
<1>6. CASE dispatchInvoke
  <2>1. /\ reading = "dispatch" /\ UNCHANGED <<accepted, answered>>
        /\ invoked' = Append(invoked, message.id)
    BY <1>6 DEF dispatchInvoke
  <2>2. invoked = answered /\ message.id \in Seq(Nat)
    BY <2>1 DEF RInv, AnswerInv, IInv, ReaderInv
  <2>3. PICK c : /\ Call(Reader, c) /\ reading' = "calling"
                 /\ c.id = message.id /\ c.kind \in Answers
    <3>1. CASE answerFailure
      <4> DEFINE c == Reply(TRUE, FrameKindError, message.id, ErrorText)
      <4>1. c.id = message.id /\ c.kind \in Answers
        BY DEF Reply, Answers
      <4>2. Call(Reader, c) /\ reading' = "calling"
        BY <3>1 DEF answerFailure, Answer, At
      <4> HIDE DEF c
      <4> QED
        BY <4>1, <4>2
    <3>2. ASSUME NEW res \in Results, Answer(Reply(FALSE, FrameKindCompletion, message.id, res))
          PROVE  \E c : /\ Call(Reader, c) /\ reading' = "calling"
                        /\ c.id = message.id /\ c.kind \in Answers
      <4> DEFINE c == Reply(FALSE, FrameKindCompletion, message.id, res)
      <4>1. c.id = message.id /\ c.kind \in Answers
        BY DEF Reply, Answers
      <4>2. Call(Reader, c) /\ reading' = "calling"
        BY <3>2 DEF Answer, At
      <4> HIDE DEF c
      <4> QED
        BY <4>1, <4>2
    <3> QED
      BY <1>6, <3>1, <3>2 DEF dispatchInvoke
  <2> QED
    BY <2>1, <2>2, <2>3, ReaderBegins
<1> QED
  BY <1>1, <1>2, <1>3, <1>4, <1>5, <1>6 DEF ReadStep

LEMMA NextRInv ==
  ASSUME ReaderAnswers, IInv, RInv, [Next]_vars
  PROVE  RInv'
<1> USE DEF sendVars, outVars, readVars
<1>1. ASSUME NEW p \in Senders, send(p) PROVE RInv'
  BY <1>1, SenderCalls
<1>2. ASSUME NEW p \in Writers, SendStep(p) PROVE RInv'
  <2>1. CASE enqueueFrame(p)
    BY <2>1, EnqueueAnswers
  <2>2. CASE ~enqueueFrame(p)
    <3>1. /\ pc[p] \in InCall /\ UNCHANGED <<accepted, answered, reading, invoked>>
          /\ \/ pc' = [pc EXCEPT ![p] = "failed"] /\ call' = [call EXCEPT ![p] = NoCall]
             \/ \E x \in InCall : pc' = [pc EXCEPT ![p] = x] /\ call' = call
      BY <1>2, <2>2 DEF SendStep, refuse, writeRawProtocolFrame, writeEncodedProtocolFrame,
         marshalFails, marshalAppend, observeLoad, observeSwap, enqueueFails, Discard, Return,
         InCall, Working
    <3> QED
      BY <3>1, WithinCall
  <2> QED
    BY <2>1, <2>2
<1>3. ASSUME ReadStep PROVE RInv'
  BY <1>3, ReadStepAnswers
<1>4. ASSUME \/ takeFrame \/ writeQueuedFrame \/ discardQueuedFrames \/ closeContext
             \/ UNCHANGED vars
      PROVE RInv'
  <2>1. UNCHANGED <<pc, call, accepted, answered, reading, invoked>>
    BY <1>4 DEF takeFrame, writeQueuedFrame, discardQueuedFrames, closeContext, vars
  <2> QED
    BY <2>1, ReaderMovesOn
<1> QED
  BY <1>1, <1>2, <1>3, <1>4 DEF Next

\* With answering left to the read loop, its invariant holds throughout.
THEOREM ReaderInvariance ==
  ASSUME ReaderAnswers
  PROVE  Spec => []RInv
<1>1. Init => RInv
  BY InitRInv
<1>2. IInv /\ RInv /\ [Next]_vars => RInv'
  BY NextRInv
<1> QED
  BY <1>1, <1>2, Invariance, PTL DEF Spec

\* sendConnected runs before the read loop: no completion, error or pong is queued before
\* the connected message, if the application leaves those to the loop.
THEOREM GreetedFirst ==
  ASSUME ReaderAnswers
  PROVE  Spec => []GreetedBeforeAnswers
<1>1. RInv => GreetedBeforeAnswers
  BY DEF RInv, GreetInv
<1> QED
  BY <1>1, ReaderInvariance, PTL

\* dispatchMessage answers every invocation once, with its id and in order, before the
\* next frame is read, if the application leaves answering to it.
THEOREM InvocationsGetAnswers ==
  ASSUME ReaderAnswers
  PROVE  Spec => []InvocationsAnswered
<1>1. RInv => InvocationsAnswered
  <2> SUFFICES ASSUME RInv PROVE InvocationsAnswered
    OBVIOUS
  <2>1. /\ invoked \in Seq(Seq(Nat)) /\ answered \in Seq(Seq(Nat))
        /\ reading = "read" => answered = invoked
    BY DEF RInv, AnswerInv
  <2>2. Len(answered) \in Nat
    BY <2>1, LenProperties
  <2>3. CASE invoked = answered
    <3>1. IsPrefix(answered, invoked)
      BY <2>2, <2>3 DEF IsPrefix
    <3> QED
      BY <2>1, <2>2, <2>3, <3>1 DEF InvocationsAnswered
  <2>4. CASE \E id \in Seq(Nat) : invoked = Append(answered, id)
    <3>1. PICK id \in Seq(Nat) : invoked = Append(answered, id)
      BY <2>4
    <3>2. /\ Len(invoked) = Len(answered) + 1
          /\ \A i \in 1 .. Len(answered) : invoked[i] = answered[i]
      BY <2>1, <3>1, AppendProperties
    <3> DEFINE n == Len(answered)
               s == SubSeq(answered, 1, n)
               t == SubSeq(invoked, 1, n)
    <3>3. \A i \in 1 .. n : answered[i] \in Seq(Nat) /\ invoked[i] \in Seq(Nat)
      BY <2>1, <3>2, ElementOfSeq
    <3>4. n \in Nat /\ 1 \in Int /\ n \in Int
      BY <2>2
    <3> HIDE DEF n
    <3>5. /\ s \in Seq(Seq(Nat)) /\ Len(s) = (IF 1 <= n THEN n - 1 + 1 ELSE 0)
          /\ \A i \in 1 .. n - 1 + 1 : s[i] = answered[1 + i - 1]
      BY <3>3, <3>4, SubSeqProperties
    <3>6. /\ t \in Seq(Seq(Nat)) /\ Len(t) = (IF 1 <= n THEN n - 1 + 1 ELSE 0)
          /\ \A i \in 1 .. n - 1 + 1 : t[i] = invoked[1 + i - 1]
      BY <3>3, <3>4, SubSeqProperties
    <3>7. Len(s) = n /\ Len(t) = n
      BY <3>4, <3>5, <3>6
    <3>8. \A i \in 1 .. n : s[i] = t[i]
      <4> SUFFICES ASSUME NEW i \in 1 .. n PROVE s[i] = t[i]
        OBVIOUS
      <4>1. i \in 1 .. n - 1 + 1 /\ 1 + i - 1 = i
        BY <3>4
      <4> QED
        BY <3>2, <3>5, <3>6, <4>1 DEF n
    <3> HIDE DEF s, t
    <3>9. s = t
      BY <3>5, <3>6, <3>7, <3>8, SeqEqual
    <3>10. IsPrefix(answered, invoked)
      BY <2>2, <3>2, <3>9 DEF IsPrefix, s, t, n
    <3> QED
      BY <2>1, <2>2, <3>2, <3>10 DEF InvocationsAnswered
  <2> QED
    BY <2>3, <2>4 DEF RInv, AnswerInv
<1> QED
  BY <1>1, ReaderInvariance, PTL
=============================================================================
