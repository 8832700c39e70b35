--------------------------- MODULE ProtocolProofs ---------------------------
(***************************************************************************)
(* The codec is exact, for every size of the length fields, every limit    *)
(* that fits into them and every notion of valid text: what is encoded     *)
(* decodes to itself, and only what the encoder could have made decodes.   *)
(***************************************************************************)
EXTENDS Protocol, Integers, SequenceTheorems, TLAPS

Cells == Nat

(***************************************************************************)
(* Arithmetic of the header.                                               *)
(***************************************************************************)
LEMMA ModSmall ==
  ASSUME NEW n \in Nat, NEW m \in Nat, n < m
  PROVE  n % m = n
  BY SMT

LEMMA DivMod ==
  ASSUME NEW n \in Nat
  PROVE  n = 16 * (n \div 16) + (n % 16)
  BY SMT

LEMMA SecondCell ==
  ASSUME NEW codec \in Serializations, NEW kind \in FrameKinds
  PROVE  LET cell == ((codec * 16) % 256) + (kind % 16)
         IN cell \in Nat /\ cell \div 16 = codec /\ cell % 16 = kind
<1>1. codec \in {0, 1, 2} /\ kind \in {0, 1, 2, 3, 4, 5}
  BY DEF Serializations, FrameKinds
<1>2. (codec * 16) % 256 = codec * 16 /\ kind % 16 = kind
  BY <1>1
<1>3. /\ codec * 16 + kind \in Nat
      /\ (codec * 16 + kind) \div 16 = codec /\ (codec * 16 + kind) % 16 = kind
  BY <1>1
<1>. QED
  BY <1>2, <1>3

LEMMA FirstCell ==
  LET cell == protocolMagic * 16 + protocolVersion
  IN cell \in Nat /\ cell \div 16 = protocolMagic /\ cell % 16 = protocolVersion
  BY DEF protocolMagic, protocolVersion

(***************************************************************************)
(* The parts of a frame.                                                   *)
(***************************************************************************)
\* The second of two parts.
LEMMA LastPart ==
  ASSUME NEW S, NEW a \in Seq(S), NEW b \in Seq(S)
  PROVE  SubSeq(a \o b, Len(a) + 1, Len(a) + Len(b)) = b
<1>1. Len(a) \in Nat /\ Len(b) \in Nat
  BY LenProperties
<1>2. CASE Len(b) = 0
  <2>1. b = <<>>
    BY <1>2, EmptySeq
  <2>2. Len(a) + 1 \in Int /\ Len(a) + Len(b) \in Int /\ Len(a) + Len(b) < Len(a) + 1
    BY <1>1, <1>2
  <2>. QED
    BY <2>1, <2>2, SubSeqEmpty
<1>3. CASE Len(b) > 0
  <2>1. /\ Len(a) + 1 \in Len(a) + 1 .. Len(a) + Len(b)
        /\ Len(a) + Len(b) \in Len(a) + 1 .. Len(a) + Len(b)
        /\ (Len(a) + 1) - Len(a) = 1 /\ (Len(a) + Len(b)) - Len(a) = Len(b)
    BY <1>1, <1>3
  <2>2. SubSeq(a \o b, Len(a) + 1, Len(a) + Len(b))
          = SubSeq(b, (Len(a) + 1) - Len(a), (Len(a) + Len(b)) - Len(a))
    BY <2>1, SubSeqOfConcat2
  <2>3. SubSeq(b, 1, Len(b)) = b
    BY SubSeqFull
  <2>. QED
    BY <2>1, <2>2, <2>3
<1>. QED
  BY <1>1, <1>2, <1>3

\* What lies inside the first of two parts.
LEMMA InnerPart ==
  ASSUME NEW S, NEW a \in Seq(S), NEW b \in Seq(S), NEW n \in Nat, NEW k \in Nat,
         n + k <= Len(a)
  PROVE  SubSeq(a \o b, n + 1, n + k) = SubSeq(a, n + 1, n + k)
<1>1. Len(a) \in Nat
  BY LenProperties
<1>2. CASE k = 0
  <2>1. n + 1 \in Int /\ n + k \in Int /\ n + k < n + 1
    BY <1>2
  <2>. QED
    BY <2>1, SubSeqEmpty
<1>3. CASE k > 0
  <2>1. n + 1 \in 1 .. Len(a) /\ n + k \in 1 .. Len(a)
    BY <1>1, <1>3
  <2>. QED
    BY <2>1, SubSeqOfConcat1
<1>. QED
  BY <1>2, <1>3

\* A part taken out of a frame.
LEMMA PartOf ==
  ASSUME NEW S, NEW f \in Seq(S), NEW x \in Nat, NEW y \in Nat, x <= y, y <= Len(f)
  PROVE  SubSeq(f, x + 1, y) \in Seq(S) /\ Len(SubSeq(f, x + 1, y)) = y - x
<1>1. Len(f) \in Nat /\ \A k \in 1 .. Len(f) : f[k] \in S
  BY LenProperties
<1>2. x + 1 \in Int /\ y \in Int /\ \A k \in x + 1 .. y : f[k] \in S
  BY <1>1
<1>3. /\ SubSeq(f, x + 1, y) \in Seq(S)
      /\ Len(SubSeq(f, x + 1, y)) = IF x + 1 <= y THEN y - (x + 1) + 1 ELSE 0
  BY <1>2, SubSeqProperties
<1>. QED
  BY <1>3

\* The parts of a frame made of four.
LEMMA FourParts ==
  ASSUME NEW S, NEW h \in Seq(S), NEW m \in Seq(S), NEW i \in Seq(S), NEW b \in Seq(S)
  PROVE  LET f == ((h \o m) \o i) \o b
         IN /\ f \in Seq(S) /\ Len(f) = Len(h) + Len(m) + Len(i) + Len(b)
            /\ \A k \in 1 .. Len(h) : f[k] = h[k]
            /\ SubSeq(f, Len(h) + 1, Len(h) + Len(m)) = m
            /\ SubSeq(f, Len(h) + Len(m) + 1, Len(h) + Len(m) + Len(i)) = i
            /\ SubSeq(f, Len(h) + Len(m) + Len(i) + 1, Len(f)) = b
<1> DEFINE hm == h \o m
           hmi == hm \o i
           f == hmi \o b
<1>1. Len(h) \in Nat /\ Len(m) \in Nat /\ Len(i) \in Nat /\ Len(b) \in Nat
  BY LenProperties
<1>2. /\ hm \in Seq(S) /\ Len(hm) = Len(h) + Len(m)
      /\ \A k \in 1 .. Len(h) + Len(m) : hm[k] = IF k <= Len(h) THEN h[k] ELSE m[k - Len(h)]
      /\ SubSeq(hm, Len(h) + 1, Len(h) + Len(m)) = m
  BY ConcatProperties, LastPart
<1> HIDE DEF hm
<1>3. /\ hmi \in Seq(S) /\ Len(hmi) = Len(hm) + Len(i)
      /\ \A k \in 1 .. Len(hm) + Len(i) : hmi[k] = IF k <= Len(hm) THEN hm[k] ELSE i[k - Len(hm)]
      /\ SubSeq(hmi, Len(hm) + 1, Len(hm) + Len(i)) = i
  <2>1. SubSeq(hmi, Len(hm) + 1, Len(hm) + Len(i)) = i
    BY <1>2, LastPart
  <2>2. hm \in Seq(S)
    BY <1>2
  <2>3. /\ hmi \in Seq(S) /\ Len(hmi) = Len(hm) + Len(i)
        /\ \A k \in 1 .. Len(hm) + Len(i) : hmi[k] = IF k <= Len(hm) THEN hm[k] ELSE i[k - Len(hm)]
    BY <2>2, ConcatProperties
  <2>. QED
    BY <2>1, <2>3
<1>4. SubSeq(hmi, Len(h) + 1, Len(h) + Len(m)) = m
  <2>1. Len(h) + Len(m) <= Len(hm)
    BY <1>1, <1>2
  <2>. QED
    BY <1>1, <1>2, <2>1, InnerPart
<1> HIDE DEF hmi
<1>5. /\ f \in Seq(S) /\ Len(f) = Len(hmi) + Len(b)
      /\ \A k \in 1 .. Len(hmi) + Len(b) : f[k] = IF k <= Len(hmi) THEN hmi[k] ELSE b[k - Len(hmi)]
      /\ SubSeq(f, Len(hmi) + 1, Len(hmi) + Len(b)) = b
  <2>1. SubSeq(f, Len(hmi) + 1, Len(hmi) + Len(b)) = b
    BY <1>3, LastPart
  <2>2. hmi \in Seq(S)
    BY <1>3
  <2>3. /\ f \in Seq(S) /\ Len(f) = Len(hmi) + Len(b)
        /\ \A k \in 1 .. Len(hmi) + Len(b) : f[k] = IF k <= Len(hmi) THEN hmi[k] ELSE b[k - Len(hmi)]
    BY <2>2, ConcatProperties
  <2>. QED
    BY <2>1, <2>3
<1>6. SubSeq(f, Len(h) + 1, Len(h) + Len(m)) = m
  <2>1. Len(h) + Len(m) <= Len(hmi)
    BY <1>1, <1>2, <1>3
  <2>. QED
    BY <1>1, <1>3, <1>4, <2>1, InnerPart
<1>7. SubSeq(f, Len(hm) + 1, Len(hm) + Len(i)) = i
  <2>1. Len(hm) + Len(i) <= Len(hmi) /\ Len(hm) \in Nat
    BY <1>1, <1>2, <1>3
  <2>. QED
    BY <1>1, <1>3, <2>1, InnerPart
<1> HIDE DEF f
<1>8. \A k \in 1 .. Len(h) : f[k] = h[k]
  BY <1>1, <1>2, <1>3, <1>5
<1>9. /\ f \in Seq(S) /\ Len(f) = Len(h) + Len(m) + Len(i) + Len(b)
      /\ SubSeq(f, Len(h) + Len(m) + 1, Len(h) + Len(m) + Len(i)) = i
      /\ SubSeq(f, Len(h) + Len(m) + Len(i) + 1, Len(f)) = b
  BY <1>1, <1>2, <1>3, <1>5, <1>7
<1>. QED
  BY <1>6, <1>8, <1>9 DEF f, hmi, hm

-----------------------------------------------------------------------------
(***************************************************************************)
(* What is encoded.                                                        *)
(***************************************************************************)
\* What may be sent fits the length fields.
LEMMA LengthsFit ==
  ASSUME NEW kind, NEW method \in Seq(Cells), NEW id \in Seq(Cells),
         validateProtocolFrame(kind, method, id)
  PROVE  /\ Len(method) \in Nat /\ Len(method) < LenSize /\ ValidUTF8(method)
         /\ Len(id) \in Nat /\ Len(id) < LenSize /\ ValidUTF8(id)
<1>1. Len(method) \in Nat /\ Len(id) \in Nat /\ Len(<<>>) = 0
  BY LenProperties, EmptySeq
<1>2. method = <<>> \/ validateMethodName(method)
  BY DEF validateProtocolFrame, validateFrameKind, isControlFrameKind, FrameKinds,
         FrameKindMessage, FrameKindInvoke, FrameKindPing, FrameKindPong
<1>3. id = <<>> \/ validateInvocationID(id)
  BY DEF validateProtocolFrame, validateFrameKind, isControlFrameKind, FrameKinds,
         FrameKindMessage, FrameKindInvoke, FrameKindPing, FrameKindPong
<1>4. Len(method) < LenSize /\ ValidUTF8(method)
  BY <1>1, <1>2, ProtocolConstants DEF validateMethodName
<1>5. Len(id) < LenSize /\ ValidUTF8(id)
  BY <1>1, <1>3, ProtocolConstants DEF validateInvocationID
<1>. QED
  BY <1>1, <1>4, <1>5

\* An encoded frame, field by field.
LEMMA EncodedFields ==
  ASSUME NEW codec \in Serializations, NEW kind,
         NEW method \in Seq(Cells), NEW id \in Seq(Cells), NEW body \in Seq(Cells),
         validateProtocolFrame(kind, method, id), ensurePayloadSize(Len(body))
  PROVE  LET f == encodeFrame(codec, kind, method, id, body)
         IN /\ f \in Seq(Cells)
            /\ Len(f) = HeaderSize + Len(method) + Len(id) + Len(body)
            /\ f[1] \div 16 = protocolMagic /\ f[1] % 16 = protocolVersion
            /\ f[2] \div 16 = codec /\ f[2] % 16 = kind
            /\ f[3] = Len(method) /\ f[4] = Len(id) /\ f[5] = Len(body)
            /\ Method(f) = method /\ InvocationID(f) = id /\ Payload(f) = body
<1> DEFINE h == encodeFrameHeader(codec, kind, Len(method), Len(id), Len(body))
           f == ((h \o method) \o id) \o body
<1>1. /\ Len(method) \in Nat /\ Len(method) < LenSize
      /\ Len(id) \in Nat /\ Len(id) < LenSize
  BY LengthsFit
<1>2. Len(body) \in Nat /\ Len(body) < WordSize
  BY LenProperties DEF ensurePayloadSize
<1>3. kind \in FrameKinds
  BY DEF validateProtocolFrame, validateFrameKind
<1>4. /\ Len(method) % LenSize = Len(method) /\ Len(id) % LenSize = Len(id)
      /\ Len(body) % WordSize = Len(body)
  BY <1>1, <1>2, ModSmall, ProtocolConstants
<1> DEFINE c1 == protocolMagic * 16 + protocolVersion
           c2 == ((codec * 16) % 256) + (kind % 16)
<1>5. c1 \in Nat /\ c1 \div 16 = protocolMagic /\ c1 % 16 = protocolVersion
  BY FirstCell
<1>6. c2 \in Nat /\ c2 \div 16 = codec /\ c2 % 16 = kind
  BY <1>3, SecondCell
<1>7. h = <<c1, c2, Len(method), Len(id), Len(body)>>
  BY <1>4 DEF encodeFrameHeader
<1> HIDE DEF c1, c2
<1>8. /\ h \in Seq(Cells) /\ Len(h) = 5
      /\ h[1] = c1 /\ h[2] = c2 /\ h[3] = Len(method) /\ h[4] = Len(id) /\ h[5] = Len(body)
  BY <1>1, <1>2, <1>5, <1>6, <1>7 DEF Cells
<1>9. f = encodeFrame(codec, kind, method, id, body)
  BY DEF encodeFrame
<1> HIDE DEF h
<1>10. /\ f \in Seq(Cells) /\ Len(f) = Len(h) + Len(method) + Len(id) + Len(body)
       /\ \A k \in 1 .. Len(h) : f[k] = h[k]
       /\ SubSeq(f, Len(h) + 1, Len(h) + Len(method)) = method
       /\ SubSeq(f, Len(h) + Len(method) + 1, Len(h) + Len(method) + Len(id)) = id
       /\ SubSeq(f, Len(h) + Len(method) + Len(id) + 1, Len(f)) = body
  <2>1. h \in Seq(Cells)
    BY <1>8
  <2>. QED
    BY <2>1, FourParts, SMTT(60)
<1> HIDE DEF f
<1>11. f[1] = c1 /\ f[2] = c2 /\ f[3] = Len(method) /\ f[4] = Len(id) /\ f[5] = Len(body)
  BY <1>8, <1>10
<1>12. Method(f) = method /\ InvocationID(f) = id /\ Payload(f) = body
  BY <1>8, <1>10, <1>11
  DEF Method, InvocationID, Payload, MethodEnd, InvocationIDEnd, HeaderSize
<1>13. Len(f) = HeaderSize + Len(method) + Len(id) + Len(body)
  BY <1>8, <1>10 DEF HeaderSize
<1>. QED
  BY <1>5, <1>6, <1>9, <1>10, <1>11, <1>12, <1>13

\* What the encoder makes of a frame it accepts (writeRawProtocolFrame,
\* writeEncodedProtocolFrame), decodeFrame of a peer with the same limits
\* accepts, and returns the same kind, method name, invocation id and body.
THEOREM RoundTrip ==
  ASSUME NEW codec \in Serializations, NEW kind,
         NEW method \in Seq(Cells), NEW id \in Seq(Cells), NEW body \in Seq(Cells),
         validateProtocolFrame(kind, method, id), ensurePayloadSize(Len(body)),
         isControlFrameKind(kind) => body = <<>>
  PROVE  LET f == encodeFrame(codec, kind, method, id, body)
         IN /\ Decodes(f, codec)
            /\ decodeFrame(f) = [kind |-> kind, method |-> method, id |-> id, body |-> body]
<1> DEFINE f == encodeFrame(codec, kind, method, id, body)
<1>1. /\ Len(method) \in Nat /\ ValidUTF8(method)
      /\ Len(id) \in Nat /\ ValidUTF8(id)
  BY LengthsFit
<1>2. Len(body) \in Nat /\ Len(body) <= maxPayloadSize
  BY LenProperties DEF ensurePayloadSize
<1>3. /\ f \in Seq(Cells)
      /\ Len(f) = HeaderSize + Len(method) + Len(id) + Len(body)
      /\ f[1] \div 16 = protocolMagic /\ f[1] % 16 = protocolVersion
      /\ f[2] \div 16 = codec /\ f[2] % 16 = kind
      /\ f[3] = Len(method) /\ f[4] = Len(id) /\ f[5] = Len(body)
      /\ Method(f) = method /\ InvocationID(f) = id /\ Payload(f) = body
  BY EncodedFields
<1> HIDE DEF f
<1>4. Kind(f) = kind
  BY <1>3 DEF Kind
<1>5. Len(f) >= HeaderSize /\ Len(f) = InvocationIDEnd(f) + f[5]
  BY <1>1, <1>2, <1>3 DEF HeaderSize, InvocationIDEnd, MethodEnd
<1>6. isControlFrameKind(kind) => f[3] = 0 /\ f[4] = 0 /\ f[5] = 0
  BY <1>3, EmptySeq DEF validateProtocolFrame
<1>7. kind \in {FrameKindMessage, FrameKindInvoke} => f[3] # 0
  <2>1. kind \in {FrameKindMessage, FrameKindInvoke} => method # <<>>
    BY DEF validateProtocolFrame, validateMethodName, isControlFrameKind,
           FrameKindMessage, FrameKindInvoke, FrameKindPing, FrameKindPong
  <2>. QED
    BY <1>3, <2>1, EmptySeq
<1>8. ~isControlFrameKind(kind) /\ kind # FrameKindMessage => f[4] # 0
  <2>1. ~isControlFrameKind(kind) /\ kind # FrameKindMessage => id # <<>>
    BY DEF validateProtocolFrame, validateInvocationID
  <2>. QED
    BY <1>3, <2>1, EmptySeq
<1>9. validateFrameKind(kind)
  BY DEF validateProtocolFrame
<1>10. Decodes(f, codec)
  BY <1>1, <1>2, <1>3, <1>4, <1>5, <1>6, <1>7, <1>8, <1>9 DEF Decodes
<1>11. decodeFrame(f) = [kind |-> kind, method |-> method, id |-> id, body |-> body]
  BY <1>3, <1>4 DEF decodeFrame
<1>. QED
  BY <1>10, <1>11 DEF f

-----------------------------------------------------------------------------
(***************************************************************************)
(* What decodes.                                                           *)
(***************************************************************************)
\* The cells of a received header have the width of their fields.
HeaderInWidth(f) == f[3] < LenSize /\ f[4] < LenSize /\ f[5] < WordSize

\* A frame that decodes is its header followed by its three parts.
LEMMA DecodedParts ==
  ASSUME NEW codec \in Serializations, NEW f \in Seq(Cells), Decodes(f, codec)
  PROVE  /\ f = ((SubSeq(f, 1, HeaderSize) \o Method(f)) \o InvocationID(f)) \o Payload(f)
         /\ Method(f) \in Seq(Cells) /\ Len(Method(f)) = f[3]
         /\ InvocationID(f) \in Seq(Cells) /\ Len(InvocationID(f)) = f[4]
         /\ Payload(f) \in Seq(Cells) /\ Len(Payload(f)) = f[5]
         /\ \A k \in 1 .. 5 : f[k] \in Nat
<1> DEFINE me == MethodEnd(f)
           ie == InvocationIDEnd(f)
<1>1. Len(f) \in Nat /\ \A k \in 1 .. Len(f) : f[k] \in Nat
  BY LenProperties DEF Cells
<1>2. Len(f) >= 5 /\ Len(f) = ie + f[5] /\ HeaderSize = 5
  BY DEF Decodes, HeaderSize
<1>3. /\ \A k \in 1 .. 5 : f[k] \in Nat
      /\ f[3] \in Nat /\ f[4] \in Nat /\ f[5] \in Nat
  BY <1>1, <1>2
<1>4. me = 5 + f[3] /\ ie = me + f[4] /\ me \in Nat /\ ie \in Nat
  <2>1. me = 5 + f[3] /\ ie = me + f[4]
    BY DEF MethodEnd, InvocationIDEnd, HeaderSize
  <2> HIDE DEF me, ie
  <2>2. PICK x \in Nat, y \in Nat : x = f[3] /\ y = f[4]
    BY <1>3
  <2>3. me = 5 + x /\ ie = me + y
    BY <2>1, <2>2
  <2>4. me \in Nat /\ ie \in Nat
    BY <2>3
  <2>. QED
    BY <2>1, <2>4
<1> HIDE DEF me, ie
<1>5. /\ 5 <= me /\ me <= ie /\ ie <= Len(f) /\ me <= Len(f)
      /\ me - 5 = f[3] /\ ie - me = f[4] /\ Len(f) - ie = f[5]
  <2>1. PICK x \in Nat, y \in Nat, z \in Nat : x = f[3] /\ y = f[4] /\ z = f[5]
    BY <1>3
  <2>2. me = 5 + x /\ ie = me + y /\ Len(f) = ie + z
    BY <1>2, <1>4, <2>1
  <2>3. /\ 5 <= me /\ me <= ie /\ ie <= Len(f) /\ me <= Len(f)
        /\ me - 5 = x /\ ie - me = y /\ Len(f) - ie = z
    BY <2>2
  <2>. QED
    BY <2>1, <2>3
<1>6. SubSeq(f, 1, 5) \o SubSeq(f, 5 + 1, me) = SubSeq(f, 1, me)
  <2>1. 1 \in 1 .. Len(f) + 1 /\ 5 \in 1 - 1 .. Len(f) /\ me \in 5 .. Len(f)
    BY <1>1, <1>4, <1>5
  <2>. QED
    BY <2>1, ConcatAdjacentSubSeq
<1>7. SubSeq(f, 1, me) \o SubSeq(f, me + 1, ie) = SubSeq(f, 1, ie)
  <2>1. 1 \in 1 .. Len(f) + 1 /\ me \in 1 - 1 .. Len(f) /\ ie \in me .. Len(f)
    BY <1>1, <1>4, <1>5
  <2>. QED
    BY <2>1, ConcatAdjacentSubSeq
<1>8. SubSeq(f, 1, ie) \o SubSeq(f, ie + 1, Len(f)) = SubSeq(f, 1, Len(f))
  <2>1. 1 \in 1 .. Len(f) + 1 /\ ie \in 1 - 1 .. Len(f) /\ Len(f) \in ie .. Len(f)
    BY <1>1, <1>4, <1>5
  <2>. QED
    BY <2>1, ConcatAdjacentSubSeq
<1>9. SubSeq(f, 1, Len(f)) = f
  BY SubSeqFull
<1>11. /\ Method(f) = SubSeq(f, 5 + 1, me) /\ InvocationID(f) = SubSeq(f, me + 1, ie)
       /\ Payload(f) = SubSeq(f, ie + 1, Len(f))
  BY <1>2 DEF Method, InvocationID, Payload, me, ie
<1>12. Method(f) \in Seq(Cells) /\ Len(Method(f)) = f[3]
  <2>1. SubSeq(f, 5 + 1, me) \in Seq(Cells) /\ Len(SubSeq(f, 5 + 1, me)) = me - 5
    <3>1. 5 \in Nat /\ 5 <= me /\ me <= Len(f) /\ me \in Nat
      BY <1>1, <1>4, <1>5
    <3>. QED
      BY <3>1, PartOf
  <2>. QED
    BY <1>5, <1>11, <2>1
<1>13. InvocationID(f) \in Seq(Cells) /\ Len(InvocationID(f)) = f[4]
  <2>1. SubSeq(f, me + 1, ie) \in Seq(Cells) /\ Len(SubSeq(f, me + 1, ie)) = ie - me
    BY <1>4, <1>5, PartOf
  <2>. QED
    BY <1>5, <1>11, <2>1
<1>14. Payload(f) \in Seq(Cells) /\ Len(Payload(f)) = f[5]
  <2>1. Len(f) <= Len(f)
    BY <1>1
  <2>2. SubSeq(f, ie + 1, Len(f)) \in Seq(Cells) /\ Len(SubSeq(f, ie + 1, Len(f))) = Len(f) - ie
    BY <1>1, <1>4, <1>5, <2>1, PartOf
  <2>. QED
    BY <1>5, <1>11, <2>2
<1>15. f = ((SubSeq(f, 1, HeaderSize) \o Method(f)) \o InvocationID(f)) \o Payload(f)
  BY <1>2, <1>6, <1>7, <1>8, <1>9, <1>11
<1>. QED
  BY <1>3, <1>12, <1>13, <1>14, <1>15

\* Only what an encoder could have made decodes: a frame that decodeFrame
\* accepts is exactly the encoding of the message it returns, and that message
\* passes the validation of the send path.  Hence no two frames decode to the
\* same message, and the read path admits nothing the send path refuses.  The
\* limits are the ones of the code: the largest values of the length fields.
THEOREM Canonical ==
  ASSUME NEW codec \in Serializations, NEW f \in Seq(Cells),
         HeaderInWidth(f), Decodes(f, codec),
         MaxMethodNameLen = LenSize - 1, MaxInvocationIDLen = LenSize - 1
  PROVE  /\ f = encodeFrame(codec, Kind(f), Method(f), InvocationID(f), Payload(f))
         /\ validateProtocolFrame(Kind(f), Method(f), InvocationID(f))
         /\ ensurePayloadSize(Len(Payload(f)))
<1> DEFINE h == encodeFrameHeader(codec, Kind(f), f[3], f[4], f[5])
           g == SubSeq(f, 1, HeaderSize)
<1>1. /\ f = ((g \o Method(f)) \o InvocationID(f)) \o Payload(f)
      /\ Method(f) \in Seq(Cells) /\ Len(Method(f)) = f[3]
      /\ InvocationID(f) \in Seq(Cells) /\ Len(InvocationID(f)) = f[4]
      /\ Payload(f) \in Seq(Cells) /\ Len(Payload(f)) = f[5]
      /\ \A k \in 1 .. 5 : f[k] \in Nat
  BY DecodedParts
<1>2. /\ f[1] \in Nat /\ f[2] \in Nat /\ f[3] \in Nat /\ f[4] \in Nat /\ f[5] \in Nat
      /\ Len(f) \in Nat /\ Len(f) >= 5
  BY <1>1, LenProperties DEF Decodes, HeaderSize
<1>3. f[1] = protocolMagic * 16 + protocolVersion
  BY <1>2 DEF Decodes, protocolMagic, protocolVersion
<1>4. Kind(f) \in FrameKinds
  BY DEF Decodes, validateFrameKind
<1>5. f[2] = ((codec * 16) % 256) + (Kind(f) % 16)
  <2>1. codec \in {0, 1, 2} /\ Kind(f) \in {0, 1, 2, 3, 4, 5}
    BY <1>4 DEF Serializations, FrameKinds
  <2>2. f[2] = codec * 16 + Kind(f)
    <3>1. f[2] \div 16 = codec /\ f[2] % 16 = Kind(f)
      BY DEF Decodes, Kind
    <3>2. f[2] = 16 * (f[2] \div 16) + (f[2] % 16)
      BY <1>2, DivMod
    <3>. QED
      BY <2>1, <3>1, <3>2
  <2>. QED
    BY <2>1, <2>2
<1>6. f[3] % LenSize = f[3] /\ f[4] % LenSize = f[4] /\ f[5] % WordSize = f[5]
  BY <1>2, ModSmall, ProtocolConstants DEF HeaderInWidth
<1>7. h = <<f[1], f[2], f[3], f[4], f[5]>>
  BY <1>3, <1>5, <1>6 DEF encodeFrameHeader
<1>8. g = h
  <2>1. g \in Seq(Cells) /\ Len(g) = 5 /\ \A k \in 1 .. 5 : g[k] = f[k]
    <3>1. \A k \in 1 .. 5 : f[k] \in Cells
      BY <1>1 DEF Cells
    <3>2. /\ SubSeq(f, 1, 5) \in Seq(Cells)
          /\ Len(SubSeq(f, 1, 5)) = IF 1 <= 5 THEN 5 - 1 + 1 ELSE 0
          /\ \A k \in 1 .. 5 - 1 + 1 : SubSeq(f, 1, 5)[k] = f[1 + k - 1]
      BY <3>1, SubSeqProperties
    <3>3. \A k \in 1 .. 5 : k \in 1 .. 5 - 1 + 1 /\ 1 + k - 1 = k
      OBVIOUS
    <3>. QED
      BY <3>2, <3>3 DEF HeaderSize
  <2> HIDE DEF g
  <2>2. h \in Seq(Cells) /\ Len(h) = 5 /\ \A k \in 1 .. 5 : h[k] = f[k]
    BY <1>2, <1>7 DEF Cells
  <2> HIDE DEF h
  <2>3. Len(g) = Len(h) /\ \A k \in 1 .. Len(g) : g[k] = h[k]
    BY <2>1, <2>2
  <2>. QED
    BY <2>1, <2>2, <2>3, SeqEqual
<1>9. f = encodeFrame(codec, Kind(f), Method(f), InvocationID(f), Payload(f))
  BY <1>1, <1>8 DEF encodeFrame
<1>10. Method(f) = <<>> <=> f[3] = 0
  BY <1>1, EmptySeq
<1>11. InvocationID(f) = <<>> <=> f[4] = 0
  BY <1>1, EmptySeq
<1>12. f[3] # 0 => validateMethodName(Method(f))
  BY <1>1, <1>2, <1>10, ProtocolConstants DEF validateMethodName, Decodes, HeaderInWidth
<1>13. f[4] # 0 => validateInvocationID(InvocationID(f))
  BY <1>1, <1>2, <1>11, ProtocolConstants DEF validateInvocationID, Decodes, HeaderInWidth
<1>14. validateProtocolFrame(Kind(f), Method(f), InvocationID(f))
  BY <1>10, <1>11, <1>12, <1>13 DEF validateProtocolFrame, Decodes
<1>15. ensurePayloadSize(Len(Payload(f)))
  BY <1>1 DEF ensurePayloadSize, Decodes, HeaderInWidth
<1>. QED
  BY <1>9, <1>14, <1>15

=============================================================================
