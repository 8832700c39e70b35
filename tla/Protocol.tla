------------------------------ MODULE Protocol ------------------------------
(***************************************************************************)
(* SignalG frames (protocol.go): validation, encoding and decoding, as     *)
(* operators.  A frame is a sequence of cells: the five header fields and  *)
(* then the bytes of method name, invocation id and body.  The four bytes  *)
(* of BodyLen are one cell.  Which error a refusal carries is left out.    *)
(***************************************************************************)
EXTENDS Naturals, Sequences

CONSTANTS
  LenSize,            \* values of MethodLen and InvocationIDLen: 2^8 in the code
  WordSize,           \* values of BodyLen: 2^32 in the code
  MaxMethodNameLen,   \* 255 in the code
  MaxInvocationIDLen, \* 255 in the code
  maxPayloadSize,     \* as normalizeMaxPayloadSize leaves it: positive
  ValidUTF8(_)        \* utf8.Valid

ASSUME ProtocolConstants ==
  /\ LenSize \in Nat /\ WordSize \in Nat \ {0}
  /\ MaxMethodNameLen \in Nat /\ MaxMethodNameLen < LenSize
  /\ MaxInvocationIDLen \in Nat /\ MaxInvocationIDLen < LenSize
  /\ maxPayloadSize \in Nat \ {0}
  /\ ValidUTF8(<<>>)

protocolMagic == 5
protocolVersion == 1
HeaderSize == 5

FrameKindMessage == 0
FrameKindInvoke == 1
FrameKindCompletion == 2
FrameKindError == 3
FrameKindPing == 4
FrameKindPong == 5
FrameKinds == 0 .. 5

Serializations == 0 .. 2
-----------------------------------------------------------------------------
(***************************************************************************)
(* What may be sent.                                                       *)
(***************************************************************************)
validateFrameKind(kind) == kind \in FrameKinds
isControlFrameKind(kind) == kind \in {FrameKindPing, FrameKindPong}

\* Mutant: the length of the name is not limited.
validateMethodName_Unlimited(method) == method # <<>> /\ ValidUTF8(method)

validateMethodName(method) ==
  method # <<>> /\ Len(method) <= MaxMethodNameLen /\ ValidUTF8(method)

validateInvocationID(id) ==
  id # <<>> /\ Len(id) <= MaxInvocationIDLen /\ ValidUTF8(id)

validateProtocolFrame(kind, method, id) ==
  /\ validateFrameKind(kind)
  /\ isControlFrameKind(kind) => method = <<>> /\ id = <<>>
  /\ ~isControlFrameKind(kind) =>
       /\ kind \in {FrameKindMessage, FrameKindInvoke} \/ method # <<>> => validateMethodName(method)
       /\ kind # FrameKindMessage \/ id # <<>> => validateInvocationID(id)

ensurePayloadSize(n) == n <= maxPayloadSize /\ n < WordSize
-----------------------------------------------------------------------------
(***************************************************************************)
(* Encoding and decoding.                                                  *)
(***************************************************************************)
encodeFrameHeader(codec, kind, methodLen, idLen, bodyLen) ==
  << protocolMagic * 16 + protocolVersion,
     ((codec * 16) % 256) + (kind % 16),
     methodLen % LenSize, idLen % LenSize, bodyLen % WordSize >>

encodeFrame(codec, kind, method, id, body) ==
  encodeFrameHeader(codec, kind, Len(method), Len(id), Len(body)) \o method \o id \o body

Kind(frame) == frame[2] % 16
MethodEnd(frame) == HeaderSize + frame[3]
InvocationIDEnd(frame) == MethodEnd(frame) + frame[4]

Method(frame) == SubSeq(frame, HeaderSize + 1, MethodEnd(frame))
InvocationID(frame) == SubSeq(frame, MethodEnd(frame) + 1, InvocationIDEnd(frame))
Payload(frame) == SubSeq(frame, InvocationIDEnd(frame) + 1, Len(frame))

\* decodeFrame returns no error.
Decodes(frame, codec) ==
  /\ Len(frame) >= HeaderSize
  /\ frame[1] \div 16 = protocolMagic /\ frame[1] % 16 = protocolVersion
  /\ frame[2] \div 16 = codec
  /\ validateFrameKind(Kind(frame))
  /\ isControlFrameKind(Kind(frame)) => frame[3] = 0 /\ frame[4] = 0 /\ frame[5] = 0
  /\ Kind(frame) \in {FrameKindMessage, FrameKindInvoke} => frame[3] # 0
  /\ ~isControlFrameKind(Kind(frame)) /\ Kind(frame) # FrameKindMessage => frame[4] # 0
  /\ frame[5] <= maxPayloadSize
  /\ Len(frame) = InvocationIDEnd(frame) + frame[5]
  /\ ValidUTF8(Method(frame)) /\ ValidUTF8(InvocationID(frame))

decodeFrame(frame) ==
  [kind |-> Kind(frame), method |-> Method(frame), id |-> InvocationID(frame),
   body |-> Payload(frame)]
=============================================================================
