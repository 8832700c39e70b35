----------------------------- MODULE MCExchange -----------------------------
(***************************************************************************)
(* A small instance of Exchange.  Bytes are small numbers; 9 is not UTF-8. *)
(***************************************************************************)
EXTENDS Exchange

CONSTANT s1

OneSender == {s1}

NoNine(s) == \A i \in DOMAIN s : s[i] # 9

Message(raw, method, body) ==
  [raw |-> raw, kind |-> FrameKindMessage, method |-> method, id |-> <<>>, body |-> body]

Connected == Message(FALSE, <<1, 2>>, <<1, 2, 3>>)

\* Large, small and refused bodies and names.
SenderCalls ==
  { Message(FALSE, <<1>>, <<4, 4, 4, 4, 4, 4>>), Message(FALSE, <<1>>, <<5>>),
    Message(FALSE, <<1, 1, 1, 1>>, Nil), Message(FALSE, <<1>>, Unsupported),
    Message(TRUE, <<2>>, <<6, 6>>) }

Frame(kind, method, id, body) == encodeFrame(Codec, kind, method, id, body)

\* Good frames, and one frame for every check of the decoder.
Frames ==
  { Frame(FrameKindPing, <<>>, <<>>, <<>>), Frame(FrameKindPong, <<>>, <<>>, <<>>),
    Frame(FrameKindInvoke, <<7>>, <<1>>, <<8>>), Frame(FrameKindInvoke, <<3>>, <<2>>, <<>>),
    Frame(FrameKindMessage, <<7>>, <<>>, <<8>>), Frame(FrameKindMessage, <<3>>, <<1>>, <<>>),
    Frame(FrameKindCompletion, <<>>, <<1>>, <<8>>),
    <<81, 16 * Codec>>, Frame(6, <<7>>, <<1>>, <<>>), Frame(FrameKindPing, <<>>, <<>>, <<8>>),
    Frame(FrameKindMessage, <<>>, <<>>, <<8>>), Frame(FrameKindInvoke, <<7>>, <<>>, <<8>>),
    Frame(FrameKindMessage, <<9>>, <<>>, <<>>), Frame(FrameKindInvoke, <<7>>, <<9>>, <<>>),
    encodeFrame(1 - Codec, FrameKindMessage, <<7>>, <<>>, <<>>),
    Append(Frame(FrameKindMessage, <<7>>, <<>>, <<>>), 8),
    <<82, 16 * Codec, 0, 0, 0>>, <<97, 16 * Codec, 0, 0, 0>> }

HubType ==
  { [name |-> <<7>>, in |-> 3, out |-> 2, takesContext |-> TRUE, takesPointer |-> TRUE, returnsError |-> TRUE],
    [name |-> <<3>>, in |-> 3, out |-> 2, takesContext |-> TRUE, takesPointer |-> FALSE, returnsError |-> TRUE] }

\* The text of any error.
HubError == <<6>>

HubResults == {Nil, <<5, 5>>, <<4, 4, 4, 4, 4, 4, 4>>, Unsupported}
=============================================================================
