--------------------------- MODULE MessageStream ---------------------------
(***************************************************************************)
(* MessageStream of src/src/transport.rs: messages over a stream of bytes, *)
(* by way of tokio_util's Framed with a LengthDelimitedCodec.  A sender at *)
(* one end, a receiver at the other, the transport in between, which cuts  *)
(* the bytes where it likes.                                               *)
(*                                                                         *)
(* The codec and Framed are external.  What the code sets is the header of *)
(* four bytes, the limit, and that send and receive are futures, which a   *)
(* caller may drop at any await.  Client and Server take frames as whole;  *)
(* this module is the reason they may.                                     *)
(***************************************************************************)
EXTENDS Naturals, Sequences

CONSTANTS
    Messages,       \* messages
    Size,           \* the size of each
    HeaderLen,      \* length_field_length
    MaxFrameLength, \* max_frame_length
    Boundary,       \* a write buffer as long as this is flushed before a send
    NoHeader,       \* the decoder's state between frames
    MaxSends        \* bound: messages sent

ASSUME StreamAssumption ==
    /\ Size \in [Messages -> Nat]
    /\ HeaderLen \in Nat \ {0}
    /\ MaxFrameLength \in Nat
    /\ Boundary \in Nat \ {0}
    /\ NoHeader \notin Nat
    /\ MaxSends \in Nat

VARIABLES
    sent,      \* history: the messages encoded, in order
    sending,   \* whether a call of send is under way
    flushed,   \* history: how many messages' sends have completed
    wbuf,      \* Framed's write buffer
    wire,      \* bytes in the transport
    finished,  \* whether the sender's end of the stream is gone
    rbuf,      \* Framed's read buffer
    need,      \* the decoder's state: the length of the payload, or NoHeader
    state,     \* "open", "ended" (receive returned None) or "failed"
    received   \* the payloads received, in order

sender   == <<sent, sending, flushed, wbuf, finished>>
receiver == <<rbuf, need, state, received>>
vars     == <<sender, wire, receiver>>

\* A byte is known by the frame and the place in it that it was written for.
Byte(i, k) == [frame |-> i, at |-> k]

Frame(i, m) == [k \in 1 .. HeaderLen + Size[m] |-> Byte(i, k)]

Payload(i) == [k \in 1 .. Size[sent[i]] |-> Byte(i, HeaderLen + k)]

Take(s, n) == SubSeq(s, 1, n)
Drop(s, n) == SubSeq(s, n + 1, Len(s))

Init ==
    /\ sent = <<>>
    /\ sending = FALSE
    /\ flushed = 0
    /\ wbuf = <<>>
    /\ wire = <<>>
    /\ finished = FALSE
    /\ rbuf = <<>>
    /\ need = NoHeader
    /\ state = "open"
    /\ received = <<>>

-----------------------------------------------------------------------------
(* The sender.                                                             *)

Encode(m) ==
    /\ sent' = Append(sent, m)
    /\ wbuf' = wbuf \o Frame(Len(sent'), m)

\* send: a frame is put behind what is still in the buffer.  A message above
\* the limit is refused, and nothing changes.
Send(m) ==
    /\ ~ finished /\ ~ sending /\ Len(sent) < MaxSends
    /\ Size[m] <= MaxFrameLength
    /\ Len(wbuf) < Boundary
    /\ Encode(m)
    /\ sending' = TRUE
    /\ UNCHANGED <<flushed, wire, finished, receiver>>

\* A peer that does not use this library, and has no limit, sends too.
SendUnlimited(m) ==
    /\ ~ finished /\ ~ sending /\ Len(sent) < MaxSends
    /\ Size[m] > MaxFrameLength
    /\ Encode(m)
    /\ sending' = TRUE
    /\ UNCHANGED <<flushed, wire, finished, receiver>>

\* Framed writes some bytes.  It does so within a call of send only; the next
\* send flushes a buffer that is full.
Write ==
    /\ ~ finished
    /\ sending \/ Len(wbuf) >= Boundary
    /\ \E n \in 1 .. Len(wbuf) :
            /\ wire' = wire \o Take(wbuf, n)
            /\ wbuf' = Drop(wbuf, n)
    /\ UNCHANGED <<sent, sending, flushed, finished, receiver>>

\* The buffer is empty: send returns.
SendDone ==
    /\ ~ finished /\ sending /\ wbuf = <<>>
    /\ sending' = FALSE
    /\ flushed' = Len(sent)
    /\ UNCHANGED <<sent, wbuf, finished, wire, receiver>>

\* Mutant of Cancel: the rest of the frame goes with the future.
CancelAndClear ==
    /\ ~ finished /\ sending
    /\ sending' = FALSE
    /\ wbuf' = <<>>
    /\ UNCHANGED <<sent, flushed, finished, wire, receiver>>

\* The future of send is dropped.  The buffer belongs to the stream.
Cancel ==
    /\ ~ finished /\ sending
    /\ sending' = FALSE
    /\ UNCHANGED <<sent, flushed, wbuf, finished, wire, receiver>>

\* The sender drops the stream, which finishes it; the buffer is lost.
Finish ==
    /\ ~ finished
    /\ finished' = TRUE
    /\ sending' = FALSE
    /\ wbuf' = <<>>
    /\ UNCHANGED <<sent, flushed, wire, receiver>>

-----------------------------------------------------------------------------
(* The receiver: steps of a call of receive.  Dropping its future leaves   *)
(* all of this as it is.                                                   *)

HasHeader  == need = NoHeader /\ Len(rbuf) >= HeaderLen
HasPayload == need # NoHeader /\ Len(rbuf) >= need

\* Mutant of DecodeHead: the length is not checked.
DecodeHeadUnchecked ==
    /\ state = "open" /\ HasHeader
    /\ need' = Size[sent[rbuf[1].frame]]
    /\ rbuf' = Drop(rbuf, HeaderLen)
    /\ UNCHANGED <<state, received, wire, sender>>

\* The length in the header is read and checked.
DecodeHead ==
    /\ state = "open" /\ HasHeader
    /\ LET n == Size[sent[rbuf[1].frame]]
       IN  IF n > MaxFrameLength
           THEN state' = "failed" /\ UNCHANGED <<rbuf, need>>
           ELSE need' = n /\ rbuf' = Drop(rbuf, HeaderLen) /\ UNCHANGED state
    /\ UNCHANGED <<received, wire, sender>>

\* Mutant of DecodePayload: a payload is returned after an error too.
DecodePayloadAnyway ==
    /\ HasPayload
    /\ received' = Append(received, Take(rbuf, need))
    /\ rbuf' = Drop(rbuf, need)
    /\ need' = NoHeader
    /\ UNCHANGED <<state, wire, sender>>

\* The payload is there: receive returns it.
DecodePayload ==
    /\ state = "open" /\ HasPayload
    /\ received' = Append(received, Take(rbuf, need))
    /\ rbuf' = Drop(rbuf, need)
    /\ need' = NoHeader
    /\ UNCHANGED <<state, wire, sender>>

\* There is less than it takes: read some more.
Read ==
    /\ state = "open" /\ ~ HasHeader /\ ~ HasPayload
    /\ \E n \in 1 .. Len(wire) :
            /\ rbuf' = rbuf \o Take(wire, n)
            /\ wire' = Drop(wire, n)
    /\ UNCHANGED <<need, state, received, sender>>

\* Mutant of ReadEnd: the end of the stream overtakes the bytes before it.
ReadEndEarly ==
    /\ state = "open" /\ ~ HasHeader /\ ~ HasPayload
    /\ finished
    /\ state' = IF rbuf = <<>> THEN "ended" ELSE "failed"
    /\ UNCHANGED <<rbuf, need, received, wire, sender>>

\* The stream is at its end.  Bytes left over are an error; a header that has
\* been taken out of the buffer is not noticed.
ReadEnd ==
    /\ state = "open" /\ ~ HasHeader /\ ~ HasPayload
    /\ finished /\ wire = <<>>
    /\ state' = IF rbuf = <<>> THEN "ended" ELSE "failed"
    /\ UNCHANGED <<rbuf, need, received, wire, sender>>

\* The connection is lost, with all that is under way.
Lose ==
    /\ state = "open"
    /\ state' = "failed"
    /\ finished' = TRUE
    /\ sending' = FALSE
    /\ wbuf' = <<>>
    /\ wire' = <<>>
    /\ UNCHANGED <<sent, flushed, rbuf, need, received>>

-----------------------------------------------------------------------------

Decode == DecodeHead \/ DecodePayload \/ Read \/ ReadEnd

Next ==
    \/ \E m \in Messages : Send(m) \/ SendUnlimited(m)
    \/ Write \/ SendDone \/ Cancel \/ Finish
    \/ Decode \/ Lose

Spec == Init /\ [][Next]_vars

\* The receiver goes on receiving, as handle_session and the client's handler
\* do.  Nobody need send, finish or lose anything.
FairSpec == Spec /\ WF_vars(Decode)

-----------------------------------------------------------------------------
(* Properties.                                                             *)

\* However the bytes are cut, and whatever is cancelled in the middle, the
\* messages received are the first of those sent, byte for byte.
FramesIntact ==
    /\ Len(received) <= Len(sent)
    /\ \A i \in 1 .. Len(received) : received[i] = Payload(i)

\* No message above the limit is received, whoever sends it.
WithinLimit == \A i \in 1 .. Len(received) : Len(received[i]) <= MaxFrameLength

\* A message whose send has returned is received, even if the sender drops
\* the stream then, unless receiving fails; so the end of the stream is
\* reported after all of them.
FlushedIsReceived ==
    \A i \in 1 .. MaxSends :
        flushed >= i ~> (Len(received) >= i \/ state = "failed")

\* What has been received at place i: the message sent there, or nothing that
\* was ever sent.
MessageAt(i) ==
    IF i <= Len(sent) /\ received[i] = Payload(i) THEN sent[i] ELSE NoHeader

\* The stream is a queue of messages.
Queue == INSTANCE MessageQueue WITH
    received <- [i \in 1 .. Len(received) |-> MessageAt(i)],
    over <- state # "open"

ImplementsQueue == Queue!Spec

=============================================================================
