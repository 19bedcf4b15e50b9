------------------------------ MODULE Framing -------------------------------
(***************************************************************************)
(* Length-prefixed frames over a TCP connection                            *)
(* (phase5/src/network/framing.cpp): one direction of a socket, written by *)
(* some threads of one process and read by one thread of another.          *)
(*                                                                         *)
(* send_frame is two calls of send_all, each of which is a loop of sends   *)
(* that take as many bytes as there is room for; receive_frame is two      *)
(* calls of recv_all.  No lock is held: the bytes of two threads that send *)
(* on one socket come in the order of their sends.  A byte is a number     *)
(* below Base, and the length takes HeaderLen of them, where the code has  *)
(* 256 and 4.  The payload of an encrypted frame (send_frame_enc and       *)
(* receive_frame_enc) is its ciphertext, which only decrypts as it was     *)
(* sent; the one of a plain frame (send_frame, receive_frame: the whole of *)
(* phase 1) is taken for what it is.                                       *)
(***************************************************************************)
EXTENDS Naturals, Sequences, SequencesExt

CONSTANTS
  Thread,     \* threads that send
  Base, HeaderLen,
  Payload,    \* payloads, as sequences of bytes
  Encrypted,  \* whether the frames are encrypted
  Room,       \* bytes the connection holds
  MaxFrames   \* bound: frames a thread sends

\* A payload is shorter than the length field can say (2^32 bytes).
ASSUME ModeAssumption == Encrypted \in BOOLEAN
ASSUME PayloadAssumption ==
  /\ Base \in Nat \ {0, 1} /\ HeaderLen \in Nat \ {0} /\ Room \in Nat \ {0}
  /\ MaxFrames \in Nat
  /\ \A p \in Payload : p \in Seq(0..Base - 1) /\ Len(p) < Base ^ HeaderLen

VARIABLES
  begun,     \* begun[t]: payloads that t has called send_frame with
  rest,      \* rest[t]: what is left of the buffer in its current send_all
  body,      \* body[t]: the payload, for the second send_all, in a set
  open,      \* whether the sending process has the socket open
  wire,      \* bytes in the connection
  reader,    \* "length" or "payload", what it reads; "ended", "failed", "gone"
  want,      \* bytes its current recv_all is called for
  have,      \* bytes it has of them
  received   \* payloads returned by receive_frame

senderVars == <<begun, rest, body, open>>
readerVars == <<reader, want, have, received>>
vars == <<senderVars, wire, readerVars>>

htonl(n) == [i \in 1..HeaderLen |-> (n \div Base ^ (HeaderLen - i)) % Base]
ntohl(b) == FoldLeft(LAMBDA acc, x : acc * Base + x, 0, b)

\* The first n elements of s, and the others.
Take(s, n) == SubSeq(s, 1, n)
Drop(s, n) == SubSeq(s, n + 1, Len(s))

Init ==
  /\ begun = [t \in Thread |-> <<>>]
  /\ rest = [t \in Thread |-> <<>>]
  /\ body = [t \in Thread |-> {}]
  /\ open = TRUE
  /\ wire = <<>>
  /\ reader = "length"
  /\ want = HeaderLen
  /\ have = <<>>
  /\ received = <<>>

-----------------------------------------------------------------------------
(* The threads that send.                                                  *)

Idle(t) == rest[t] = <<>>

send_frame(t, p) ==
  /\ open /\ Idle(t) /\ Len(begun[t]) < MaxFrames
  /\ begun' = [begun EXCEPT ![t] = Append(@, p)]
  /\ rest' = [rest EXCEPT ![t] = htonl(Len(p))]
  /\ body' = [body EXCEPT ![t] = {p}]
  /\ UNCHANGED <<open, wire, readerVars>>

\* Faulty variant: a send that takes a part of the buffer counts as all of it.
send_once(t) ==
  /\ open /\ ~Idle(t) /\ reader # "gone"
  /\ \E n \in 1..Len(rest[t]) :
       /\ Len(wire) + n <= Room
       /\ wire' = wire \o Take(rest[t], n)
       /\ rest' = [rest EXCEPT ![t] = IF body[t] = {} THEN <<>> ELSE CHOOSE p \in body[t] : TRUE]
       /\ body' = [body EXCEPT ![t] = {}]
  /\ UNCHANGED <<begun, open, readerVars>>

\* One send in the loop of send_all; at the end of the first buffer the second
\* is begun.
send_all(t) ==
  /\ open /\ ~Idle(t) /\ reader # "gone"
  /\ \E n \in 1..Len(rest[t]) :
       /\ Len(wire) + n <= Room
       /\ wire' = wire \o Take(rest[t], n)
       /\ IF n < Len(rest[t])
            THEN rest' = [rest EXCEPT ![t] = Drop(@, n)] /\ UNCHANGED body
            ELSE /\ rest' = [rest EXCEPT ![t] =
                               IF body[t] = {} THEN <<>> ELSE CHOOSE p \in body[t] : TRUE]
                 /\ body' = [body EXCEPT ![t] = {}]
  /\ UNCHANGED <<begun, open, readerVars>>

\* send answers -1 when the reader's process has gone: send_frame returns.
SendFails(t) ==
  /\ open /\ ~Idle(t) /\ reader = "gone"
  /\ rest' = [rest EXCEPT ![t] = <<>>]
  /\ body' = [body EXCEPT ![t] = {}]
  /\ UNCHANGED <<begun, open, wire, readerVars>>

\* The process closes the socket or ends, in the middle of a frame perhaps.
Close ==
  /\ open /\ open' = FALSE
  /\ UNCHANGED <<begun, rest, body, wire, readerVars>>

-----------------------------------------------------------------------------
(* The thread that receives.                                               *)

Reading == reader \in {"length", "payload"}

\* Faulty variant: the buffer still has the last payload in it.
ReturnsKept(p) ==
  /\ received' = Append(received, p)
  /\ reader' = "length" /\ want' = HeaderLen /\ have' = p

\* aes_gcm_decrypt: p is what one of the threads encrypted.
Decrypts(p) == \E t \in Thread : p \in ToSet(begun[t])

\* receive_frame returns the payload p and is called again.
Returns(p) ==
  /\ received' = Append(received, p)
  /\ reader' = "length" /\ want' = HeaderLen /\ have' = <<>>

\* Faulty variant: recv is called for the whole length again.
recv_again ==
  /\ Reading
  /\ \E n \in 1..want :
       /\ n <= Len(wire) /\ Len(have) < want
       /\ wire' = Drop(wire, n)
       /\ have' = have \o Take(wire, n)
  /\ UNCHANGED <<senderVars, reader, want, received>>

\* One recv in the loop of recv_all.
recv_all ==
  /\ Reading
  /\ \E n \in 1..(want - Len(have)) :
       /\ n <= Len(wire)
       /\ wire' = Drop(wire, n)
       /\ have' = have \o Take(wire, n)
  /\ UNCHANGED <<senderVars, reader, want, received>>

\* "Decryption failed": receive_frame_enc answers false, and nobody reads the
\* connection any more.
Rejects ==
  /\ reader' = "failed"
  /\ UNCHANGED <<want, have, received>>

\* The loop is over: after the length comes the payload, which may be empty.
receive_frame ==
  /\ Reading /\ Len(have) = want
  /\ IF reader = "length"
       THEN /\ reader' = "payload" /\ want' = ntohl(have) /\ have' = <<>>
            /\ UNCHANGED received
       ELSE IF Encrypted => Decrypts(have) THEN Returns(have) ELSE Rejects
  /\ UNCHANGED <<senderVars, wire>>

\* Faulty variant: recv answers 0 and the loop goes on.
EndIgnored == Reading /\ ~open /\ wire = <<>> /\ UNCHANGED vars

\* recv answers 0 at the end of the stream, and the reader stops.
EndOfStream ==
  /\ Reading /\ ~open /\ wire = <<>> /\ Len(have) < want
  /\ reader' = "ended"
  /\ UNCHANGED <<senderVars, wire, want, have, received>>

\* The process of the reader ends, or closes the socket after a failure.
ReaderDies ==
  /\ Reading \/ reader = "failed"
  /\ reader' = "gone"
  /\ UNCHANGED <<senderVars, wire, want, have, received>>

Reader == recv_all \/ receive_frame \/ EndOfStream

Next ==
  \/ \E t \in Thread : (\E p \in Payload : send_frame(t, p)) \/ send_all(t) \/ SendFails(t)
  \/ Close \/ Reader \/ ReaderDies

Spec == Init /\ [][Next]_vars

\* Threads that are in a send or a receive run on; nobody need send or close.
FairSpec == Spec /\ WF_vars(Reader) /\ \A t \in Thread : WF_vars(send_all(t))

-----------------------------------------------------------------------------
(* Properties.                                                             *)

TypeOK ==
  /\ begun \in [Thread -> Seq(Payload)]
  /\ \A t \in Thread : Len(begun[t]) <= MaxFrames
  /\ rest \in [Thread -> Seq(0..Base - 1)]
  /\ body \in [Thread -> SUBSET Payload]
  /\ open \in BOOLEAN
  /\ wire \in Seq(0..Base - 1) /\ Len(wire) <= Room
  /\ reader \in {"length", "payload", "ended", "failed", "gone"}
  /\ want \in 0..Base ^ HeaderLen - 1 \cup {HeaderLen}
  /\ have \in Seq(0..Base - 1) /\ Len(have) <= want
  /\ received \in Seq(Seq(0..Base - 1))

\* The length field is read as it was written, and any bytes in its place are
\* read as some length: htonl, the memcpy of its bytes and ntohl agree on the
\* order of the bytes.  MCFraming has TLC evaluate it; the proofs have it as a
\* hypothesis.
LengthsReadBack ==
  /\ \A n \in 0..Base ^ HeaderLen - 1 : ntohl(htonl(n)) = n
  /\ \A b \in [1..HeaderLen -> 0..Base - 1] : ntohl(b) \in 0..Base ^ HeaderLen - 1

\* Whatever the sends and receives take at a time, and wherever the sender
\* stops, what is received are the payloads sent, whole and in order.
\* (For one sending thread.)
ReceivedIsPrefix == \A t \in Thread : IsPrefix(received, begun[t])

\* A frame that was begun arrives, however little room there is, and decrypts,
\* unless one of the processes stops.
FramesArrive ==
  \A t \in Thread : \A k \in 1..MaxFrames :
    Len(begun[t]) >= k ~> Len(received) >= k \/ ~open \/ reader = "gone"

\* When the sender has closed, the reader does not wait for ever.
ReaderEnds == ~open ~> ~Reading

\* "The receiver would read the 4-byte length first and then read exactly that
\* many payload bytes." (phase1/include/protocol.hpp:42-43): what it returns is
\* a payload that was sent, whichever thread of the sender sent it.
ReceivesPayloads ==
  \A i \in 1..Len(received) : \E t \in Thread : received[i] \in ToSet(begun[t])
=============================================================================
