--------------------------- MODULE FramingProofs ----------------------------
(***************************************************************************)
(* Proofs about Framing: the types, and that one thread's frames arrive    *)
(* whole and in order, for every size of bytes, lengths and connections.   *)
(***************************************************************************)
EXTENDS Framing, TLAPS

Byte == 0..Base - 1

(***************************************************************************)
(* The inductive invariant for one sending thread t.  A tape T has all the *)
(* frames that t has begun, frame k after the position c[k].  What the     *)
(* reader has, the connection holds and the sender has left lie on it one  *)
(* after the other, up to its end.                                         *)
(***************************************************************************)
\* The sequence s lies on T after position o.
LiesOn(s, T, o) == o + Len(s) <= Len(T) /\ \A i \in 1..Len(s) : s[i] = T[o + i]

Frames(t) == Len(begun[t])
BodyLen(t) == IF body[t] = {} THEN 0 ELSE Len(CHOOSE p \in body[t] : TRUE)
\* Where what the reader has begins.
From(c) == c[Len(received) + 1] + (IF reader = "payload" THEN HeaderLen ELSE 0)

Tape(t, T, c) ==
  /\ T \in Seq(Byte) /\ c \in [1..Frames(t) + 1 -> Nat]
  /\ c[Frames(t) + 1] = Len(T)
  /\ \A k \in 1..Frames(t) : /\ c[k + 1] = c[k] + HeaderLen + Len(begun[t][k])
                             /\ LiesOn(htonl(Len(begun[t][k])), T, c[k])
                             /\ LiesOn(begun[t][k], T, c[k] + HeaderLen)
Places(t, T, o) ==
  /\ LiesOn(have, T, o)
  /\ LiesOn(wire, T, o + Len(have))
  /\ LiesOn(rest[t], T, o + Len(have) + Len(wire))
  /\ \A p \in body[t] : /\ body[t] = {p}
                        /\ LiesOn(p, T, o + Len(have) + Len(wire) + Len(rest[t]))
  /\ o + Len(have) + Len(wire) + Len(rest[t]) + BodyLen(t) = Len(T)
Awaited(t) ==
  reader = "payload" => /\ Len(received) < Frames(t)
                        /\ want = Len(begun[t][Len(received) + 1])
Delivered(t) ==
  /\ Len(received) <= Frames(t)
  /\ \A k \in 1..Len(received) : received[k] = begun[t][k]
Laid(t) == \E T, c : Tape(t, T, c) /\ Places(t, T, From(c))

PInv(t) ==
  /\ Delivered(t)
  /\ Idle(t) => body[t] = {}
  /\ Reading => Awaited(t) /\ Laid(t)

(***************************************************************************)
(* Sequences on a tape.                                                    *)
(***************************************************************************)
LEMMA ElementIn ==
  ASSUME NEW S, NEW s \in Seq(S), NEW i \in 1..Len(s)
  PROVE  s[i] \in ToSet(s)
BY DEF ToSet

LEMMA LiesUnique ==
  ASSUME NEW S, NEW s \in Seq(S), NEW r \in Seq(S), NEW T, NEW o,
         LiesOn(s, T, o), LiesOn(r, T, o), Len(s) = Len(r)
  PROVE  s = r
<1>1. \A i \in 1..Len(s) : s[i] = r[i]
  BY DEF LiesOn
<1> QED BY <1>1

LEMMA LiesSplit ==
  ASSUME NEW S, NEW s \in Seq(S), NEW n \in 1..Len(s), NEW T \in Seq(S), NEW o \in Nat,
         LiesOn(s, T, o)
  PROVE  /\ Take(s, n) \in Seq(S) /\ Len(Take(s, n)) = n /\ LiesOn(Take(s, n), T, o)
         /\ Drop(s, n) \in Seq(S) /\ Len(Drop(s, n)) = Len(s) - n
         /\ LiesOn(Drop(s, n), T, o + n)
<1>1. n \in Nat /\ Len(s) \in Nat /\ n <= Len(s) /\ 1 <= n /\ Len(T) \in Nat
  OBVIOUS
<1>2. /\ Take(s, n) \in Seq(S) /\ Len(Take(s, n)) = n
      /\ \A i \in 1..n : Take(s, n)[i] = s[i]
  BY <1>1 DEF Take
<1>3. /\ Drop(s, n) \in Seq(S) /\ Len(Drop(s, n)) = Len(s) - n
      /\ \A i \in 1..Len(s) - n : Drop(s, n)[i] = s[i + n]
  BY <1>1 DEF Drop
<1>4. LiesOn(Take(s, n), T, o)
  <2>1. o + n <= Len(T)
    BY <1>1 DEF LiesOn
  <2>2. ASSUME NEW i \in 1..n PROVE Take(s, n)[i] = T[o + i]
    <3>1. i \in 1..Len(s)
      BY <1>1
    <3> QED BY <3>1, <1>2 DEF LiesOn
  <2> QED BY <2>1, <2>2, <1>2 DEF LiesOn
<1>5. LiesOn(Drop(s, n), T, o + n)
  <2>1. o + Len(s) <= Len(T) /\ \A i \in 1..Len(s) : s[i] = T[o + i]
    BY DEF LiesOn
  <2>2. (o + n) + (Len(s) - n) <= Len(T)
    BY <2>1, <1>1
  <2>3. ASSUME NEW i \in 1..Len(s) - n PROVE Drop(s, n)[i] = T[(o + n) + i]
    <3>1. i + n \in 1..Len(s) /\ o + (i + n) = (o + n) + i
      BY <1>1
    <3> QED BY <3>1, <2>1, <1>3
  <2> QED BY <2>2, <2>3, <1>3 DEF LiesOn
<1> QED BY <1>2, <1>3, <1>4, <1>5

LEMMA LiesCat ==
  ASSUME NEW S, NEW s \in Seq(S), NEW r \in Seq(S), NEW T \in Seq(S), NEW o \in Nat,
         LiesOn(s, T, o), LiesOn(r, T, o + Len(s))
  PROVE  s \o r \in Seq(S) /\ Len(s \o r) = Len(s) + Len(r) /\ LiesOn(s \o r, T, o)
<1>1. Len(s) \in Nat /\ Len(r) \in Nat /\ Len(T) \in Nat
  OBVIOUS
<1>2. s \o r \in Seq(S) /\ Len(s \o r) = Len(s) + Len(r)
  OBVIOUS
<1>3. ASSUME NEW i \in 1..Len(s) + Len(r) PROVE (s \o r)[i] = T[o + i]
  <2>1. CASE i <= Len(s)
    <3>1. i \in 1..Len(s) /\ (s \o r)[i] = s[i]
      BY <2>1, <1>1
    <3> QED BY <3>1 DEF LiesOn
  <2>2. CASE i > Len(s)
    <3>1. i - Len(s) \in 1..Len(r) /\ (s \o r)[i] = r[i - Len(s)]
      BY <2>2, <1>1
    <3>2. (o + Len(s)) + (i - Len(s)) = o + i
      BY <1>1
    <3> QED BY <3>1, <3>2 DEF LiesOn
  <2> QED BY <2>1, <2>2, <1>1
<1>4. o + (Len(s) + Len(r)) <= Len(T)
  BY <1>1 DEF LiesOn
<1> QED BY <1>2, <1>3, <1>4 DEF LiesOn

LEMMA LiesLonger ==
  ASSUME NEW S, NEW s \in Seq(S), NEW T \in Seq(S), NEW r \in Seq(S), NEW o \in Nat,
         LiesOn(s, T, o)
  PROVE  LiesOn(s, T \o r, o)
<1>1. Len(s) \in Nat /\ Len(r) \in Nat /\ Len(T) \in Nat /\ Len(T \o r) = Len(T) + Len(r)
  OBVIOUS
<1>2. ASSUME NEW i \in 1..Len(s) PROVE s[i] = (T \o r)[o + i]
  <2>1. o + i \in 1..Len(T)
    BY <1>1 DEF LiesOn
  <2>2. (T \o r)[o + i] = T[o + i]
    BY <2>1, <1>1
  <2> QED BY <2>2 DEF LiesOn
<1> QED BY <1>1, <1>2 DEF LiesOn

LEMMA LiesLast ==
  ASSUME NEW S, NEW T \in Seq(S), NEW r \in Seq(S)
  PROVE  LiesOn(r, T \o r, Len(T))
<1>1. Len(r) \in Nat /\ Len(T) \in Nat /\ Len(T \o r) = Len(T) + Len(r)
  OBVIOUS
<1>2. ASSUME NEW i \in 1..Len(r) PROVE r[i] = (T \o r)[Len(T) + i]
  BY <1>1
<1> QED BY <1>1, <1>2 DEF LiesOn

LEMMA LiesNone ==
  ASSUME NEW T, NEW o, o <= Len(T), o \in Nat
  PROVE  LiesOn(<<>>, T, o)
BY DEF LiesOn

(***************************************************************************)
(* Types.  A length that the reader computes is in range because any bytes *)
(* are read as some length.                                                *)
(***************************************************************************)
LEMMA PayloadTyped ==
  ASSUME NEW p \in Payload
  PROVE  p \in Seq(Byte) /\ Len(p) \in 0..Base ^ HeaderLen - 1
<1>1. p \in Seq(Byte) /\ Len(p) < Base ^ HeaderLen
  BY PayloadAssumption DEF Byte
<1>2. Base ^ HeaderLen \in Int /\ Len(p) \in Nat
  BY <1>1, PayloadAssumption
<1> QED BY <1>1, <1>2

LEMMA LengthTyped ==
  ASSUME NEW n \in 0..Base ^ HeaderLen - 1
  PROVE  htonl(n) \in Seq(Byte) /\ Len(htonl(n)) = HeaderLen /\ htonl(n) # <<>>
BY PayloadAssumption DEF htonl, Byte

\* With the types: a length is as long as the code says.
HeaderAsked == reader = "length" => want = HeaderLen
TInv == TypeOK /\ HeaderAsked

LEMMA InitTInv == Init => TInv
<1> SUFFICES ASSUME Init PROVE TInv
  OBVIOUS
<1>1. HeaderLen \in Nat /\ Room \in Nat /\ MaxFrames \in Nat
  BY PayloadAssumption
<1> QED BY <1>1 DEF Init, TInv, TypeOK, HeaderAsked

LEMMA SendTyped ==
  ASSUME TypeOK, NEW t \in Thread, send_all(t)
  PROVE  /\ rest' \in [Thread -> Seq(Byte)] /\ body' \in [Thread -> SUBSET Payload]
         /\ wire' \in Seq(Byte) /\ Len(wire') <= Room
<1>1. /\ rest \in [Thread -> Seq(Byte)] /\ body \in [Thread -> SUBSET Payload]
      /\ wire \in Seq(Byte) /\ rest[t] \in Seq(Byte)
  BY DEF TypeOK, Byte
<1>2. PICK n \in 1..Len(rest[t]) :
        /\ Len(wire) + n <= Room
        /\ wire' = wire \o Take(rest[t], n)
        /\ IF n < Len(rest[t])
             THEN rest' = [rest EXCEPT ![t] = Drop(@, n)] /\ UNCHANGED body
             ELSE /\ rest' = [rest EXCEPT ![t] =
                                IF body[t] = {} THEN <<>> ELSE CHOOSE p \in body[t] : TRUE]
                  /\ body' = [body EXCEPT ![t] = {}]
  BY DEF send_all
<1>3. /\ Take(rest[t], n) \in Seq(Byte) /\ Len(Take(rest[t], n)) = n
      /\ Drop(rest[t], n) \in Seq(Byte)
  BY <1>1 DEF Take, Drop
<1>4. wire' \in Seq(Byte) /\ Len(wire') <= Room
  BY <1>1, <1>2, <1>3
<1>5. body[t] # {} => (CHOOSE p \in body[t] : TRUE) \in Seq(Byte)
  <2>1. body[t] # {} => (CHOOSE p \in body[t] : TRUE) \in Payload
    BY <1>1
  <2> QED BY <2>1, PayloadTyped
<1>6. <<>> \in Seq(Byte)
  OBVIOUS
<1>7. CASE n < Len(rest[t])
  BY <1>1, <1>2, <1>3, <1>4, <1>7
<1>8. CASE ~(n < Len(rest[t]))
  BY <1>1, <1>2, <1>4, <1>5, <1>6, <1>8
<1> QED BY <1>7, <1>8

LEMMA ReceiveTyped ==
  ASSUME TypeOK, recv_all
  PROVE  /\ wire' \in Seq(Byte) /\ Len(wire') <= Room
         /\ have' \in Seq(Byte) /\ Len(have') <= want
<1>1. /\ wire \in Seq(Byte) /\ Len(wire) <= Room /\ Len(wire) \in Nat /\ Room \in Nat
      /\ have \in Seq(Byte) /\ Len(have) <= want /\ Len(have) \in Nat
  BY PayloadAssumption DEF TypeOK, Byte
<1>2. want \in Nat
  BY PayloadAssumption DEF TypeOK
<1>3. PICK n \in 1..(want - Len(have)) :
        n <= Len(wire) /\ wire' = Drop(wire, n) /\ have' = have \o Take(wire, n)
  BY DEF recv_all
<1>4. n \in 1..Len(wire) /\ n <= want - Len(have)
  BY <1>1, <1>2, <1>3
<1>5. /\ Take(wire, n) \in Seq(Byte) /\ Len(Take(wire, n)) = n
      /\ Drop(wire, n) \in Seq(Byte) /\ Len(Drop(wire, n)) = Len(wire) - n
  BY <1>1, <1>4 DEF Take, Drop
<1> QED BY <1>1, <1>2, <1>3, <1>4, <1>5

LEMMA LengthBytes ==
  ASSUME NEW b \in Seq(Byte), Len(b) = HeaderLen
  PROVE  b \in [1..HeaderLen -> 0..Base - 1]
<1>1. b \in [1..Len(b) -> Byte]
  OBVIOUS
<1> QED BY <1>1 DEF Byte

LEMMA NextTypeOK == LengthsReadBack /\ TInv /\ [Next]_vars => TypeOK'
<1> SUFFICES ASSUME LengthsReadBack, TypeOK, HeaderAsked, [Next]_vars PROVE TypeOK'
  BY DEF TInv
<1> USE DEF senderVars, readerVars
<1>1. CASE UNCHANGED vars
  BY <1>1 DEF vars, TypeOK
<1>2. ASSUME NEW t \in Thread, NEW p \in Payload, send_frame(t, p) PROVE TypeOK'
  <2>1. htonl(Len(p)) \in Seq(Byte)
    BY PayloadTyped, LengthTyped
  <2>2. /\ begun' = [begun EXCEPT ![t] = Append(@, p)] /\ Len(begun[t]) < MaxFrames
        /\ rest' = [rest EXCEPT ![t] = htonl(Len(p))] /\ body' = [body EXCEPT ![t] = {p}]
        /\ UNCHANGED <<open, wire, readerVars>>
    BY <1>2 DEF send_frame
  <2>3. begun' \in [Thread -> Seq(Payload)] /\ \A u \in Thread : Len(begun'[u]) <= MaxFrames
    <3>1. /\ begun[t] \in Seq(Payload) /\ Append(begun[t], p) \in Seq(Payload)
          /\ Len(Append(begun[t], p)) = Len(begun[t]) + 1 /\ Len(begun[t]) \in Nat
      BY DEF TypeOK
    <3>2. MaxFrames \in Nat
      BY PayloadAssumption
    <3> QED BY <2>2, <3>1, <3>2 DEF TypeOK
  <2> QED BY <2>1, <2>2, <2>3 DEF TypeOK, Byte
<1>3. ASSUME NEW t \in Thread, send_all(t) PROVE TypeOK'
  <2>1. UNCHANGED <<begun, open, readerVars>>
    BY <1>3 DEF send_all
  <2> QED BY <2>1, <1>3, SendTyped DEF TypeOK, Byte
<1>4. ASSUME NEW t \in Thread, SendFails(t) PROVE TypeOK'
  BY <1>4 DEF SendFails, TypeOK
<1>5. CASE Close \/ EndOfStream \/ ReaderDies
  BY <1>5 DEF Close, EndOfStream, ReaderDies, TypeOK
<1>6. CASE recv_all
  <2>1. UNCHANGED <<senderVars, reader, want, received>>
    BY <1>6 DEF recv_all
  <2> QED BY <2>1, <1>6, ReceiveTyped DEF TypeOK, Byte
<1>7. CASE receive_frame
  <2>1. have \in Seq(Byte) /\ Len(have) = want /\ UNCHANGED <<senderVars, wire>>
    BY <1>7 DEF receive_frame, TypeOK, Byte
  <2>2. HeaderLen \in Nat
    BY PayloadAssumption
  <2>3. CASE reader = "length"
    <3>1. reader' = "payload" /\ want' = ntohl(have) /\ have' = <<>> /\ received' = received
      BY <1>7, <2>3 DEF receive_frame
    <3>2. have \in [1..HeaderLen -> 0..Base - 1]
      BY <2>1, <2>3, LengthBytes DEF HeaderAsked
    <3>3. want' \in 0..Base ^ HeaderLen - 1
      BY <3>1, <3>2 DEF LengthsReadBack
    <3>4. want' \in Nat /\ Len(<<>>) = 0 /\ <<>> \in Seq(0..Base - 1)
      BY <3>3, PayloadAssumption
    <3> QED BY <2>1, <3>1, <3>3, <3>4 DEF TypeOK
  <2>4. CASE reader # "length"
    <3>1. Returns(have) \/ Rejects
      BY <1>7, <2>4 DEF receive_frame
    <3>2. CASE Returns(have)
      BY <2>1, <2>2, <3>2 DEF Returns, TypeOK, Byte
    <3>3. CASE Rejects
      BY <2>1, <3>3 DEF Rejects, TypeOK, Byte
    <3> QED BY <3>1, <3>2, <3>3
  <2> QED BY <2>3, <2>4
<1> QED BY <1>1, <1>2, <1>3, <1>4, <1>5, <1>6, <1>7 DEF Next, Reader

LEMMA NextHeaderAsked == HeaderAsked /\ [Next]_vars => HeaderAsked'
<1> SUFFICES ASSUME HeaderAsked, [Next]_vars PROVE HeaderAsked'
  OBVIOUS
<1> USE DEF HeaderAsked, readerVars
<1>1. ASSUME NEW t \in Thread, NEW p \in Payload, send_frame(t, p) PROVE HeaderAsked'
  BY <1>1 DEF send_frame
<1>2. ASSUME NEW t \in Thread, send_all(t) \/ SendFails(t) PROVE HeaderAsked'
  BY <1>2 DEF send_all, SendFails
<1>3. CASE receive_frame
  BY <1>3 DEF receive_frame, Returns, Rejects
<1>4. CASE UNCHANGED vars \/ Close \/ recv_all \/ EndOfStream \/ ReaderDies
  BY <1>4 DEF vars, Close, recv_all, EndOfStream, ReaderDies
<1> QED BY <1>1, <1>2, <1>3, <1>4 DEF Next, Reader

\* Every state has the types, whatever the threads send: with the lengths
\* read back, which is of numbers alone.
THEOREM TypeCorrect == LengthsReadBack /\ Spec => []TypeOK
<1> SUFFICES ASSUME LengthsReadBack PROVE Spec => []TypeOK
  OBVIOUS
<1>1. TInv /\ [Next]_vars => TInv'
  BY NextTypeOK, NextHeaderAsked DEF TInv
<1> QED BY <1>1, InitTInv, PTL DEF Spec, TInv

(***************************************************************************)
(* One thread's frames arrive whole and in order.                          *)
(***************************************************************************)
LEMMA Parts ==
  ASSUME TInv, NEW t \in Thread
  PROVE  /\ have \in Seq(Byte) /\ Len(have) \in Nat
         /\ wire \in Seq(Byte) /\ Len(wire) \in Nat
         /\ rest[t] \in Seq(Byte) /\ Len(rest[t]) \in Nat
         /\ begun[t] \in Seq(Payload) /\ Frames(t) \in Nat
         /\ body[t] \subseteq Payload /\ Len(received) \in Nat
         /\ HeaderLen \in Nat /\ HeaderLen > 0
BY PayloadAssumption DEF TInv, TypeOK, Byte, Frames

LEMMA FrameTyped ==
  ASSUME TInv, NEW t \in Thread, NEW k \in 1..Frames(t)
  PROVE  /\ begun[t][k] \in Seq(Byte) /\ Len(begun[t][k]) \in Nat
         /\ Len(begun[t][k]) \in 0..Base ^ HeaderLen - 1
<1>1. begun[t][k] \in Payload
  BY Parts DEF Frames
<1> QED BY <1>1, PayloadTyped

LEMMA FromTyped ==
  ASSUME TInv, NEW t \in Thread, NEW T, NEW c, Tape(t, T, c), Delivered(t)
  PROVE  From(c) \in Nat /\ c[Len(received) + 1] \in Nat /\ Len(T) \in Nat
<1>1. Len(received) + 1 \in 1..Frames(t) + 1
  BY Parts DEF Delivered
<1> QED BY <1>1, Parts DEF Tape, From

LEMMA BodyLenTyped ==
  ASSUME TInv, NEW t \in Thread
  PROVE  BodyLen(t) \in Nat
<1>1. CASE body[t] = {}
  BY <1>1 DEF BodyLen
<1>2. CASE body[t] # {}
  <2>1. (CHOOSE p \in body[t] : TRUE) \in Payload
    BY <1>2, Parts
  <2> QED BY <2>1, <1>2, PayloadTyped DEF BodyLen
<1> QED BY <1>1, <1>2

LEMMA InitPInv ==
  ASSUME Init, NEW t \in Thread
  PROVE  PInv(t)
<1>1. /\ begun[t] = <<>> /\ rest[t] = <<>> /\ body[t] = {} /\ wire = <<>>
      /\ reader = "length" /\ have = <<>> /\ received = <<>> /\ Len(<<>>) = 0
  BY DEF Init
<1>2. Delivered(t) /\ (Idle(t) => body[t] = {}) /\ Awaited(t) /\ Frames(t) = 0
  BY <1>1 DEF Delivered, Awaited, Frames
<1> DEFINE c == [k \in 1..1 |-> 0]
<1>3. From(c) = 0
  BY <1>1 DEF From
<1>4. Tape(t, <<>>, c)
  BY <1>1, <1>2 DEF Tape
<1>5. LiesOn(<<>>, <<>>, 0)
  BY LiesNone
<1>6. Places(t, <<>>, 0)
  BY <1>1, <1>5 DEF Places, BodyLen
<1>7. Laid(t)
  BY <1>3, <1>4, <1>6 DEF Laid
<1> QED BY <1>2, <1>7 DEF PInv

\* send_frame writes the frame at the end of the tape.
LEMMA SendFrameKeeps ==
  ASSUME TInv, NEW t \in Thread, PInv(t), NEW p \in Payload, send_frame(t, p)
  PROVE  PInv(t)'
<1> DEFINE H == htonl(Len(p))
<1>0. PICK m, F : m = Len(received) /\ F = Frames(t)
  OBVIOUS
<1>1. /\ H \in Seq(Byte) /\ Len(H) = HeaderLen /\ H # <<>>
      /\ p \in Seq(Byte) /\ Len(p) \in Nat
  BY PayloadTyped, LengthTyped
<1>2. /\ rest[t] = <<>> /\ Len(rest[t]) = 0 /\ body[t] = {} /\ BodyLen(t) = 0
  BY DEF send_frame, Idle, PInv, BodyLen
<1>3. /\ begun'[t] = Append(begun[t], p) /\ rest'[t] = H /\ body'[t] = {p}
      /\ wire' = wire /\ reader' = reader /\ want' = want /\ have' = have
      /\ received' = received
  BY DEF send_frame, readerVars, TInv, TypeOK
<1>4. /\ F \in Nat /\ m \in Nat /\ Frames(t)' = F + 1 /\ begun'[t][F + 1] = p
      /\ \A k \in 1..F : begun'[t][k] = begun[t][k]
  BY <1>0, <1>3, Parts DEF Frames
<1>5. /\ m <= F /\ \A k \in 1..m : received[k] = begun[t][k]
  BY <1>0 DEF PInv, Delivered
<1>6. Delivered(t)'
  <2>1. ASSUME NEW k \in 1..m PROVE received'[k] = begun'[t][k]
    <3>1. k \in 1..F
      BY <1>4, <1>5
    <3> QED BY <3>1, <1>3, <1>4, <1>5
  <2>2. Len(received') = m
    BY <1>0, <1>3
  <2> QED BY <2>1, <2>2, <1>4, <1>5 DEF Delivered
<1>7. ~Idle(t)'
  BY <1>1, <1>3 DEF Idle
<1>8. ASSUME Reading PROVE (Awaited(t) /\ Laid(t))'
  <2>1. Awaited(t) /\ Laid(t)
    BY <1>8 DEF PInv
  <2>2. Awaited(t)'
    <3>1. ASSUME reader = "payload" PROVE m < F /\ want = Len(begun[t][m + 1])
      BY <2>1, <3>1, <1>0 DEF Awaited
    <3>2. ASSUME reader = "payload" PROVE m < F + 1 /\ want = Len(begun'[t][m + 1])
      <4>1. m + 1 \in 1..F
        BY <3>1, <3>2, <1>4
      <4> QED BY <3>1, <3>2, <4>1, <1>4
    <3>3. Len(received)' = m
      BY <1>0, <1>3
    <3> QED BY <3>2, <3>3, <1>3, <1>4 DEF Awaited
  <2>3. PICK T, c : Tape(t, T, c) /\ Places(t, T, From(c))
    BY <2>1 DEF Laid
  <2> DEFINE U == (T \o H) \o p
             d == [k \in 1..F + 2 |-> IF k = F + 2 THEN Len(U) ELSE c[k]]
  <2>4. /\ T \in Seq(Byte) /\ Len(T) \in Nat /\ c \in [1..F + 1 -> Nat] /\ c[F + 1] = Len(T)
        /\ T \o H \in Seq(Byte) /\ Len(T \o H) = Len(T) + HeaderLen
        /\ U \in Seq(Byte) /\ Len(U) = Len(T) + HeaderLen + Len(p)
    BY <1>0, <1>1, <2>3, Parts DEF Tape
  <2>5. ASSUME NEW s \in Seq(Byte), NEW o \in Nat, LiesOn(s, T, o) PROVE LiesOn(s, U, o)
    BY <1>1, <2>4, <2>5, LiesLonger
  <2>6. LiesOn(H, U, Len(T)) /\ LiesOn(p, U, Len(T) + HeaderLen)
    <3>1. LiesOn(H, T \o H, Len(T)) /\ LiesOn(p, U, Len(T \o H))
      BY <1>1, <2>4, LiesLast
    <3> QED BY <1>1, <2>4, <3>1, LiesLonger
  <2>7. /\ d \in [1..F + 2 -> Nat] /\ d[F + 2] = Len(U)
        /\ \A k \in 1..F + 1 : d[k] = c[k]
    BY <1>1, <1>4, <2>4, Parts
  <2> HIDE DEF U, d
  <2>8. Tape(t, U, d)'
    <3>1. ASSUME NEW k \in 1..F + 1
          PROVE  /\ d[k + 1] = d[k] + HeaderLen + Len(begun'[t][k])
                 /\ LiesOn(htonl(Len(begun'[t][k])), U, d[k])
                 /\ LiesOn(begun'[t][k], U, d[k] + HeaderLen)
      <4>1. CASE k = F + 1
        BY <4>1, <1>4, <2>4, <2>6, <2>7
      <4>2. CASE k \in 1..F
        <5>1. /\ c[k + 1] = c[k] + HeaderLen + Len(begun[t][k])
              /\ LiesOn(htonl(Len(begun[t][k])), T, c[k])
              /\ LiesOn(begun[t][k], T, c[k] + HeaderLen)
          BY <1>0, <2>3, <4>2 DEF Tape
        <5>2. /\ c[k] \in Nat /\ c[k] + HeaderLen \in Nat /\ d[k] = c[k] /\ d[k + 1] = c[k + 1]
          <6>1. k \in 1..F + 1 /\ k + 1 \in 1..F + 1 /\ HeaderLen \in Nat
            BY <4>2, <1>4, Parts
          <6>2. c[k] \in Nat /\ d[k] = c[k] /\ d[k + 1] = c[k + 1]
            BY <6>1, <2>4, <2>7
          <6> QED BY <6>1, <6>2
        <5>3. begun[t][k] \in Seq(Byte) /\ htonl(Len(begun[t][k])) \in Seq(Byte)
          BY <1>0, <4>2, FrameTyped, LengthTyped
        <5>4. begun'[t][k] = begun[t][k]
          BY <4>2, <1>4
        <5> QED BY <5>1, <5>2, <5>3, <5>4, <2>5
      <4> QED BY <4>1, <4>2, <1>4
    <3>2. (F + 1) + 1 = F + 2
      BY <1>4
    <3> QED BY <3>1, <3>2, <2>4, <2>7, <1>4 DEF Tape
  <2>9. PICK o : o = From(c)
    OBVIOUS
  <2>10. From(d)' = o /\ o \in Nat
    <3>1. d[m + 1] = c[m + 1]
      BY <1>4, <1>5, <2>7
    <3>2. From(c) \in Nat
      BY <2>3, FromTyped DEF PInv
    <3>3. received' = received /\ reader' = reader /\ Len(received) = m
      BY <1>0, <1>3
    <3> QED BY <2>9, <3>1, <3>2, <3>3 DEF From
  <2>11. /\ LiesOn(have, T, o) /\ LiesOn(wire, T, o + Len(have))
         /\ o + Len(have) + Len(wire) = Len(T)
    BY <1>2, <2>3, <2>9, <2>10, Parts DEF Places
  <2>12. LiesOn(have, U, o) /\ LiesOn(wire, U, o + Len(have))
    <3>1. o \in Nat /\ o + Len(have) \in Nat
      BY <2>10, Parts
    <3> QED BY <3>1, <2>5, <2>11, Parts
  <2>13. BodyLen(t)' = Len(p)
    BY <1>3 DEF BodyLen
  <2>14. Places(t, U, o)'
    BY <2>4, <2>6, <2>11, <2>12, <2>13, <1>1, <1>3 DEF Places
  <2> QED BY <2>2, <2>8, <2>10, <2>14 DEF Laid
<1> QED BY <1>3, <1>6, <1>7, <1>8 DEF PInv, Reading

\* A send moves the first bytes of the buffer to the end of the connection's.
LEMMA SendAllKeeps ==
  ASSUME TInv, NEW t \in Thread, PInv(t), send_all(t)
  PROVE  PInv(t)'
<1>1. PICK n \in 1..Len(rest[t]) :
        /\ wire' = wire \o Take(rest[t], n)
        /\ IF n < Len(rest[t])
             THEN rest' = [rest EXCEPT ![t] = Drop(@, n)] /\ UNCHANGED body
             ELSE /\ rest' = [rest EXCEPT ![t] =
                                IF body[t] = {} THEN <<>> ELSE CHOOSE p \in body[t] : TRUE]
                  /\ body' = [body EXCEPT ![t] = {}]
  BY DEF send_all
<1>2. /\ begun' = begun /\ reader' = reader /\ want' = want /\ have' = have
      /\ received' = received
  BY DEF send_all, readerVars
<1>3. /\ n < Len(rest[t]) => rest'[t] = Drop(rest[t], n) /\ body'[t] = body[t]
      /\ ~(n < Len(rest[t])) =>
           /\ rest'[t] = IF body[t] = {} THEN <<>> ELSE CHOOSE p \in body[t] : TRUE
           /\ body'[t] = {}
  BY <1>1 DEF TInv, TypeOK
<1>4. Delivered(t)'
  BY <1>2 DEF PInv, Delivered, Frames
<1>5. Idle(t)' => body'[t] = {}
  <2>1. CASE n < Len(rest[t])
    <3>1. Len(Drop(rest[t], n)) = Len(rest[t]) - n /\ n \in Nat /\ Len(rest[t]) \in Nat
      BY <2>1, Parts DEF Drop
    <3>2. rest'[t] # <<>>
      BY <3>1, <2>1, <1>3
    <3> QED BY <3>2 DEF Idle
  <2> QED BY <2>1, <1>3
<1>6. ASSUME Reading PROVE (Awaited(t) /\ Laid(t))'
  <2>1. Awaited(t) /\ Laid(t)
    BY <1>6 DEF PInv
  <2>2. Awaited(t)'
    BY <2>1, <1>2 DEF Awaited, Frames
  <2>3. PICK T, c : Tape(t, T, c) /\ Places(t, T, From(c))
    BY <2>1 DEF Laid
  <2>4. PICK o : o = From(c)
    OBVIOUS
  <2>5. From(c)' = o /\ Tape(t, T, c)'
    BY <2>3, <2>4, <1>2 DEF From, Tape, Frames
  <2>6. o \in Nat /\ T \in Seq(Byte) /\ Len(T) \in Nat
    BY <2>3, <2>4, FromTyped DEF PInv, Tape
  <2>7. PICK h, w, r, b : h = Len(have) /\ w = Len(wire) /\ r = Len(rest[t]) /\ b = BodyLen(t)
    OBVIOUS
  <2>8. h \in Nat /\ w \in Nat /\ r \in Nat /\ b \in Nat /\ n \in Nat /\ n <= r
    BY <2>7, Parts, BodyLenTyped
  <2>9. /\ LiesOn(have, T, o) /\ LiesOn(wire, T, o + h) /\ LiesOn(rest[t], T, o + h + w)
        /\ \A p \in body[t] : body[t] = {p} /\ LiesOn(p, T, o + h + w + r)
        /\ o + h + w + r + b = Len(T)
    BY <2>3, <2>4, <2>7 DEF Places
  <2>10. /\ Take(rest[t], n) \in Seq(Byte) /\ Len(Take(rest[t], n)) = n
         /\ LiesOn(Take(rest[t], n), T, o + h + w)
         /\ Drop(rest[t], n) \in Seq(Byte) /\ Len(Drop(rest[t], n)) = r - n
         /\ LiesOn(Drop(rest[t], n), T, (o + h + w) + n)
    <3>1. o + h + w \in Nat
      BY <2>6, <2>8
    <3>2. rest[t] \in Seq(Byte) /\ n \in 1..Len(rest[t])
      BY Parts
    <3>3. PICK s, q : s = rest[t] /\ q = o + h + w
      OBVIOUS
    <3>4. s \in Seq(Byte) /\ n \in 1..Len(s) /\ q \in Nat /\ LiesOn(s, T, q)
      BY <3>1, <3>2, <3>3, <2>9
    <3>5. /\ Take(s, n) \in Seq(Byte) /\ Len(Take(s, n)) = n /\ LiesOn(Take(s, n), T, q)
          /\ Drop(s, n) \in Seq(Byte) /\ Len(Drop(s, n)) = Len(s) - n
          /\ LiesOn(Drop(s, n), T, q + n)
      BY <3>4, <2>6, LiesSplit
    <3> QED BY <3>3, <3>5, <2>7
  <2>11. Len(wire') = w + n /\ LiesOn(wire', T, o + h)
    <3>1. o + h \in Nat /\ (o + h) + w = o + h + w
      BY <2>6, <2>8
    <3>2. wire \in Seq(Byte) /\ LiesOn(Take(rest[t], n), T, (o + h) + Len(wire))
      BY <3>1, <2>7, <2>10, Parts
    <3>3. LiesOn(wire, T, o + h) /\ Take(rest[t], n) \in Seq(Byte)
      BY <2>9, <2>10
    <3>4. /\ Len(wire \o Take(rest[t], n)) = Len(wire) + Len(Take(rest[t], n))
          /\ LiesOn(wire \o Take(rest[t], n), T, o + h)
      BY <3>1, <3>2, <3>3, <2>6, LiesCat
    <3> QED BY <3>4, <1>1, <2>7, <2>10
  <2>12. CASE n < r
    <3>1. /\ rest'[t] = Drop(rest[t], n) /\ body'[t] = body[t] /\ BodyLen(t)' = b
      <4>1. body' = body /\ rest'[t] = Drop(rest[t], n)
        BY <2>7, <2>12, <1>1, <1>3
      <4> QED BY <4>1, <2>7 DEF BodyLen
    <3>2. /\ (o + h + w) + n = o + h + (w + n)
          /\ o + h + (w + n) + (r - n) = o + h + w + r
      BY <2>6, <2>8
    <3>3. Places(t, T, o)'
      BY <3>1, <3>2, <1>2, <2>7, <2>9, <2>10, <2>11 DEF Places
    <3> QED BY <3>3, <2>2, <2>3, <2>5 DEF Laid
  <2>13. CASE n = r
    <3>1. body'[t] = {} /\ BodyLen(t)' = 0
      BY <2>7, <2>8, <2>13, <1>3 DEF BodyLen
    <3>2. o + h + (w + n) = o + h + w + r
      BY <2>6, <2>8, <2>13
    <3>3. Len(rest'[t]) = b /\ LiesOn(rest'[t], T, o + h + (w + n))
      <4>1. rest'[t] = IF body[t] = {} THEN <<>> ELSE CHOOSE p \in body[t] : TRUE
        BY <2>7, <2>8, <2>13, <1>3
      <4>2. CASE body[t] = {}
        <5>1. rest'[t] = <<>> /\ b = 0
          BY <4>1, <4>2, <2>7 DEF BodyLen
        <5>2. o + h + (w + n) \in Nat /\ o + h + (w + n) <= Len(T)
          BY <2>6, <2>8, <2>9, <3>2, <5>1
        <5> QED BY <5>1, <5>2, LiesNone
      <4>3. CASE body[t] # {}
        <5>1. rest'[t] \in body[t]
          BY <4>1, <4>3
        <5>2. b = Len(rest'[t])
          BY <4>1, <4>3, <2>7 DEF BodyLen
        <5> QED BY <5>1, <5>2, <3>2, <2>9
      <4> QED BY <4>2, <4>3
    <3>4. o + h + (w + n) + b + 0 = Len(T)
      BY <3>2, <2>6, <2>8, <2>9
    <3>5. Places(t, T, o)'
      BY <3>1, <3>3, <3>4, <1>2, <2>7, <2>9, <2>11 DEF Places
    <3> QED BY <3>5, <2>2, <2>3, <2>5 DEF Laid
  <2> QED BY <2>12, <2>13, <2>8
<1> QED BY <1>2, <1>4, <1>5, <1>6 DEF PInv, Reading

\* A receive moves the first bytes of the connection to the end of the reader's.
LEMMA RecvAllKeeps ==
  ASSUME TInv, NEW t \in Thread, PInv(t), recv_all
  PROVE  PInv(t)'
<1>1. PICK n \in 1..(want - Len(have)) :
        n <= Len(wire) /\ wire' = Drop(wire, n) /\ have' = have \o Take(wire, n)
  BY DEF recv_all
<1>2. /\ begun' = begun /\ rest' = rest /\ body' = body /\ reader' = reader
      /\ want' = want /\ received' = received /\ Reading
  BY DEF recv_all, senderVars
<1>3. Delivered(t)' /\ (Idle(t)' => body'[t] = {}) /\ Awaited(t)'
  BY <1>2 DEF PInv, Delivered, Idle, Frames, Awaited
<1>4. PICK T, c : Tape(t, T, c) /\ Places(t, T, From(c))
  BY <1>2 DEF PInv, Laid
<1>5. PICK o : o = From(c)
  OBVIOUS
<1>6. From(c)' = o /\ Tape(t, T, c)'
  BY <1>2, <1>4, <1>5 DEF From, Tape, Frames
<1>7. o \in Nat /\ T \in Seq(Byte) /\ Len(T) \in Nat
  BY <1>4, <1>5, FromTyped DEF PInv, Tape
<1>8. PICK h, w, r, b : h = Len(have) /\ w = Len(wire) /\ r = Len(rest[t]) /\ b = BodyLen(t)
  OBVIOUS
<1>9. h \in Nat /\ w \in Nat /\ r \in Nat /\ b \in Nat /\ n \in 1..w
  <2>1. want \in Int
    BY PayloadAssumption DEF TInv, TypeOK
  <2> QED BY <2>1, <1>1, <1>8, Parts, BodyLenTyped
<1>10. /\ LiesOn(have, T, o) /\ LiesOn(wire, T, o + h) /\ LiesOn(rest[t], T, o + h + w)
       /\ \A p \in body[t] : body[t] = {p} /\ LiesOn(p, T, o + h + w + r)
       /\ o + h + w + r + b = Len(T)
  BY <1>4, <1>5, <1>8 DEF Places
<1>11. o + h \in Nat
  BY <1>7, <1>9
<1>12. /\ Take(wire, n) \in Seq(Byte) /\ Len(Take(wire, n)) = n
       /\ LiesOn(Take(wire, n), T, o + h)
       /\ Drop(wire, n) \in Seq(Byte) /\ Len(Drop(wire, n)) = w - n
       /\ LiesOn(Drop(wire, n), T, (o + h) + n)
  <2>1. wire \in Seq(Byte) /\ n \in 1..Len(wire)
    BY <1>8, <1>9, Parts
  <2>2. /\ Take(wire, n) \in Seq(Byte) /\ Len(Take(wire, n)) = n
        /\ LiesOn(Take(wire, n), T, o + h)
        /\ Drop(wire, n) \in Seq(Byte) /\ Len(Drop(wire, n)) = Len(wire) - n
        /\ LiesOn(Drop(wire, n), T, (o + h) + n)
    BY <2>1, <1>7, <1>10, <1>11, LiesSplit
  <2> QED BY <2>2, <1>8
<1>13. Len(have') = h + n /\ LiesOn(have', T, o)
  <2>1. have \in Seq(Byte) /\ LiesOn(Take(wire, n), T, o + Len(have))
    BY <1>8, <1>12, Parts
  <2>2. /\ Len(have \o Take(wire, n)) = Len(have) + Len(Take(wire, n))
        /\ LiesOn(have \o Take(wire, n), T, o)
    BY <2>1, <1>7, <1>10, <1>12, LiesCat
  <2> QED BY <2>2, <1>1, <1>8, <1>12
<1>14. /\ (o + h) + n = o + (h + n)
       /\ o + (h + n) + (w - n) = o + h + w
  BY <1>7, <1>9
<1>15. BodyLen(t)' = b
  BY <1>2, <1>8 DEF BodyLen
<1>16. Places(t, T, o)'
  BY <1>1, <1>2, <1>8, <1>10, <1>12, <1>13, <1>14, <1>15 DEF Places
<1> QED BY <1>3, <1>4, <1>6, <1>16 DEF PInv, Laid

\* What the reader has is the next length or payload on the tape.
LEMMA ReceiveFrameKeeps ==
  ASSUME LengthsReadBack, TInv, NEW t \in Thread, PInv(t), receive_frame
  PROVE  PInv(t)'
<1>0. PICK m, F, h, w, r, b : /\ m = Len(received) /\ F = Frames(t) /\ h = Len(have)
                              /\ w = Len(wire) /\ r = Len(rest[t]) /\ b = BodyLen(t)
  OBVIOUS
<1>1. /\ m \in Nat /\ F \in Nat /\ h \in Nat /\ w \in Nat /\ r \in Nat /\ b \in Nat
      /\ HeaderLen \in Nat /\ HeaderLen > 0 /\ have \in Seq(Byte)
  BY <1>0, Parts, BodyLenTyped
<1>2. /\ begun' = begun /\ rest' = rest /\ body' = body /\ wire' = wire
      /\ Reading /\ h = want
  BY <1>0 DEF receive_frame, senderVars
<1>3. PICK T, c : Tape(t, T, c) /\ Places(t, T, From(c))
  BY <1>2 DEF PInv, Laid
<1>4. PICK o : o = From(c)
  OBVIOUS
<1>5. o \in Nat /\ c[m + 1] \in Nat /\ T \in Seq(Byte) /\ Len(T) \in Nat
  BY <1>0, <1>3, <1>4, FromTyped DEF PInv, Tape
<1>6. /\ LiesOn(have, T, o) /\ LiesOn(wire, T, o + h) /\ LiesOn(rest[t], T, o + h + w)
      /\ \A p \in body[t] : body[t] = {p} /\ LiesOn(p, T, o + h + w + r)
      /\ o + h + w + r + b = Len(T)
  BY <1>0, <1>3, <1>4 DEF Places
<1>7. Tape(t, T, c)' /\ BodyLen(t)' = b /\ Frames(t)' = F /\ Awaited(t) /\ Delivered(t)
  BY <1>0, <1>2, <1>3 DEF Tape, Frames, BodyLen, PInv
<1>8. Idle(t)' => body'[t] = {}
  BY <1>2 DEF PInv, Idle
\* It is enough that what it had ends where it goes on.
<1>9. ASSUME have' = <<>>, From(c)' = o + h PROVE Laid(t)'
  <2>1. LiesOn(<<>>, T, o + h)
    <3>1. o + h \in Nat /\ o + h <= Len(T)
      BY <1>1, <1>5, <1>6
    <3> QED BY <3>1, LiesNone
  <2>2. /\ (o + h) + 0 = o + h /\ (o + h) + 0 + w = o + h + w /\ Len(<<>>) = 0
    BY <1>1, <1>5
  <2>3. Places(t, T, o + h)'
    BY <2>1, <2>2, <1>0, <1>2, <1>6, <1>7, <1>9 DEF Places
  <2> QED BY <2>3, <1>7, <1>9 DEF Laid
<1>10. CASE reader = "length"
  <2>1. reader' = "payload" /\ want' = ntohl(have) /\ have' = <<>> /\ received' = received
    BY <1>10 DEF receive_frame
  <2>2. o = c[m + 1] /\ h = HeaderLen
    BY <1>0, <1>2, <1>4, <1>5, <1>10 DEF From, TInv, HeaderAsked
  <2>3. m < F
    <3>1. m <= F /\ c[F + 1] = Len(T)
      BY <1>0, <1>3, <1>7 DEF Delivered, Tape
    <3>2. o + HeaderLen <= Len(T)
      BY <1>0, <1>6, <2>2 DEF LiesOn
    <3> QED BY <3>1, <3>2, <2>2, <1>1, <1>5
  <2>4. PICK n : n = Len(begun[t][m + 1])
    OBVIOUS
  <2>5. n \in 0..Base ^ HeaderLen - 1 /\ LiesOn(htonl(n), T, o)
    <3>1. m + 1 \in 1..F
      BY <2>3, <1>1
    <3> QED BY <3>1, <2>2, <2>4, <1>0, <1>3, FrameTyped DEF Tape
  <2>6. have = htonl(n)
    <3>1. htonl(n) \in Seq(Byte) /\ Len(htonl(n)) = HeaderLen
      BY <2>5, LengthTyped
    <3> QED BY <3>1, <2>2, <2>5, <1>0, <1>1, <1>6, LiesUnique
  <2>7. want' = n
    BY <2>1, <2>5, <2>6 DEF LengthsReadBack
  <2>8. Awaited(t)'
    BY <2>1, <2>3, <2>4, <2>7, <1>0, <1>2, <1>7 DEF Awaited
  <2>9. Delivered(t)'
    BY <2>1, <1>2, <1>7 DEF Delivered, Frames
  <2>10. From(c)' = o + h
    BY <2>1, <2>2, <1>0 DEF From
  <2> QED BY <2>1, <2>8, <2>9, <2>10, <1>8, <1>9 DEF PInv
<1>11. CASE reader = "payload"
  <2>2. m < F /\ h = Len(begun[t][m + 1]) /\ m + 1 \in 1..F
    BY <1>0, <1>1, <1>2, <1>7, <1>11 DEF Awaited
  <2>3. o = c[m + 1] + HeaderLen
    BY <1>0, <1>4, <1>11 DEF From
  <2>4. /\ LiesOn(begun[t][m + 1], T, o) /\ c[m + 2] = o + h
    <3>1. /\ c[(m + 1) + 1] = c[m + 1] + HeaderLen + Len(begun[t][m + 1])
          /\ LiesOn(begun[t][m + 1], T, c[m + 1] + HeaderLen)
      BY <2>2, <1>0, <1>3 DEF Tape
    <3>2. (m + 1) + 1 = m + 2
      BY <1>1
    <3> QED BY <3>1, <3>2, <2>2, <2>3
  <2>5. have = begun[t][m + 1]
    <3>1. begun[t][m + 1] \in Seq(Byte)
      BY <2>2, <1>0, FrameTyped
    <3> QED BY <3>1, <2>2, <2>4, <1>0, <1>1, <1>6, LiesUnique
  <2>1. /\ received' = Append(received, have) /\ reader' = "length" /\ have' = <<>>
    <3>1. m + 1 \in 1..Len(begun[t]) /\ begun[t][m + 1] = have
      BY <2>2, <2>5, <1>0 DEF Frames
    <3>2. begun[t] \in Seq(Payload)
      BY Parts
    <3>3. have \in ToSet(begun[t])
      BY <3>1, <3>2, ElementIn
    <3>4. Decrypts(have)
      BY <3>3 DEF Decrypts
    <3> QED BY <3>4, <1>11 DEF receive_frame, Returns
  <2>6. /\ Len(received') = m + 1 /\ received'[m + 1] = have
        /\ \A k \in 1..m : received'[k] = received[k]
    <3>1. received \in Seq(Seq(Byte))
      BY DEF TInv, TypeOK, Byte
    <3> QED BY <3>1, <2>1, <1>0, <1>1
  <2>7. Delivered(t)'
    <3>1. ASSUME NEW k \in 1..m + 1 PROVE received'[k] = begun[t][k]
      <4>1. CASE k = m + 1
        BY <4>1, <2>5, <2>6
      <4>2. CASE k \in 1..m
        BY <4>2, <2>6, <1>0, <1>7 DEF Delivered
      <4> QED BY <4>1, <4>2, <1>1
    <3> QED BY <3>1, <2>2, <2>6, <1>1, <1>2, <1>7 DEF Delivered
  <2>8. Awaited(t)'
    BY <2>1 DEF Awaited
  <2>9. From(c)' = o + h
    <3>1. (m + 1) + 1 = m + 2 /\ o + h \in Nat
      BY <1>1, <1>5
    <3> QED BY <3>1, <2>1, <2>4, <2>6 DEF From
  <2> QED BY <2>1, <2>7, <2>8, <2>9, <1>8, <1>9 DEF PInv
<1> QED BY <1>2, <1>10, <1>11 DEF Reading

LEMMA NextPInv ==
  ASSUME LengthsReadBack, TInv, NEW t \in Thread, Thread = {t}, PInv(t), [Next]_vars
  PROVE  PInv(t)'
<1>1. CASE UNCHANGED <<begun, rest, body, wire, readerVars>>
  <2>1. UNCHANGED <<begun, rest, body, wire, reader, want, have, received>>
    BY <1>1 DEF readerVars
  <2>2. Delivered(t)' /\ (Idle(t)' => body'[t] = {}) /\ (Reading' => Awaited(t)')
    BY <2>1 DEF PInv, Delivered, Frames, Idle, Reading, Awaited
  <2>3. ASSUME Reading PROVE Laid(t)'
    <3>1. PICK T, c : Tape(t, T, c) /\ Places(t, T, From(c))
      BY <2>3 DEF PInv, Laid
    <3>2. Tape(t, T, c)'
      BY <2>1, <3>1 DEF Tape, Frames
    <3>3. Places(t, T, From(c))'
      BY <2>1, <3>1 DEF Places, From, BodyLen
    <3> QED BY <3>2, <3>3 DEF Laid
  <2> QED BY <2>1, <2>2, <2>3 DEF PInv, Reading
<1>2. CASE SendFails(t)
  <2>1. begun' = begun /\ body'[t] = {} /\ reader' = "gone" /\ received' = received
    BY <1>2 DEF SendFails, readerVars, TInv, TypeOK
  <2> QED BY <2>1 DEF PInv, Delivered, Frames, Reading
<1>3. CASE EndOfStream \/ ReaderDies
  <2>1. /\ begun' = begun /\ rest' = rest /\ body' = body /\ received' = received
        /\ reader' \in {"ended", "gone"}
    BY <1>3 DEF EndOfStream, ReaderDies, senderVars
  <2> QED BY <2>1 DEF PInv, Delivered, Frames, Reading, Idle
<1>4. UNCHANGED vars \/ Close => UNCHANGED <<begun, rest, body, wire, readerVars>>
  BY DEF vars, senderVars, Close
<1>5. \/ UNCHANGED vars \/ Close \/ recv_all \/ receive_frame \/ EndOfStream \/ ReaderDies
      \/ (\E p \in Payload : send_frame(t, p)) \/ send_all(t) \/ SendFails(t)
  BY DEF Next, Reader
<1> QED BY <1>1, <1>2, <1>3, <1>4, <1>5, SendFrameKeeps, SendAllKeeps, RecvAllKeeps,
           ReceiveFrameKeeps

\* From one sending thread: whatever the sends and receives take at a time,
\* and wherever either side stops, what is received are the payloads sent, whole
\* and in order.  (With two threads it is false: run framing_threads.)
THEOREM FramesWhole ==
  LengthsReadBack /\ (\E t : Thread = {t}) /\ Spec => []ReceivedIsPrefix
<1> SUFFICES ASSUME LengthsReadBack, NEW t, Thread = {t} PROVE Spec => []ReceivedIsPrefix
  OBVIOUS
<1>1. t \in Thread
  OBVIOUS
<1>2. Init => TInv /\ PInv(t)
  BY <1>1, InitTInv, InitPInv
<1>3. TInv /\ PInv(t) /\ [Next]_vars => (TInv /\ PInv(t))'
  BY <1>1, NextTypeOK, NextHeaderAsked, NextPInv DEF TInv
<1>4. TInv /\ PInv(t) => ReceivedIsPrefix
  <2> SUFFICES ASSUME TInv, PInv(t) PROVE IsPrefix(received, begun[t])
    BY DEF ReceivedIsPrefix
  <2>1. /\ Len(received) <= Len(begun[t])
        /\ \A k \in 1..Len(received) : received[k] = begun[t][k]
    BY DEF PInv, Delivered, Frames
  <2>2. received \in Seq(Seq(Byte)) /\ begun[t] \in Seq(Payload)
    BY <1>1 DEF TInv, TypeOK, Byte
  <2> QED BY <2>1, <2>2 DEF IsPrefix
<1> QED BY <1>2, <1>3, <1>4, PTL DEF Spec
=============================================================================
