------------------------- MODULE KeyRotationProofs -------------------------
(***************************************************************************)
(* Proofs about the session keys of E2ESession when it is used as          *)
(* intended: the two ends of a session never negotiate across each other,  *)
(* so that they agree whenever they are not negotiating, every answer      *)
(* meets its question, and no key comes back.                              *)
(***************************************************************************)
EXTENDS E2ESessionProofs

\* The use that is intended: /e2e is typed by one end of a session, once, for
\* somebody who is there; no refresh overlaps an exchange; nobody leaves.
AsIntended ==
  /\ Orderly /\ SlowTick /\ MaxExits = 0
  /\ \A e \in Initiates : <<e[2], e[1]>> \notin Initiates

(***************************************************************************)
(* The exchange frames from u to p, each with the place where it is.       *)
(***************************************************************************)
Exchanges(f, p) == IsExchange(f) /\ f.peer = p
InHand(u, p) ==
  UNION {{<<"held", t, f>> : f \in {g \in held[u][t] : Exchanges(g, p)}} : t \in Thread}
Queued(where, s, p) ==
  {<<where, i, s[i]>> : i \in {j \in 1..Len(s) : Exchanges(s[j], p)}}
Under(u, p) ==
  InHand(u, p) \cup Queued("uplink", uplink[u], p) \cup Queued("inbox", inbox[p], u)

(***************************************************************************)
(* The inductive invariant.                                                *)
(***************************************************************************)
\* Of the keypairs with one owner, k has none that is newer than k2's.
NotNewer(k, k2) == \A x \in k, y \in k2 : x[1] = y[1] => x[2] <= y[2]
Older(k, k2) == \A x \in k, y \in k2 : x[1] = y[1] => x[2] < y[2]

\* The INIT f from u asks p with the keypair u has pending, and the two agree.
Asked(u, p, f) ==
  /\ f.type = "INIT"
  /\ pending[u][p] # 0 /\ pending[p][u] = 0
  /\ f.pub = {<<u, pending[u][p]>>}
  /\ aes_keys[p][u] = aes_keys[u][p]
  /\ <<u, p>> \in Initiates \/ aes_keys[u][p] # {}
  /\ Older(aes_keys[u][p], {<<u, pending[u][p]>>})

\* The ACK f from p answers the keypair u has pending, and p has the new key.
Answered(p, u, f) ==
  /\ f.type = "ACK"
  /\ pending[u][p] # 0 /\ pending[p][u] = 0
  /\ \E k \in 1..gen[p] : /\ f.pub = {<<p, k>>}
                          /\ aes_keys[p][u] = {<<u, pending[u][p]>>, <<p, k>>}
  /\ NotNewer(aes_keys[u][p], aes_keys[p][u])

OneExchange(u, p) == \A x, y \in Under(u, p) : x = y
OneDirection(u, p) == Under(u, p) = {} \/ Under(p, u) = {}
Meant(u, p) == \A x \in Under(u, p) : Asked(u, p, x[3]) \/ Answered(u, p, x[3])
\* u asked p when p was not yet past its login loop, and the loop dropped it.
Lost(u, p) ==
  /\ <<u, p>> \in Initiates /\ pending[p][u] = 0
  /\ aes_keys[u][p] = {} /\ aes_keys[p][u] = {}
Awaited(u, p) ==
  pending[u][p] # 0 => Under(u, p) \cup Under(p, u) # {} \/ Lost(u, p)
Agreed(u, p) ==
  pending[u][p] = 0 /\ pending[p][u] = 0 => aes_keys[u][p] = aes_keys[p][u]
Due(u, p) ==
  p \in todo[u] => /\ Rank[u] < Rank[p] /\ aes_keys[u][p] # {}
                   /\ pending[u][p] = 0 /\ pending[p][u] = 0
Present(u, p) ==
  /\ Under(u, p) # {} => u \in up /\ p \in online
  /\ aes_keys[u][p] # {} => u \in up /\ p \in up

PairInv(u, p) ==
  /\ OneExchange(u, p) /\ OneDirection(u, p) /\ Meant(u, p) /\ Awaited(u, p)
  /\ Agreed(u, p) /\ Due(u, p) /\ Present(u, p)

\* Nobody stops; a thread holds one frame at most, no QUIT, and only a receiver
\* an answer.
HeldInv ==
  \A u \in User : \A t \in Thread : \A f \in held[u][t] :
    /\ u \in up /\ held[u][t] = {f}
    /\ f.type # "QUIT" /\ (f.type = "ACK" => t = "receiver")
UplinkInv == \A u \in User : \A i \in 1..Len(uplink[u]) : uplink[u][i].type # "QUIT"
\* Whoever is in the registry is in the login loop, in one of two ways, or past it.
Running ==
  /\ online = up \cup asking \cup prompted
  /\ up \cap (asking \cup prompted) = {} /\ asking \cap prompted = {}
  /\ stop = {} /\ exits = 0

RotInv ==
  /\ AsIntended /\ Running /\ HeldInv /\ UplinkInv
  /\ \A u, p \in User : PairInv(u, p)
RInv == IInv /\ RotInv

(***************************************************************************)
(* What the operations on hands and queues do to Under.                    *)
(***************************************************************************)
Single(f, p, x) == IF Exchanges(f, p) THEN {x} ELSE {}

LEMMA QueuedAppend ==
  ASSUME NEW S, NEW s \in Seq(S), NEW f \in S, NEW w, NEW p
  PROVE  Queued(w, Append(s, f), p) =
           Queued(w, s, p) \cup Single(f, p, <<w, Len(s) + 1, f>>)
<1> DEFINE a == Append(s, f)
<1>1. Len(a) = Len(s) + 1 /\ Len(s) \in Nat /\ a[Len(s) + 1] = f
  OBVIOUS
<1>2. \A i \in 1..Len(s) : a[i] = s[i]
  OBVIOUS
<1>3. \A i : i \in 1..Len(a) <=> i \in 1..Len(s) \/ i = Len(s) + 1
  BY <1>1
<1> HIDE DEF a
<1>4. ASSUME NEW x PROVE x \in Queued(w, a, p) <=>
                \/ x \in Queued(w, s, p)
                \/ Exchanges(f, p) /\ x = <<w, Len(s) + 1, f>>
  <2>1. x \in Queued(w, a, p) <=> \E i \in 1..Len(a) : Exchanges(a[i], p) /\ x = <<w, i, a[i]>>
    BY DEF Queued
  <2>2. x \in Queued(w, s, p) <=> \E i \in 1..Len(s) : Exchanges(s[i], p) /\ x = <<w, i, s[i]>>
    BY DEF Queued
  <2> QED BY <2>1, <2>2, <1>1, <1>2, <1>3
<1> QED BY <1>4 DEF Single, a

\* The elements of a queue without its first, which are one place further on.
Onward(w, Q) == {<<w, x[2] - 1, x[3]>> : x \in {y \in Q : y[2] # 1}}

LEMMA QueuedTail ==
  ASSUME NEW S, NEW s \in Seq(S), s # <<>>, NEW w, NEW p
  PROVE  Queued(w, Tail(s), p) = Onward(w, Queued(w, s, p))
<1> DEFINE t == Tail(s)
<1>1. Len(t) = Len(s) - 1 /\ Len(s) \in Nat /\ Len(s) # 0
  OBVIOUS
<1>2. \A i \in 1..Len(t) : t[i] = s[i + 1]
  OBVIOUS
<1> HIDE DEF t
<1>3. ASSUME NEW x PROVE x \in Queued(w, t, p) <=> x \in Onward(w, Queued(w, s, p))
  <2>1. x \in Queued(w, t, p) <=> \E i \in 1..Len(t) : Exchanges(t[i], p) /\ x = <<w, i, t[i]>>
    BY DEF Queued
  <2>2. x \in Onward(w, Queued(w, s, p)) <=>
          \E i \in 1..Len(s) : Exchanges(s[i], p) /\ i # 1 /\ x = <<w, i - 1, s[i]>>
    <3>1. x \in Onward(w, Queued(w, s, p)) <=>
            \E y \in Queued(w, s, p) : y[2] # 1 /\ x = <<w, y[2] - 1, y[3]>>
      BY DEF Onward
    <3>2. \A y : y \in Queued(w, s, p) <=>
            \E i \in 1..Len(s) : Exchanges(s[i], p) /\ y = <<w, i, s[i]>>
      BY DEF Queued
    <3>3. ASSUME NEW i \in 1..Len(s), Exchanges(s[i], p), i # 1, x = <<w, i - 1, s[i]>>
          PROVE  x \in Onward(w, Queued(w, s, p))
      <4> DEFINE y == <<w, i, s[i]>>
      <4>1. y \in Queued(w, s, p) /\ y[2] # 1 /\ x = <<w, y[2] - 1, y[3]>>
        BY <3>2, <3>3
      <4> QED BY <3>1, <4>1
    <3>4. ASSUME NEW y \in Queued(w, s, p), y[2] # 1, x = <<w, y[2] - 1, y[3]>>
          PROVE  \E i \in 1..Len(s) : Exchanges(s[i], p) /\ i # 1 /\ x = <<w, i - 1, s[i]>>
      BY <3>2, <3>4
    <3> QED BY <3>1, <3>3, <3>4
  <2>3. ASSUME NEW i \in 1..Len(t), Exchanges(t[i], p), x = <<w, i, t[i]>>
        PROVE  \E j \in 1..Len(s) : Exchanges(s[j], p) /\ j # 1 /\ x = <<w, j - 1, s[j]>>
    <3>1. i + 1 \in 1..Len(s) /\ i + 1 # 1 /\ (i + 1) - 1 = i
      BY <1>1
    <3> QED BY <2>3, <3>1, <1>2
  <2>4. ASSUME NEW i \in 1..Len(s), Exchanges(s[i], p), i # 1, x = <<w, i - 1, s[i]>>
        PROVE  \E j \in 1..Len(t) : Exchanges(t[j], p) /\ x = <<w, j, t[j]>>
    <3>1. i - 1 \in 1..Len(t) /\ (i - 1) + 1 = i
      BY <2>4, <1>1
    <3> QED BY <2>4, <3>1, <1>2
  <2> QED BY <2>1, <2>2, <2>3, <2>4
<1> QED BY <1>3 DEF t

\* An element of a queue, and its first.
LEMMA QueuedElement ==
  ASSUME NEW s, NEW w, NEW p, NEW x \in Queued(w, s, p)
  PROVE  \E i \in 1..Len(s) : x = <<w, i, s[i]>> /\ Exchanges(s[i], p)
BY DEF Queued

LEMMA HoldAdds ==
  ASSUME TypeOK, NEW u \in User, NEW t \in Thread, Idle(u, t), NEW f, Hold(u, t, f),
         NEW v \in User, NEW q \in User
  PROVE  /\ v # u => InHand(v, q)' = InHand(v, q)
         /\ v = u => InHand(v, q)' = InHand(v, q) \cup Single(f, q, <<"held", t, f>>)
<1>1. held \in [User -> [Thread -> SUBSET Frame]]
  BY DEF TypeOK
<1>2. CASE v # u
  <2>1. held'[v] = held[v]
    BY <1>1, <1>2 DEF Hold
  <2> QED BY <1>2, <2>1 DEF InHand
<1>3. CASE v = u
  <2>1. held[u][t] = {} /\ held'[u][t] = {f}
        /\ \A s \in Thread \ {t} : held'[u][s] = held[u][s]
    BY <1>1 DEF Hold, Idle
  <2>2. ASSUME NEW x PROVE x \in InHand(u, q)' <=>
              \E s \in Thread : \E g \in held'[u][s] : Exchanges(g, q) /\ x = <<"held", s, g>>
    BY DEF InHand
  <2>3. ASSUME NEW x PROVE x \in InHand(u, q) <=>
              \E s \in Thread : \E g \in held[u][s] : Exchanges(g, q) /\ x = <<"held", s, g>>
    BY DEF InHand
  <2>4. ASSUME NEW x PROVE x \in InHand(u, q)' <=>
              x \in InHand(u, q) \/ (Exchanges(f, q) /\ x = <<"held", t, f>>)
    <3> QED BY <2>1, <2>2, <2>3
  <2> QED BY <1>3, <2>4 DEF Single
<1> QED BY <1>2, <1>3

Release(u, t) == held' = [held EXCEPT ![u][t] = {}]

LEMMA ReleaseRemoves ==
  ASSUME TypeOK, NEW u \in User, NEW t \in Thread, NEW f, held[u][t] = {f},
         Release(u, t), NEW v \in User, NEW q \in User
  PROVE  /\ v # u => InHand(v, q)' = InHand(v, q)
         /\ v = u => InHand(v, q)' = InHand(v, q) \ Single(f, q, <<"held", t, f>>)
<1>1. held \in [User -> [Thread -> SUBSET Frame]]
  BY DEF TypeOK
<1>2. CASE v # u
  <2>1. held'[v] = held[v]
    BY <1>1, <1>2 DEF Release
  <2> QED BY <1>2, <2>1 DEF InHand
<1>3. CASE v = u
  <2>1. held'[u][t] = {} /\ \A s \in Thread \ {t} : held'[u][s] = held[u][s]
    BY <1>1 DEF Release
  <2>2. ASSUME NEW x PROVE x \in InHand(u, q)' <=>
              \E s \in Thread : \E g \in held'[u][s] : Exchanges(g, q) /\ x = <<"held", s, g>>
    BY DEF InHand
  <2>3. ASSUME NEW x PROVE x \in InHand(u, q) <=>
              \E s \in Thread : \E g \in held[u][s] : Exchanges(g, q) /\ x = <<"held", s, g>>
    BY DEF InHand
  <2>4. ASSUME NEW x PROVE x \in InHand(u, q)' <=>
              x \in InHand(u, q) /\ ~(Exchanges(f, q) /\ x = <<"held", t, f>>)
    <3> QED BY <2>1, <2>2, <2>3
  <2> QED BY <1>3, <2>4 DEF Single
<1> QED BY <1>2, <1>3

(***************************************************************************)
(* A step that leaves one exchange frame where it was, or takes it one     *)
(* place further.                                                          *)
(***************************************************************************)
Moved(u, p) ==
  /\ OneExchange(u, p)'
  /\ \A y \in Under(u, p)' :
       \E x \in Under(u, p) : x[3].type = y[3].type /\ x[3].pub = y[3].pub
  /\ Under(u, p)' = {} => Under(u, p) = {}

LEMMA MovedSame ==
  ASSUME NEW u, NEW p, OneExchange(u, p), Under(u, p)' = Under(u, p)
  PROVE  Moved(u, p)
BY DEF OneExchange, Moved

LEMMA MovedOn ==
  ASSUME NEW u, NEW p, NEW x, NEW y, Under(u, p) = {x}, Under(u, p)' = {y},
         x[3].type = y[3].type, x[3].pub = y[3].pub
  PROVE  Moved(u, p)
BY DEF OneExchange, Moved

\* A pair whose queues and hands a step leaves alone.
LEMMA MovedNot ==
  ASSUME NEW u \in User, NEW p \in User, OneExchange(u, p), InHand(u, p)' = InHand(u, p),
         uplink'[u] = uplink[u], inbox'[p] = inbox[p]
  PROVE  Moved(u, p)
<1>1. Under(u, p)' = Under(u, p)
  BY DEF Under
<1> QED BY <1>1, MovedSame

\* The first frame of a queue that holds no exchange frame to p but perhaps
\* this one.
LEMMA OnwardSame ==
  ASSUME NEW S, NEW s \in Seq(S), s # <<>>, NEW w, NEW p, ~Exchanges(Head(s), p),
         Queued(w, s, p) # {}, \A x, y \in Queued(w, s, p) : x = y
  PROVE  \E x \in Queued(w, s, p) : Onward(w, Queued(w, s, p)) = {<<w, x[2] - 1, x[3]>>}
<1>1. PICK x \in Queued(w, s, p) : TRUE
  OBVIOUS
<1>2. Queued(w, s, p) = {x}
  OBVIOUS
<1>3. x[2] # 1
  BY QueuedElement
<1>4. \A z : z \in Onward(w, {x}) <=> z = <<w, x[2] - 1, x[3]>>
  BY <1>3 DEF Onward
<1> QED BY <1>1, <1>2, <1>4

LEMMA OnwardNone ==
  ASSUME NEW w
  PROVE  Onward(w, {}) = {}
BY DEF Onward

\* The first frame of a queue, if it is one, is the only one.
LEMMA HeadQueued ==
  ASSUME NEW S, NEW s \in Seq(S), s # <<>>, NEW w, NEW p, Exchanges(Head(s), p)
  PROVE  <<w, 1, Head(s)>> \in Queued(w, s, p)
<1>1. 1 \in 1..Len(s) /\ s[1] = Head(s)
  OBVIOUS
<1> QED BY <1>1 DEF Queued

LEMMA OnwardGone ==
  ASSUME NEW w, NEW f
  PROVE  Onward(w, {<<w, 1, f>>}) = {}
BY DEF Onward

LEMMA SendMoves ==
  ASSUME TypeOK, RotInv, NEW w \in User, NEW t \in Thread, SendFrame(w, t),
         NEW u \in User, NEW p \in User
  PROVE  Moved(u, p)
<1>1. PICK f \in held[w][t] :
        uplink' = [uplink EXCEPT ![w] = IF w \in online THEN Append(@, f) ELSE @]
  BY DEF SendFrame
<1>2. w \in online /\ held[w][t] = {f} /\ f \in Frame
  <2>1. held[w][t] \subseteq Frame
    BY DEF TypeOK
  <2>2. w \in up /\ held[w][t] = {f}
    BY <1>1 DEF RotInv, HeldInv
  <2> QED BY <1>1, <2>1, <2>2 DEF RotInv, Running
<1>3. /\ uplink[w] \in Seq(Frame) /\ uplink'[w] = Append(uplink[w], f)
      /\ u # w => uplink'[u] = uplink[u]
  BY <1>1, <1>2 DEF TypeOK
<1>4. Release(w, t) /\ inbox' = inbox
  BY DEF SendFrame, Release
<1>5. /\ u # w => InHand(u, p)' = InHand(u, p)
      /\ u = w => InHand(u, p)' = InHand(u, p) \ Single(f, p, <<"held", t, f>>)
  BY <1>2, <1>4, ReleaseRemoves
<1>a. Queued("uplink", Append(uplink[w], f), p) =
        Queued("uplink", uplink[w], p) \cup Single(f, p, <<"uplink", Len(uplink[w]) + 1, f>>)
  BY <1>2, <1>3, QueuedAppend
<1>6. OneExchange(u, p)
  BY DEF RotInv, PairInv
<1>7. CASE u # w
  BY <1>3, <1>4, <1>5, <1>6, <1>7, MovedNot
<1>8. CASE u = w /\ ~Exchanges(f, p)
  <2>1. Queued("uplink", uplink'[u], p) = Queued("uplink", uplink[u], p)
    BY <1>3, <1>8, <1>a DEF Single
  <2>2. InHand(u, p)' = InHand(u, p)
    BY <1>5, <1>8 DEF Single
  <2>3. Under(u, p)' = Under(u, p)
    BY <2>1, <2>2, <1>4 DEF Under
  <2> QED BY <2>3, <1>6, MovedSame
<1>9. CASE u = w /\ Exchanges(f, p)
  <2> DEFINE x == <<"held", t, f>>
             y == <<"uplink", Len(uplink[u]) + 1, f>>
  <2>1. x \in InHand(u, p)
    BY <1>2, <1>9 DEF InHand
  <2>2. Under(u, p) = {x}
    BY <2>1, <1>6 DEF OneExchange, Under
  <2>3. /\ InHand(u, p) \ {x} = {} /\ Queued("uplink", uplink[u], p) \subseteq {x}
        /\ Queued("inbox", inbox[p], u) \subseteq {x}
    BY <2>2 DEF Under
  <2>4. x \notin Queued("uplink", uplink[u], p) /\ x \notin Queued("inbox", inbox[p], u)
    BY QueuedElement
  <2>5. Queued("uplink", uplink'[u], p) = Queued("uplink", uplink[u], p) \cup {y}
    BY <1>3, <1>9, <1>a DEF Single
  <2>6. InHand(u, p)' = {}
    BY <1>5, <1>9, <2>3 DEF Single
  <2>7. Under(u, p)' = {y}
    <3> HIDE DEF x, y
    <3> QED BY <2>3, <2>4, <2>5, <2>6, <1>4 DEF Under
  <2>8. x[3] = f /\ y[3] = f
    OBVIOUS
  <2> QED BY <2>2, <2>7, <2>8, MovedOn
<1> QED BY <1>7, <1>8, <1>9

\* The queues and the hands of a pair have nothing in common.
LEMMA Apart ==
  ASSUME NEW u, NEW p, NEW s, NEW q
  PROVE  /\ \A x \in InHand(u, p) : x[1] = "held"
         /\ \A x \in Queued("uplink", s, q) : x[1] = "uplink"
         /\ \A x \in Queued("inbox", s, q) : x[1] = "inbox"
<1>1. ASSUME NEW x \in InHand(u, p) PROVE x[1] = "held"
  BY DEF InHand
<1>2. ASSUME NEW x \in Queued("uplink", s, q) PROVE x[1] = "uplink"
  BY QueuedElement
<1>3. ASSUME NEW x \in Queued("inbox", s, q) PROVE x[1] = "inbox"
  BY QueuedElement
<1> QED BY <1>1, <1>2, <1>3

\* A queue Q of the pair loses a frame that is not of the pair; R is the rest.
LEMMA QueueAdvances ==
  ASSUME NEW u, NEW p, OneExchange(u, p), NEW R, NEW w, NEW S, NEW s \in Seq(S),
         NEW q, s # <<>>, ~Exchanges(Head(s), q), R \cap Queued(w, s, q) = {},
         Under(u, p) = R \cup Queued(w, s, q),
         Under(u, p)' = R \cup Queued(w, Tail(s), q)
  PROVE  Moved(u, p)
<1> DEFINE Q == Queued(w, s, q)
<1>1. Queued(w, Tail(s), q) = Onward(w, Q)
  BY QueuedTail
<1>2. \A x, y \in Q : x = y
  BY DEF OneExchange
<1>3. CASE Q = {}
  <2>1. Onward(w, Q) = {}
    BY <1>3, OnwardNone
  <2> QED BY <1>1, <1>3, <2>1, MovedSame
<1>4. CASE Q # {}
  <2>1. PICK x \in Q : Onward(w, Q) = {<<w, x[2] - 1, x[3]>>}
    BY <1>2, <1>4, OnwardSame
  <2>2. R = {} /\ Q = {x}
    <3>1. \A y \in R : y = x
      BY DEF OneExchange
    <3> QED BY <3>1, <1>2
  <2> DEFINE y == <<w, x[2] - 1, x[3]>>
  <2>3. Under(u, p) = {x} /\ Under(u, p)' = {y} /\ y[3] = x[3]
    BY <2>1, <2>2, <1>1
  <2> QED BY <2>3, MovedOn
<1> QED BY <1>3, <1>4

LEMMA UplinkAdvances ==
  ASSUME TypeOK, NEW u \in User, NEW p \in User, OneExchange(u, p),
         InHand(u, p)' = InHand(u, p),
         Queued("inbox", inbox'[p], u) = Queued("inbox", inbox[p], u),
         uplink[u] # <<>>, uplink'[u] = Tail(uplink[u]), ~Exchanges(Head(uplink[u]), p)
  PROVE  Moved(u, p)
<1> DEFINE R == InHand(u, p) \cup Queued("inbox", inbox[p], u)
<1>1. R \cap Queued("uplink", uplink[u], p) = {}
  BY Apart
<1>2. /\ Under(u, p) = R \cup Queued("uplink", uplink[u], p)
      /\ Under(u, p)' = R \cup Queued("uplink", Tail(uplink[u]), p)
  BY DEF Under
<1>3. uplink[u] \in Seq(Frame)
  BY DEF TypeOK
<1> HIDE DEF R
<1> QED BY <1>1, <1>2, <1>3, QueueAdvances

LEMMA InboxAdvances ==
  ASSUME TypeOK, NEW u \in User, NEW p \in User, OneExchange(u, p),
         InHand(u, p)' = InHand(u, p), uplink'[u] = uplink[u],
         inbox[p] # <<>>, inbox'[p] = Tail(inbox[p]), ~Exchanges(Head(inbox[p]), u)
  PROVE  Moved(u, p)
<1> DEFINE R == InHand(u, p) \cup Queued("uplink", uplink[u], p)
<1>1. R \cap Queued("inbox", inbox[p], u) = {}
  BY Apart
<1>2. /\ Under(u, p) = R \cup Queued("inbox", inbox[p], u)
      /\ Under(u, p)' = R \cup Queued("inbox", Tail(inbox[p]), u)
  BY DEF Under
<1>3. inbox[p] \in Seq(Frame)
  BY DEF TypeOK
<1> HIDE DEF R
<1> QED BY <1>1, <1>2, <1>3, QueueAdvances

LEMMA RelayMoves ==
  ASSUME TypeOK, RotInv, NEW w \in User, NEW f, Relay(w, f), NEW u \in User, NEW p \in User
  PROVE  Moved(u, p)
<1> DEFINE g == [f EXCEPT !.peer = w]
           q == f.peer
<1>1. f \in Frame /\ uplink[w] \in Seq(Frame) /\ uplink[w] # <<>> /\ f = Head(uplink[w])
  BY HandlesTyped, FirstTyped DEF Relay, Handles, TypeOK
<1>2. q \in User /\ Runs(q) /\ inbox[q] \in Seq(Frame) /\ inbox[p] \in Seq(Frame)
  BY <1>1 DEF Relay, RotInv, Running, Runs, TypeOK, Frame
<1>3. /\ g \in Frame /\ g.type = f.type /\ g.pub = f.pub /\ g.peer = w
      /\ \A v : Exchanges(g, v) <=> IsExchange(f) /\ w = v
  BY <1>1 DEF Frame, Exchanges, IsExchange
<1>4. /\ uplink'[w] = Tail(uplink[w]) /\ inbox'[q] = Append(inbox[q], g) /\ held' = held
      /\ u # w => uplink'[u] = uplink[u]
      /\ p # q => inbox'[p] = inbox[p]
  BY <1>2 DEF Relay, Deliver, Handles, TypeOK
<1>5. InHand(u, p)' = InHand(u, p)
  BY <1>4 DEF InHand
<1>6. OneExchange(u, p)
  BY DEF RotInv, PairInv
<1>7. Queued("inbox", Append(inbox[q], g), u) =
        Queued("inbox", inbox[q], u) \cup Single(g, u, <<"inbox", Len(inbox[q]) + 1, g>>)
  BY <1>2, <1>3, QueuedAppend
<1> HIDE DEF g
<1>8. CASE u = w /\ p = q /\ IsExchange(f)
  <2> DEFINE x == <<"uplink", 1, f>>
             y == <<"inbox", Len(inbox[q]) + 1, g>>
  <2>1. x \in Queued("uplink", uplink[u], p)
    BY <1>1, <1>8, HeadQueued DEF Exchanges
  <2>2. Queued("uplink", uplink[u], p) = {x}
    BY <2>1, <1>6 DEF OneExchange, Under
  <2>3. \A z \in Under(u, p) : z = x
    BY <2>1, <1>6 DEF OneExchange, Under
  <2>4. InHand(u, p) = {} /\ Queued("inbox", inbox[p], u) = {}
    <3>1. x[1] = "uplink"
      OBVIOUS
    <3>2. InHand(u, p) \subseteq {x} /\ Queued("inbox", inbox[p], u) \subseteq {x}
      BY <2>3 DEF Under
    <3> HIDE DEF x
    <3> QED BY <3>1, <3>2, Apart
  <2>5. Queued("uplink", uplink'[u], p) = {}
    <3>1. Queued("uplink", Tail(uplink[u]), p) = Onward("uplink", Queued("uplink", uplink[u], p))
      BY <1>1, <1>8, QueuedTail
    <3> QED BY <3>1, <2>2, <1>4, <1>8, OnwardGone
  <2>6. Queued("inbox", inbox'[p], u) = {y}
    BY <2>4, <1>3, <1>4, <1>7, <1>8 DEF Single
  <2>7. Under(u, p) = {x} /\ Under(u, p)' = {y}
    <3> HIDE DEF x, y
    <3> QED BY <2>2, <2>4, <2>5, <2>6, <1>5 DEF Under
  <2>8. x[3] = f /\ y[3] = g
    OBVIOUS
  <2> HIDE DEF x, y
  <2> QED BY <2>7, <2>8, <1>3, MovedOn
<1>9. CASE ~(u = w /\ p = q /\ IsExchange(f))
  <2>1. Queued("inbox", inbox'[p], u) = Queued("inbox", inbox[p], u)
    <3>1. CASE p # q
      BY <3>1, <1>4
    <3>2. CASE p = q
      BY <3>2, <1>3, <1>4, <1>7, <1>9 DEF Single
    <3> QED BY <3>1, <3>2
  <2>2. CASE u = w
    BY <2>1, <2>2, <1>1, <1>4, <1>5, <1>6, <1>9, UplinkAdvances DEF Exchanges
  <2>3. CASE u # w
    <3>1. Under(u, p)' = Under(u, p)
      BY <2>1, <2>3, <1>4, <1>5 DEF Under
    <3> QED BY <3>1, <1>6, MovedSame
  <2> QED BY <2>2, <2>3
<1> QED BY <1>8, <1>9

\* A relayed exchange frame is for somebody who is there.
LEMMA NotFoundNoExchange ==
  ASSUME TypeOK, RotInv, NEW w \in User, NEW f, RelayNotFound(w, f)
  PROVE  ~IsExchange(f)
<1>1. f \in Frame /\ uplink[w] \in Seq(Frame) /\ uplink[w] # <<>> /\ f = Head(uplink[w])
  BY HandlesTyped, FirstTyped DEF RelayNotFound, Handles, TypeOK
<1>2. f.peer \in User /\ f.peer \notin online
  BY <1>1 DEF RelayNotFound, Frame
<1>3. SUFFICES ASSUME IsExchange(f) PROVE FALSE
  OBVIOUS
<1>4. <<"uplink", 1, f>> \in Queued("uplink", uplink[w], f.peer)
  BY <1>1, <1>3, HeadQueued DEF Exchanges
<1>5. Under(w, f.peer) # {}
  BY <1>4 DEF Under
<1> QED BY <1>2, <1>5 DEF RotInv, PairInv, Present

LEMMA NotFoundMoves ==
  ASSUME TypeOK, RotInv, NEW w \in User, NEW f, RelayNotFound(w, f),
         NEW u \in User, NEW p \in User
  PROVE  Moved(u, p)
<1> DEFINE g == ErrorFrame(f.peer)
<1>1. f \in Frame /\ uplink[w] \in Seq(Frame) /\ uplink[w] # <<>> /\ f = Head(uplink[w])
  BY HandlesTyped, FirstTyped DEF RelayNotFound, Handles, TypeOK
<1>2. g \in Frame /\ ~IsExchange(g) /\ inbox[w] \in Seq(Frame) /\ inbox[p] \in Seq(Frame)
  BY <1>1, OtherFramesTyped DEF Frame, TypeOK, ErrorFrame, IsExchange
<1>3. /\ uplink'[w] = Tail(uplink[w]) /\ held' = held
      /\ inbox'[w] = inbox[w] \/ inbox'[w] = Append(inbox[w], g)
      /\ u # w => uplink'[u] = uplink[u]
      /\ p # w => inbox'[p] = inbox[p]
  BY DEF RelayNotFound, Deliver, Handles, TypeOK
<1>4. InHand(u, p)' = InHand(u, p)
  BY <1>3 DEF InHand
<1>5. OneExchange(u, p)
  BY DEF RotInv, PairInv
<1>6. Queued("inbox", Append(inbox[w], g), u) =
        Queued("inbox", inbox[w], u) \cup Single(g, u, <<"inbox", Len(inbox[w]) + 1, g>>)
  BY <1>2, QueuedAppend
<1> HIDE DEF g
<1>7. Queued("inbox", inbox'[p], u) = Queued("inbox", inbox[p], u)
  BY <1>2, <1>3, <1>6 DEF Single, Exchanges
<1>8. CASE u = w
  BY <1>7, <1>8, <1>1, <1>3, <1>4, <1>5, NotFoundNoExchange, UplinkAdvances DEF Exchanges
<1>9. CASE u # w
  <2>1. Under(u, p)' = Under(u, p)
    BY <1>7, <1>9, <1>3, <1>4 DEF Under
  <2> QED BY <2>1, <1>5, MovedSame
<1> QED BY <1>8, <1>9

\* A client takes a frame that is none of the pair's exchange.
LEMMA TakeMoves ==
  ASSUME TypeOK, RotInv, NEW w \in User, NEW f, Takes(w, f), uplink' = uplink,
         NEW u \in User, NEW p \in User, InHand(u, p)' = InHand(u, p),
         p = w => ~Exchanges(f, u)
  PROVE  Moved(u, p)
<1>1. inbox[w] \in Seq(Frame) /\ inbox[w] # <<>> /\ f = Head(inbox[w])
  BY FirstTyped DEF Takes, TypeOK
<1>2. inbox'[w] = Tail(inbox[w]) /\ (p # w => inbox'[p] = inbox[p])
  BY DEF Takes, TypeOK
<1>3. OneExchange(u, p)
  BY DEF RotInv, PairInv
<1>4. CASE p = w
  BY <1>1, <1>2, <1>3, <1>4, InboxAdvances
<1>5. CASE p # w
  BY <1>2, <1>3, <1>5, MovedNot
<1> QED BY <1>4, <1>5

\* A frame that is none of an exchange goes to a client, or to the server.
LEMMA DeliverMoves ==
  ASSUME TypeOK, RotInv, NEW w \in User, NEW g \in Frame, ~IsExchange(g), Deliver(w, g),
         uplink' = uplink, NEW u \in User, NEW p \in User, InHand(u, p)' = InHand(u, p)
  PROVE  Moved(u, p)
<1>1. inbox \in [User -> Seq(Frame)] /\ inbox[w] \in Seq(Frame)
  BY DEF TypeOK
<1>2. /\ inbox'[w] = inbox[w] \/ inbox'[w] = Append(inbox[w], g)
      /\ p # w => inbox'[p] = inbox[p]
  BY <1>1 DEF Deliver
<1>3. Queued("inbox", Append(inbox[w], g), u) =
        Queued("inbox", inbox[w], u) \cup Single(g, u, <<"inbox", Len(inbox[w]) + 1, g>>)
  BY <1>1, QueuedAppend
<1>4. Queued("inbox", inbox'[p], u) = Queued("inbox", inbox[p], u)
  BY <1>2, <1>3 DEF Single, Exchanges
<1>5. Under(u, p)' = Under(u, p)
  BY <1>4 DEF Under
<1>6. OneExchange(u, p)
  BY DEF RotInv, PairInv
<1> QED BY <1>5, <1>6, MovedSame

LEMMA AppendMoves ==
  ASSUME TypeOK, RotInv, NEW w \in User, NEW g \in Frame, ~IsExchange(g),
         uplink' = [uplink EXCEPT ![w] = IF w \in online THEN Append(@, g) ELSE @],
         inbox' = inbox, NEW u \in User, NEW p \in User, InHand(u, p)' = InHand(u, p)
  PROVE  Moved(u, p)
<1>1. uplink \in [User -> Seq(Frame)] /\ uplink[w] \in Seq(Frame)
  BY DEF TypeOK
<1>2. /\ uplink'[w] = uplink[w] \/ uplink'[w] = Append(uplink[w], g)
      /\ u # w => uplink'[u] = uplink[u]
  BY <1>1
<1>3. Queued("uplink", Append(uplink[w], g), p) =
        Queued("uplink", uplink[w], p) \cup Single(g, p, <<"uplink", Len(uplink[w]) + 1, g>>)
  BY <1>1, QueuedAppend
<1>4. Queued("uplink", uplink'[u], p) = Queued("uplink", uplink[u], p)
  BY <1>2, <1>3 DEF Single, Exchanges
<1>5. Under(u, p)' = Under(u, p)
  BY <1>4 DEF Under
<1>6. OneExchange(u, p)
  BY DEF RotInv, PairInv
<1> QED BY <1>5, <1>6, MovedSame

\* A LOGIN that comes again is taken off the connection.
LEMMA LoginMoves ==
  ASSUME TypeOK, RotInv, NEW w \in User, NEW f, HandleLogin(w, f),
         NEW u \in User, NEW p \in User
  PROVE  Moved(u, p)
<1>1. uplink[w] \in Seq(Frame) /\ uplink[w] # <<>> /\ f = Head(uplink[w]) /\ f.type = "LOGIN"
  BY HandlesTyped, FirstTyped DEF HandleLogin, Handles, TypeOK
<1>2. /\ uplink'[w] = Tail(uplink[w]) /\ held' = held /\ inbox' = inbox
      /\ u # w => uplink'[u] = uplink[u]
  BY DEF HandleLogin, Handles, TypeOK
<1>3. InHand(u, p)' = InHand(u, p) /\ OneExchange(u, p)
  BY <1>2 DEF InHand, RotInv, PairInv
<1>4. CASE u = w
  BY <1>1, <1>2, <1>3, <1>4, UplinkAdvances DEF Exchanges, IsExchange
<1>5. CASE u # w
  BY <1>2, <1>3, <1>5, MovedNot
<1> QED BY <1>4, <1>5

\* A thread composes a frame that is none of the pair's exchange.
LEMMA HoldSame ==
  ASSUME TypeOK, NEW w \in User, NEW t \in Thread, Idle(w, t), NEW f, Hold(w, t, f),
         NEW u \in User, NEW p \in User, ~(u = w /\ Exchanges(f, p))
  PROVE  InHand(u, p)' = InHand(u, p)
BY HoldAdds DEF Single

LEMMA HoldMoves ==
  ASSUME TypeOK, RotInv, NEW w \in User, NEW t \in Thread, Idle(w, t), NEW f,
         Hold(w, t, f), uplink' = uplink, inbox' = inbox,
         NEW u \in User, NEW p \in User, ~(u = w /\ Exchanges(f, p))
  PROVE  Moved(u, p)
<1>1. InHand(u, p)' = InHand(u, p)
  BY HoldSame
<1>2. OneExchange(u, p)
  BY DEF RotInv, PairInv
<1> QED BY <1>1, <1>2, MovedNot

\* A thread composes the first exchange frame of the pair.
LEMMA HoldOpens ==
  ASSUME TypeOK, NEW w \in User, NEW t \in Thread, Idle(w, t), NEW f, Hold(w, t, f),
         NEW p \in User, Exchanges(f, p), Under(w, p) = {}, uplink'[w] = uplink[w],
         Queued("inbox", inbox'[p], w) = {}
  PROVE  Under(w, p)' = {<<"held", t, f>>}
<1>1. InHand(w, p)' = InHand(w, p) \cup Single(f, p, <<"held", t, f>>)
  BY HoldAdds
<1>2. InHand(w, p) = {} /\ Queued("uplink", uplink[w], p) = {}
  BY DEF Under
<1> QED BY <1>1, <1>2 DEF Under, Single

\* A client takes the one exchange frame of the pair.
LEMMA ExchangeTaken ==
  ASSUME TypeOK, RotInv, NEW w \in User, NEW f, Takes(w, f), uplink' = uplink,
         NEW u \in User, InHand(u, w)' = InHand(u, w), Exchanges(f, u)
  PROVE  /\ Under(u, w) = {<<"inbox", 1, f>>} /\ Under(u, w)' = {}
         /\ Under(w, u) = {} \/ u = w
<1>1. inbox[w] \in Seq(Frame) /\ inbox[w] # <<>> /\ f = Head(inbox[w])
  BY FirstTyped DEF Takes, TypeOK
<1>2. inbox'[w] = Tail(inbox[w])
  BY DEF Takes, TypeOK
<1>3. OneExchange(u, w) /\ OneDirection(u, w)
  BY DEF RotInv, PairInv
<1> DEFINE x == <<"inbox", 1, f>>
<1>4. x \in Queued("inbox", inbox[w], u)
  BY <1>1, HeadQueued
<1>5. Under(u, w) = {x} /\ Queued("inbox", inbox[w], u) = {x}
  BY <1>3, <1>4 DEF OneExchange, Under
<1>6. InHand(u, w) = {} /\ Queued("uplink", uplink[u], w) = {}
  <2>1. x[1] = "inbox"
    OBVIOUS
  <2>2. InHand(u, w) \subseteq {x} /\ Queued("uplink", uplink[u], w) \subseteq {x}
    BY <1>5 DEF Under
  <2> HIDE DEF x
  <2> QED BY <2>1, <2>2, Apart
<1>7. Queued("inbox", Tail(inbox[w]), u) = Onward("inbox", Queued("inbox", inbox[w], u))
  BY <1>1, QueuedTail
<1>8. Queued("inbox", inbox'[w], u) = {}
  BY <1>2, <1>5, <1>7, OnwardGone
<1> QED BY <1>3, <1>5, <1>6, <1>8 DEF Under, OneDirection

(***************************************************************************)
(* The invariant of a pair after a step.                                   *)
(***************************************************************************)
\* A step that moves the pair's frame, or nothing, and leaves its keys alone.
LEMMA PairKept ==
  ASSUME TypeOK, TypeOK', GenGrows, NEW u \in User, NEW p \in User,
         PairInv(u, p), Moved(u, p), Moved(p, u),
         aes_keys'[u][p] = aes_keys[u][p], aes_keys'[p][u] = aes_keys[p][u],
         pending'[u][p] = pending[u][p], pending'[p][u] = pending[p][u],
         p \in todo'[u] => p \in todo[u], up \subseteq up', online \subseteq online'
  PROVE  PairInv(u, p)'
<1>1. OneExchange(u, p)' /\ OneDirection(u, p)'
  BY DEF PairInv, OneDirection, Moved
<1>2. Meant(u, p)'
  <2> SUFFICES ASSUME NEW y \in Under(u, p)'
               PROVE  (Asked(u, p, y[3]) \/ Answered(u, p, y[3]))'
    BY DEF Meant
  <2>1. PICK x \in Under(u, p) : x[3].type = y[3].type /\ x[3].pub = y[3].pub
    BY DEF Moved
  <2>2. CASE Asked(u, p, x[3])
    BY <2>1, <2>2 DEF Asked
  <2>3. CASE Answered(u, p, x[3])
    <3>1. gen[u] \in Nat /\ gen'[u] \in Nat /\ gen[u] <= gen'[u]
      BY DEF TypeOK, GenGrows
    <3>2. 1..gen[u] \subseteq 1..gen'[u]
      BY <3>1
    <3> QED BY <2>1, <2>3, <3>2 DEF Answered
  <2> QED BY <2>2, <2>3 DEF PairInv, Meant
<1>3. Awaited(u, p)'
  BY DEF PairInv, Awaited, Lost, Moved
<1>4. Agreed(u, p)'
  BY DEF PairInv, Agreed
<1>5. Due(u, p)'
  BY DEF PairInv, Due
<1>6. Present(u, p)'
  BY DEF PairInv, Present, Moved
<1> QED BY <1>1, <1>2, <1>3, <1>4, <1>5, <1>6 DEF PairInv

\* A pair with one exchange frame under way.
LEMMA PairOpen ==
  ASSUME NEW u \in User, NEW p \in User, NEW x, Under(u, p)' = {x}, Under(p, u)' = {},
         (Asked(u, p, x[3]) \/ Answered(u, p, x[3]))',
         Present(u, p)', Present(p, u)', p \notin todo'[u], u \notin todo'[p]
  PROVE  PairInv(u, p)' /\ PairInv(p, u)'
<1>1. pending'[u][p] # 0 \/ pending'[p][u] # 0
  BY DEF Asked, Answered
<1>2. OneExchange(u, p)' /\ OneExchange(p, u)' /\ OneDirection(u, p)' /\ OneDirection(p, u)'
  BY DEF OneExchange, OneDirection
<1>3. Meant(u, p)' /\ Meant(p, u)'
  BY DEF Meant
<1>4. Awaited(u, p)' /\ Awaited(p, u)' /\ Agreed(u, p)' /\ Agreed(p, u)'
  BY <1>1 DEF Awaited, Agreed
<1>5. Due(u, p)' /\ Due(p, u)'
  BY DEF Due
<1> QED BY <1>2, <1>3, <1>4, <1>5 DEF PairInv

\* A pair whose exchange is complete.
LEMMA PairClosed ==
  ASSUME NEW u \in User, NEW p \in User, Under(u, p)' = {}, Under(p, u)' = {},
         pending'[u][p] = 0, pending'[p][u] = 0, aes_keys'[u][p] = aes_keys'[p][u],
         u \in up' /\ p \in up', p \notin todo'[u], u \notin todo'[p]
  PROVE  PairInv(u, p)' /\ PairInv(p, u)'
BY DEF PairInv, OneExchange, OneDirection, Meant, Awaited, Agreed, Due, Present

\* A pair whose first INIT was dropped.
LEMMA PairLost ==
  ASSUME NEW u \in User, NEW p \in User, Under(u, p)' = {}, Under(p, u)' = {},
         pending'[u][p] # 0, Lost(u, p)', p \notin todo'[u], u \notin todo'[p]
  PROVE  PairInv(u, p)' /\ PairInv(p, u)'
BY DEF PairInv, OneExchange, OneDirection, Meant, Awaited, Lost, Agreed, Due, Present

(***************************************************************************)
(* The steps that are left when the use is as intended.                    *)
(***************************************************************************)
IntendedStep(w) ==
  \/ Login(w) \/ LoginAgain(w) \/ SendOK(w)
  \/ \E f : LoginDone(w, f) \/ LoginDrops(w, f)
  \/ \E p \in User : StartE2E(w, p) \/ Chat(w, p)
  \/ \E t \in Thread : SendFrame(w, t)
  \/ RefreshTick(w) \/ RefreshPeer(w)
  \/ \E f : RecvInit(w, f) \/ RecvAck(w, f) \/ RecvUnexpectedAck(w, f)
            \/ RecvChat(w, f) \/ RecvError(w, f)
  \/ \E f : Relay(w, f) \/ RelayNotFound(w, f) \/ HandleLogin(w, f)

LEMMA IntendedSteps ==
  ASSUME TypeOK, RotInv, Next
  PROVE  \E w \in User : IntendedStep(w)
<1>1. online = up \cup asking \cup prompted /\ stop = {} /\ exits = 0 /\ MaxExits = 0
  BY DEF RotInv, Running, AsIntended
<1>2. ASSUME NEW w \in User PROVE ~Quit(w) /\ ~Exit(w) /\ ~Kill(w) /\ ~HandlerEnds(w)
  BY <1>1 DEF Quit, Exit, Kill, HandlerEnds, Runs
<1>3. ASSUME NEW w \in User, NEW f PROVE ~HandleQuit(w, f)
  <2>1. SUFFICES ASSUME HandleQuit(w, f) PROVE FALSE
    OBVIOUS
  <2>2. uplink[w] \in Seq(Frame) /\ f \in First(uplink[w]) /\ f.type = "QUIT"
    BY <2>1 DEF HandleQuit, Handles, TypeOK
  <2>3. 1 \in 1..Len(uplink[w]) /\ f = uplink[w][1]
    BY <2>2, FirstTyped
  <2> QED BY <2>2, <2>3 DEF RotInv, UplinkInv
<1> QED BY NextCases, <1>2, <1>3 DEF Step, IntendedStep

(***************************************************************************)
(* The ages of keypairs in a key.                                          *)
(***************************************************************************)
LEMMA KeyAges ==
  ASSUME IInv, NEW u \in User, NEW p \in User, NEW x \in aes_keys[u][p]
  PROVE  /\ x[1] \in {u, p} /\ x[2] \in Nat
         /\ x[1] = u => x[2] <= gen[u]
         /\ x[1] = p => x[2] <= gen[p]
<1>1. aes_keys[u][p] \in KeyOf(u, p)
  BY DEF IInv, KeyOwnership
<1>2. PICK a \in OwnPair(u), b \in OwnPair(p) : aes_keys[u][p] = {a, b}
  BY <1>1 DEF KeyOf, Secret
<1>3. PICK i \in 1..gen[u] : a = <<u, i>>
  BY <1>2 DEF OwnPair
<1>4. PICK j \in 1..gen[p] : b = <<p, j>>
  BY <1>2 DEF OwnPair
<1>5. gen[u] \in Nat /\ gen[p] \in Nat
  BY DEF IInv, TypeOK
<1> QED BY <1>2, <1>3, <1>4, <1>5

\* The next keypair of u is newer than those in its keys.
LEMMA NextIsNewer ==
  ASSUME IInv, NEW u \in User, NEW p \in User
  PROVE  /\ Older(aes_keys[u][p], {<<u, gen[u] + 1>>})
         /\ Older(aes_keys[p][u], {<<u, gen[u] + 1>>})
<1>1. gen[u] \in Nat
  BY DEF IInv, TypeOK
<1> QED BY <1>1, KeyAges DEF Older

(***************************************************************************)
(* Hands and uplinks.                                                      *)
(***************************************************************************)
LEMMA HeldKept ==
  ASSUME HeldInv, held' = held, up \subseteq up'
  PROVE  HeldInv'
BY DEF HeldInv

LEMMA HoldKeeps ==
  ASSUME TypeOK, HeldInv, NEW w \in User, NEW t \in Thread, Idle(w, t), NEW f, Hold(w, t, f),
         w \in up, f.type # "QUIT", f.type = "ACK" => t = "receiver", up \subseteq up'
  PROVE  HeldInv'
<1>1. held'[w][t] = {f}
  BY DEF TypeOK, Hold
<1>2. \A u \in User : \A s \in Thread : u # w \/ s # t => held'[u][s] = held[u][s]
  BY DEF TypeOK, Hold
<1> QED BY <1>1, <1>2 DEF HeldInv

LEMMA UplinkKept ==
  ASSUME UplinkInv, uplink' = uplink
  PROVE  UplinkInv'
BY DEF UplinkInv

LEMMA TailKeeps ==
  ASSUME TypeOK, UplinkInv, NEW w \in User, NEW f \in First(uplink[w]),
         uplink' = [uplink EXCEPT ![w] = Tail(@)]
  PROVE  UplinkInv'
<1>1. uplink \in [User -> Seq(Frame)]
  BY DEF TypeOK
<1>2. \A i \in 1..Len(Tail(uplink[w])) :
        Tail(uplink[w])[i] = uplink[w][i + 1] /\ i + 1 \in 1..Len(uplink[w])
  BY <1>1, FirstTyped
<1>3. \A i \in 1..Len(uplink'[w]) : uplink'[w][i].type # "QUIT"
  BY <1>1, <1>2 DEF UplinkInv
<1>4. \A u \in User \ {w} : uplink'[u] = uplink[u]
  BY <1>1
<1> QED BY <1>3, <1>4 DEF UplinkInv

LEMMA AppendKeeps ==
  ASSUME TypeOK, UplinkInv, NEW w \in User, NEW f \in Frame, f.type # "QUIT",
         uplink' = [uplink EXCEPT ![w] = IF w \in online THEN Append(@, f) ELSE @]
  PROVE  UplinkInv'
<1>1. uplink \in [User -> Seq(Frame)]
  BY DEF TypeOK
<1>2. \A u \in User \ {w} : uplink'[u] = uplink[u]
  BY <1>1
<1>3. uplink'[w] = uplink[w] \/ uplink'[w] = Append(uplink[w], f)
  BY <1>1
<1>4. ASSUME NEW i \in 1..Len(uplink'[w]) PROVE uplink'[w][i].type # "QUIT"
  <2>1. CASE uplink'[w] = uplink[w]
    BY <2>1, <1>4 DEF UplinkInv
  <2>2. CASE uplink'[w] = Append(uplink[w], f)
    <3>1. uplink'[w][i] = f \/ \E j \in 1..Len(uplink[w]) : uplink'[w][i] = uplink[w][j]
      BY <2>2, <1>1, <1>4, AppendElement
    <3> QED BY <3>1 DEF UplinkInv
  <2> QED BY <2>1, <2>2, <1>3
<1> QED BY <1>2, <1>4 DEF UplinkInv

LEMMA SendKeeps ==
  ASSUME TypeOK, HeldInv, UplinkInv, NEW w \in User, NEW t \in Thread, SendFrame(w, t)
  PROVE  HeldInv' /\ UplinkInv'
<1>1. PICK f \in held[w][t] :
        uplink' = [uplink EXCEPT ![w] = IF w \in online THEN Append(@, f) ELSE @]
  BY DEF SendFrame
<1>2. f.type # "QUIT"
  BY <1>1 DEF HeldInv
<1>3. uplink \in [User -> Seq(Frame)] /\ f \in Frame
  <2>1. held[w][t] \subseteq Frame
    BY DEF TypeOK
  <2> QED BY <1>1, <2>1 DEF TypeOK
<1>4. UplinkInv'
  BY <1>1, <1>2, <1>3, AppendKeeps
<1>5. \A u \in User : \A s \in Thread : held'[u][s] = held[u][s] \/ held'[u][s] = {}
  BY DEF SendFrame, TypeOK
<1>6. up' = up
  BY DEF SendFrame, serverVars
<1>7. HeldInv'
  BY <1>5, <1>6 DEF HeldInv
<1> QED BY <1>4, <1>7

(***************************************************************************)
(* All pairs after a step: those the step does not negotiate for, and the  *)
(* one it does.                                                            *)
(***************************************************************************)
LEMMA PairsBut ==
  ASSUME TypeOK, TypeOK', GenGrows, RotInv, NEW w, NEW v,
         \A a, b \in User :
           \/ (a = w /\ b = v) \/ (a = v /\ b = w)
           \/ Moved(a, b) /\ aes_keys'[a][b] = aes_keys[a][b] /\ pending'[a][b] = pending[a][b],
         \A a \in User : todo'[a] \subseteq todo[a], up \subseteq up',
         online \subseteq online', PairInv(w, v)', PairInv(v, w)'
  PROVE  \A a, b \in User : PairInv(a, b)'
<1> SUFFICES ASSUME NEW a \in User, NEW b \in User, ~(a = w /\ b = v), ~(a = v /\ b = w)
             PROVE  PairInv(a, b)'
  OBVIOUS
<1>1. PairInv(a, b) /\ Moved(a, b) /\ Moved(b, a)
  BY DEF RotInv
<1> QED BY <1>1, PairKept

LEMMA PairsKept ==
  ASSUME TypeOK, TypeOK', GenGrows, RotInv, \A a, b \in User : Moved(a, b),
         aes_keys' = aes_keys, pending' = pending,
         \A a \in User : todo'[a] \subseteq todo[a], up \subseteq up',
         online \subseteq online'
  PROVE  \A a, b \in User : PairInv(a, b)'
<1> SUFFICES ASSUME NEW a \in User, NEW b \in User PROVE PairInv(a, b)'
  OBVIOUS
<1>1. PairInv(a, b) /\ Moved(a, b) /\ Moved(b, a)
  BY DEF RotInv
<1> QED BY <1>1, PairKept

\* Nothing is negotiated by two ends of which none has a keypair pending.
LEMMA NothingUnder ==
  ASSUME RotInv, NEW u \in User, NEW p \in User, pending[u][p] = 0, pending[p][u] = 0
  PROVE  Under(u, p) = {} /\ Under(p, u) = {} /\ aes_keys[u][p] = aes_keys[p][u]
<1>1. PairInv(u, p) /\ PairInv(p, u)
  BY DEF RotInv
<1>2. Meant(u, p) /\ Meant(p, u) /\ Agreed(u, p)
  BY <1>1 DEF PairInv
<1>3. \A f : ~Asked(u, p, f) /\ ~Answered(u, p, f) /\ ~Asked(p, u, f) /\ ~Answered(p, u, f)
  BY DEF Asked, Answered
<1> QED BY <1>2, <1>3 DEF Meant, Agreed

\* One who may type /e2e has not been asked.
LEMMA AskerNotAsked ==
  ASSUME RotInv, NEW u \in User, NEW p \in User, <<u, p>> \in Initiates,
         aes_keys[u][p] = {}, pending[u][p] = 0
  PROVE  pending[p][u] = 0 /\ u # p
<1>1. <<p, u>> \notin Initiates
  BY DEF RotInv, AsIntended
<1>2. PairInv(u, p) /\ PairInv(p, u)
  BY DEF RotInv
<1>3. Meant(u, p) /\ Meant(p, u) /\ Awaited(p, u)
  BY <1>2 DEF PairInv
<1>4. \A f : ~Asked(u, p, f) /\ ~Answered(u, p, f) /\ ~Asked(p, u, f) /\ ~Answered(p, u, f)
  BY <1>1 DEF Asked, Answered
<1>5. Under(u, p) = {} /\ Under(p, u) = {}
  BY <1>3, <1>4 DEF Meant
<1> QED BY <1>1, <1>3, <1>5 DEF Awaited, Lost

\* A thread of u composes the INIT that asks p with a new keypair.
LEMMA PairAsks ==
  ASSUME RInv, TypeOK', NEW u \in User, NEW p \in User, NEW t \in Thread, u # p,
         pending[u][p] = 0, pending[p][u] = 0, Idle(u, t), Hold(u, t, InitFrame(p, NewPair(u))),
         uplink' = uplink, inbox' = inbox, aes_keys' = aes_keys, up' = up, online' = online,
         pending' = [pending EXCEPT ![u][p] = gen[u] + 1],
         u \in up, p \in online, p \notin todo'[u], u \notin todo'[p],
         <<u, p>> \in Initiates \/ aes_keys[u][p] # {}
  PROVE  PairInv(u, p)' /\ PairInv(p, u)'
<1>f. PICK f : f = InitFrame(p, NewPair(u))
  OBVIOUS
<1>x. PICK x : x = <<"held", t, f>>
  OBVIOUS
<1>1. TypeOK /\ RotInv /\ gen[u] \in Nat
  BY DEF RInv, IInv, TypeOK
<1>2. Under(u, p) = {} /\ Under(p, u) = {} /\ aes_keys[u][p] = aes_keys[p][u]
  BY <1>1, NothingUnder
<1>3. Exchanges(f, p) /\ f.type = "INIT" /\ f.pub = {<<u, gen[u] + 1>>}
  BY <1>f DEF Exchanges, IsExchange, InitFrame, NewPair
<1>4. Queued("inbox", inbox'[p], u) = {}
  BY <1>2 DEF Under
<1>5. Under(u, p)' = {x}
  BY <1>1, <1>2, <1>3, <1>4, <1>f, <1>x, HoldOpens
<1>6. Under(p, u)' = {}
  <2>1. InHand(p, u)' = InHand(p, u)
    BY <1>1, <1>f, HoldSame
  <2> QED BY <2>1, <1>2 DEF Under
<1>7. pending'[u][p] = gen[u] + 1 /\ pending'[p][u] = 0
  BY <1>1 DEF TypeOK
<1>8. Older(aes_keys[u][p], {<<u, gen[u] + 1>>})
  BY NextIsNewer DEF RInv
<1>9. Asked(u, p, f)'
  <2>1. f.type = "INIT" /\ pending'[u][p] # 0 /\ pending'[p][u] = 0
    BY <1>1, <1>3, <1>7
  <2>2. f.pub = {<<u, pending'[u][p]>>} /\ aes_keys'[p][u] = aes_keys'[u][p]
    BY <1>2, <1>3, <1>7
  <2>3. Older(aes_keys'[u][p], {<<u, pending'[u][p]>>})
    BY <1>7, <1>8
  <2>4. <<u, p>> \in Initiates \/ aes_keys'[u][p] # {}
    OBVIOUS
  <2> QED BY <2>1, <2>2, <2>3, <2>4 DEF Asked
<1>10. x[3] = f
  BY <1>x
<1>11. Present(u, p)' /\ Present(p, u)'
  BY <1>1, <1>6 DEF RotInv, PairInv, Present
<1> QED BY <1>5, <1>6, <1>9, <1>10, <1>11, PairOpen

\* A receiver takes an INIT, and answers it.
LEMMA PairsAnswered ==
  ASSUME RInv, TypeOK', GenGrows, NEW w \in User, NEW f, RecvInit(w, f)
  PROVE  /\ \A a, b \in User : PairInv(a, b)'
         /\ Asked(f.peer, w, f) /\ f.peer \in User /\ f.peer # w
         /\ Under(f.peer, w)' = {} /\ Under(w, f.peer) = {}
         /\ Under(w, f.peer)' = {<<"held", "receiver", AckFrame(f.peer, NewPair(w))>>}
         /\ \A a, b \in User : Moved(a, b) \/ (a = w /\ b = f.peer) \/ (a = f.peer /\ b = w)
<1>1. TypeOK /\ RotInv /\ gen[w] \in Nat /\ gen'[w] = gen[w] + 1
  BY DEF RInv, IInv, TypeOK, RecvInit, Generate
<1>2. /\ w \in up /\ Takes(w, f) /\ Idle(w, "receiver") /\ f.type = "INIT"
      /\ uplink' = uplink /\ pending' = pending /\ todo' = todo
      /\ up' = up /\ online' = online
  BY DEF RecvInit, Receives, serverVars
<1>3. f \in Frame /\ f.peer \in User
  BY <1>1, <1>2, TakesTyped DEF Frame
<1>v. PICK v \in User : v = f.peer
  BY <1>3
<1>g. PICK g : g = AckFrame(v, NewPair(w))
  OBVIOUS
<1>x. PICK x : x = <<"held", "receiver", g>>
  OBVIOUS
<1>4. Exchanges(f, v) /\ Exchanges(g, v) /\ g.type = "ACK" /\ g.pub = {<<w, gen[w] + 1>>}
      /\ g.peer = v
  BY <1>2, <1>v, <1>g DEF Exchanges, IsExchange, AckFrame, NewPair
<1>5. Hold(w, "receiver", g) /\ "receiver" \in Thread
  BY <1>v, <1>g DEF RecvInit, Thread
<1>6. <<"inbox", 1, f>> \in Under(v, w)
  <2>1. inbox[w] \in Seq(Frame) /\ f \in First(inbox[w])
    BY <1>1, <1>2 DEF Takes, TypeOK
  <2>2. inbox[w] # <<>> /\ f = Head(inbox[w])
    BY <2>1, FirstTyped
  <2> QED BY <2>1, <2>2, <1>4, HeadQueued DEF Under
<1>7. PairInv(v, w) /\ PairInv(w, v)
  BY <1>1 DEF RotInv
<1>8. Asked(v, w, f)
  <2>1. Asked(v, w, f) \/ Answered(v, w, f)
    BY <1>6, <1>7 DEF PairInv, Meant
  <2> QED BY <2>1, <1>2 DEF Answered
<1>9. v # w
  BY <1>8 DEF Asked
<1>10. \A a, b \in User : a # w \/ b # v => InHand(a, b)' = InHand(a, b)
  <2> SUFFICES ASSUME NEW a \in User, NEW b \in User, a # w \/ b # v
               PROVE  InHand(a, b)' = InHand(a, b)
    OBVIOUS
  <2>1. ~(a = w /\ Exchanges(g, b))
    BY <1>4 DEF Exchanges
  <2> QED BY <2>1, <1>1, <1>2, <1>5, HoldSame
<1>11. Under(v, w)' = {} /\ Under(w, v) = {}
  BY <1>1, <1>2, <1>4, <1>9, <1>10, ExchangeTaken
<1>12. Under(w, v)' = {x}
  <2>1. inbox'[v] = inbox[v]
    BY <1>1, <1>2, <1>9 DEF Takes, TypeOK
  <2>2. Queued("inbox", inbox'[v], w) = {}
    BY <2>1, <1>11 DEF Under
  <2> QED BY <2>2, <1>1, <1>2, <1>4, <1>5, <1>11, <1>x, HoldOpens
<1>13. ASSUME NEW a \in User, NEW b \in User, a # w \/ b # v, a # v \/ b # w
       PROVE  Moved(a, b)
  <2>1. b = w => ~Exchanges(f, a)
    BY <1>13, <1>v DEF Exchanges
  <2> QED BY <2>1, <1>13, <1>1, <1>2, <1>10, TakeMoves
<1>14. PICK b \in f.pub : aes_keys' = [aes_keys EXCEPT ![w][v] = Secret(NewPair(w), b)]
  BY <1>v DEF RecvInit
<1>15. /\ aes_keys'[w][v] = {<<w, gen[w] + 1>>, <<v, pending[v][w]>>}
       /\ \A a, c \in User : a # w \/ c # v => aes_keys'[a][c] = aes_keys[a][c]
  BY <1>1, <1>8, <1>14 DEF TypeOK, Asked, Secret, NewPair
<1>16. Answered(w, v, g)'
  <2>1. pending'[v][w] # 0 /\ pending'[w][v] = 0 /\ pending'[v][w] = pending[v][w]
    BY <1>2, <1>8 DEF Asked
  <2>2. gen[w] + 1 \in 1..gen'[w]
    BY <1>1
  <2>3. Older(aes_keys[v][w], {<<w, gen[w] + 1>>})
    BY NextIsNewer DEF RInv
  <2>4. Older(aes_keys[v][w], {<<v, pending[v][w]>>})
    BY <1>8 DEF Asked
  <2>5. NotNewer(aes_keys'[v][w], aes_keys'[w][v])
    <3>1. \A y \in aes_keys[v][w] : y[2] \in Nat
      BY KeyAges DEF RInv
    <3>2. pending[v][w] \in Nat
      BY <1>1 DEF TypeOK
    <3> QED BY <2>3, <2>4, <3>1, <3>2, <1>1, <1>9, <1>15 DEF NotNewer, Older
  <2> QED BY <2>1, <2>2, <2>5, <1>4, <1>15 DEF Answered
<1>17. v \notin todo'[w] /\ w \notin todo'[v] /\ Present(w, v)' /\ Present(v, w)'
  <2>1. Due(w, v) /\ Due(v, w) /\ Present(v, w)
    BY <1>7 DEF PairInv
  <2>2. pending[v][w] # 0
    BY <1>8 DEF Asked
  <2>3. v \in up /\ w \in up /\ up \subseteq online
    BY <2>1, <1>1, <1>2, <1>6 DEF Present, RotInv, Running
  <2> QED BY <2>1, <2>2, <2>3, <1>2 DEF Due, Present
<1>18. x[3] = g
  BY <1>x
<1>19. PairInv(w, v)' /\ PairInv(v, w)'
  BY <1>11, <1>12, <1>16, <1>17, <1>18, PairOpen
<1>20. \A a, c \in User : PairInv(a, c)'
  <2>1. \A a, c \in User : \/ (a = w /\ c = v) \/ (a = v /\ c = w)
                           \/ /\ Moved(a, c) /\ aes_keys'[a][c] = aes_keys[a][c]
                              /\ pending'[a][c] = pending[a][c]
    BY <1>2, <1>13, <1>15
  <2> QED BY <2>1, <1>1, <1>2, <1>19, PairsBut
<1> QED BY <1>3, <1>8, <1>9, <1>11, <1>12, <1>13, <1>20, <1>v, <1>g, <1>x

\* A receiver takes the answer to its own request.
LEMMA PairsSettled ==
  ASSUME RInv, TypeOK', GenGrows, NEW w \in User, NEW f,
         RecvAck(w, f) \/ RecvUnexpectedAck(w, f)
  PROVE  /\ \A a, b \in User : PairInv(a, b)'
         /\ RecvAck(w, f) /\ Answered(f.peer, w, f) /\ f.peer \in User /\ f.peer # w
         /\ aes_keys' = [aes_keys EXCEPT ![w][f.peer] = aes_keys[f.peer][w]]
         /\ Under(f.peer, w) = {<<"inbox", 1, f>>}
         /\ Under(f.peer, w)' = {} /\ Under(w, f.peer) = {} /\ Under(w, f.peer)' = {}
         /\ \A a, b \in User : Moved(a, b) \/ (a = w /\ b = f.peer) \/ (a = f.peer /\ b = w)
<1>1. TypeOK /\ RotInv
  BY DEF RInv, IInv
<1>2. /\ w \in up /\ Takes(w, f) /\ f.type = "ACK"
      /\ uplink' = uplink /\ held' = held /\ todo' = todo
      /\ up' = up /\ online' = online
  BY DEF RecvAck, RecvUnexpectedAck, Receives, serverVars
<1>3. f \in Frame /\ f.peer \in User
  BY <1>1, <1>2, TakesTyped DEF Frame
<1>v. PICK v \in User : v = f.peer
  BY <1>3
<1>4. Exchanges(f, v)
  BY <1>2, <1>v DEF Exchanges, IsExchange
<1>5. \A a, b \in User : InHand(a, b)' = InHand(a, b)
  BY <1>2 DEF InHand
<1>6. Under(v, w) = {<<"inbox", 1, f>>} /\ Under(v, w)' = {}
      /\ (Under(w, v) = {} \/ v = w)
  BY <1>1, <1>2, <1>4, <1>5, ExchangeTaken
<1>7. PairInv(v, w) /\ PairInv(w, v)
  BY <1>1 DEF RotInv
<1>8. Answered(v, w, f)
  <2>1. PICK x \in Under(v, w) : x[3] = f
    BY <1>6
  <2>2. Asked(v, w, f) \/ Answered(v, w, f)
    BY <2>1, <1>7 DEF PairInv, Meant
  <2> QED BY <2>2, <1>2 DEF Asked
<1>9. v # w /\ pending[w][v] # 0 /\ pending[v][w] = 0
  BY <1>8 DEF Answered
<1>10. RecvAck(w, f)
  BY <1>9, <1>v DEF RecvUnexpectedAck
<1>11. PICK b \in f.pub : aes_keys' = [aes_keys EXCEPT ![w][v] = Secret(<<w, pending[w][v]>>, b)]
  BY <1>10, <1>v DEF RecvAck
<1>12. Secret(<<w, pending[w][v]>>, b) = aes_keys[v][w]
  BY <1>8, <1>11 DEF Answered, Secret
<1>13. /\ aes_keys' = [aes_keys EXCEPT ![w][v] = aes_keys[v][w]]
       /\ pending' = [pending EXCEPT ![w][v] = 0]
  BY <1>10, <1>11, <1>12, <1>v DEF RecvAck
<1>14. /\ aes_keys'[w][v] = aes_keys'[v][w] /\ pending'[w][v] = 0 /\ pending'[v][w] = 0
       /\ \A a, c \in User : a # w \/ c # v => aes_keys'[a][c] = aes_keys[a][c]
                                               /\ pending'[a][c] = pending[a][c]
  BY <1>1, <1>9, <1>13 DEF TypeOK
<1>15. ASSUME NEW a \in User, NEW c \in User, a # v \/ c # w
       PROVE  Moved(a, c)
  <2>1. c = w => ~Exchanges(f, a)
    BY <1>15, <1>v DEF Exchanges
  <2> QED BY <2>1, <1>1, <1>2, <1>5, TakeMoves
<1>16. Under(w, v)' = {}
  BY <1>6, <1>9, <1>15 DEF Moved
<1>17. v \notin todo'[w] /\ w \notin todo'[v] /\ w \in up' /\ v \in up'
  <2>1. Due(w, v) /\ Due(v, w) /\ Present(v, w)
    BY <1>7 DEF PairInv
  <2> QED BY <2>1, <1>2, <1>6, <1>9 DEF Due, Present
<1>18. PairInv(w, v)' /\ PairInv(v, w)'
  BY <1>6, <1>14, <1>16, <1>17, PairClosed
<1>19. \A a, c \in User : PairInv(a, c)'
  <2>1. \A a, c \in User : \/ (a = w /\ c = v) \/ (a = v /\ c = w)
                           \/ /\ Moved(a, c) /\ aes_keys'[a][c] = aes_keys[a][c]
                              /\ pending'[a][c] = pending[a][c]
    BY <1>14, <1>15
  <2> QED BY <2>1, <1>1, <1>2, <1>18, PairsBut
<1> QED BY <1>6, <1>8, <1>9, <1>10, <1>13, <1>15, <1>16, <1>19, <1>v

\* A login loop takes an exchange frame, and drops it: it was a first INIT.
LEMMA PairsDropped ==
  ASSUME RInv, TypeOK', GenGrows, NEW w \in User, NEW f, LoginDrops(w, f), IsExchange(f)
  PROVE  \A a, b \in User : PairInv(a, b)'
<1>1. TypeOK /\ RotInv
  BY DEF RInv, IInv
<1>2. /\ w \in asking /\ Takes(w, f)
      /\ UNCHANGED <<online, up, uplink, held, aes_keys, pending, todo>>
  BY DEF LoginDrops, TakesReply, keyVars
<1>3. f \in Frame /\ f.peer \in User
  BY <1>1, <1>2, TakesTyped DEF Frame
<1>v. PICK v \in User : v = f.peer
  BY <1>3
<1>4. Exchanges(f, v)
  BY <1>v DEF Exchanges
<1>5. \A a, b \in User : InHand(a, b)' = InHand(a, b)
  BY <1>2 DEF InHand
<1>6. Under(v, w) = {<<"inbox", 1, f>>} /\ Under(v, w)' = {}
      /\ (Under(w, v) = {} \/ v = w)
  BY <1>1, <1>2, <1>4, <1>5, ExchangeTaken
<1>7. PairInv(v, w) /\ PairInv(w, v) /\ w \notin up
  BY <1>1, <1>2 DEF RotInv, Running
<1>8. aes_keys[v][w] = {} /\ aes_keys[w][v] = {}
  BY <1>7 DEF PairInv, Present
<1>9. Asked(v, w, f)
  <2>1. PICK x \in Under(v, w) : x[3] = f
    BY <1>6
  <2>2. Asked(v, w, f) \/ Answered(v, w, f)
    BY <2>1, <1>7 DEF PairInv, Meant
  <2> QED BY <2>2, <1>8 DEF Answered
<1>10. pending[v][w] # 0 /\ v # w /\ Lost(v, w)
  BY <1>8, <1>9 DEF Asked, Lost
<1>11. ASSUME NEW a \in User, NEW c \in User, a # v \/ c # w
       PROVE  Moved(a, c)
  <2>1. c = w => ~Exchanges(f, a)
    BY <1>11, <1>v DEF Exchanges
  <2> QED BY <2>1, <1>1, <1>2, <1>5, TakeMoves
<1>12. Under(w, v)' = {}
  BY <1>6, <1>10, <1>11 DEF Moved
<1>13. w \notin todo'[v] /\ v \notin todo'[w]
  BY <1>2, <1>7, <1>8 DEF PairInv, Due
<1>14. PairInv(v, w)' /\ PairInv(w, v)'
  <2>1. pending'[v][w] # 0 /\ Lost(v, w)'
    BY <1>2, <1>10 DEF Lost
  <2> QED BY <2>1, <1>6, <1>12, <1>13, PairLost
<1> QED BY <1>1, <1>2, <1>11, <1>14, PairsBut

(***************************************************************************)
(* A tick of the refresher visits the peers of a quiet session.            *)
(***************************************************************************)
Visited(u, p) ==
  /\ aes_keys[u][p] # {} /\ Rank[u] < Rank[p]
  /\ SlowTick => Quiet(u, p)
  /\ gen[u] < MaxPairs

LEMMA TickVisits ==
  ASSUME TypeOK, RotInv, NEW w \in User, RefreshTick(w),
         NEW a \in User, NEW b \in User, b \in todo'[a], b \notin todo[a]
  PROVE  a = w /\ aes_keys[w][b] # {} /\ Rank[w] < Rank[b] /\ Quiet(w, b)
<1>1. todo' = [todo EXCEPT ![w] = {p \in User : Visited(w, p)}]
  BY Zenon DEF RefreshTick, Visited
<1>2. a = w /\ Visited(w, b)
  BY <1>1 DEF TypeOK
<1>3. SlowTick
  BY DEF RotInv, AsIntended
<1>4. Quiet(w, b) /\ aes_keys[w][b] # {} /\ Rank[w] < Rank[b]
  BY <1>2, <1>3, Zenon DEF Visited
<1> QED BY <1>2, <1>4

(***************************************************************************)
(* The invariant.                                                          *)
(***************************************************************************)
LEMMA InitRInv == AsIntended /\ Init => RInv
<1> SUFFICES ASSUME AsIntended, Init PROVE RInv
  OBVIOUS
<1>1. IInv
  BY InitIInv
<1>2. ASSUME NEW u \in User, NEW p \in User PROVE PairInv(u, p)
  <2>1. Under(u, p) = {} /\ Under(p, u) = {}
    BY DEF Init, Under, InHand, Queued
  <2>2. pending[u][p] = 0 /\ aes_keys[u][p] = {} /\ aes_keys[p][u] = {} /\ todo[u] = {}
    BY DEF Init
  <2> QED BY <2>1, <2>2 DEF PairInv, OneExchange, OneDirection, Meant, Awaited, Agreed,
                            Due, Present
<1>3. Running /\ HeldInv /\ UplinkInv
  BY DEF Init, Running, HeldInv, UplinkInv
<1> QED BY <1>1, <1>2, <1>3 DEF RInv, RotInv

LEMMA NextRInv == RInv /\ [Next]_vars => RInv'
<1> SUFFICES ASSUME RInv, [Next]_vars PROVE RInv'
  OBVIOUS
<1>i. IInv /\ IInv' /\ TypeOK /\ TypeOK' /\ RotInv
  BY NextIInv DEF RInv, IInv
<1>h. HeldInv /\ UplinkInv /\ Running
  BY <1>i DEF RotInv
<1>a. AsIntended'
  BY <1>i DEF RotInv, AsIntended
<1>e. \A u, p \in User : OneExchange(u, p)
  BY <1>i DEF RotInv, PairInv
<1> DEFINE Pairs == \A u, p \in User : PairInv(u, p)
<1> SUFFICES Running' /\ HeldInv' /\ UplinkInv' /\ Pairs'
  BY <1>i, <1>a DEF RInv, RotInv
<1>g. ASSUME gen' = gen PROVE GenGrows
  BY <1>g, <1>i DEF TypeOK, GenGrows
<1>n. ASSUME held' = held, uplink' = uplink, inbox' = inbox
      PROVE  \A u, p \in User : Moved(u, p)
  <2> SUFFICES ASSUME NEW u \in User, NEW p \in User PROVE Moved(u, p)
    OBVIOUS
  <2>1. InHand(u, p)' = InHand(u, p)
    BY <1>n DEF InHand
  <2> QED BY <2>1, <1>e, <1>n, MovedNot
<1> USE DEF serverVars, loginVars, keyVars, chatVars
<1>1. CASE UNCHANGED vars
  <2>1. /\ UNCHANGED <<online, asking, prompted, up, stop, exits, gen, held, uplink, inbox,
                       aes_keys, pending, todo>>
        /\ GenGrows
    BY <1>1, <1>g DEF vars
  <2>2. Pairs'
    BY <2>1, <1>i, <1>n, PairsKept
  <2> QED BY <2>1, <2>2, <1>h, HeldKept, UplinkKept DEF Running
<1>2. CASE Next
  <2> PICK w \in User : IntendedStep(w)
    BY <1>2, <1>i, IntendedSteps
  <2>1. CASE Login(w)
    <3>1. /\ UNCHANGED <<up, stop, exits, gen, held, uplink, inbox, aes_keys, pending, todo>>
          /\ GenGrows /\ online' = online \cup {w}
      BY <2>1, <1>g DEF Login
    <3>2. Pairs'
      BY <3>1, <1>i, <1>n, PairsKept
    <3>3. Running'
      BY <2>1, <3>1, <1>h DEF Running, Login, Runs
    <3> QED BY <3>1, <3>2, <3>3, <1>h, HeldKept, UplinkKept
  <2>2. CASE LoginAgain(w)
    <3>1. /\ UNCHANGED <<online, up, stop, exits, gen, held, inbox, aes_keys, pending, todo>>
          /\ GenGrows
          /\ uplink' = [uplink EXCEPT ![w] = IF w \in online
                                               THEN Append(@, LoginFrame(w)) ELSE @]
      BY <2>2, <1>g DEF LoginAgain
    <3>2. LoginFrame(w) \in Frame
      BY OtherFramesTyped
    <3>3. LoginFrame(w).type = "LOGIN" /\ ~IsExchange(LoginFrame(w))
      BY DEF LoginFrame, IsExchange
    <3>4. ASSUME NEW u \in User, NEW p \in User PROVE Moved(u, p)
      <4>1. InHand(u, p)' = InHand(u, p)
        BY <3>1 DEF InHand
      <4> QED BY <4>1, <3>1, <3>2, <3>3, <1>i, AppendMoves
    <3>5. Pairs'
      BY <3>1, <3>4, <1>i, PairsKept
    <3>6. Running'
      BY <2>2, <3>1, <1>h DEF Running, LoginAgain
    <3>7. UplinkInv'
      BY <3>1, <3>2, <3>3, <1>i, <1>h, AppendKeeps
    <3> QED BY <3>1, <3>5, <3>6, <3>7, <1>h, HeldKept
  <2>3. CASE SendOK(w)
    <3>1. /\ UNCHANGED <<online, asking, prompted, up, stop, exits, gen, held, uplink, aes_keys,
                         pending, todo>>
          /\ GenGrows /\ Deliver(w, OKFrame(w))
      BY <2>3, <1>g DEF SendOK
    <3>2. OKFrame(w) \in Frame
      BY OtherFramesTyped
    <3>3. ~IsExchange(OKFrame(w))
      BY DEF OKFrame, IsExchange
    <3>4. \A u, p \in User : Moved(u, p)
      BY <3>1, <3>2, <3>3, <1>i, DeliverMoves DEF InHand
    <3>5. Pairs'
      BY <3>1, <3>4, <1>i, PairsKept
    <3> QED BY <3>1, <3>5, <1>h, HeldKept, UplinkKept DEF Running
  <2>4. ASSUME NEW f, LoginDone(w, f) \/ LoginDrops(w, f)
         PROVE  Running' /\ HeldInv' /\ UplinkInv' /\ Pairs'
    <3>1. /\ UNCHANGED <<online, stop, exits, gen, held, uplink, aes_keys, pending, todo>>
          /\ GenGrows /\ up \subseteq up' /\ Takes(w, f) /\ w \in asking
      BY <2>4, <1>g DEF LoginDone, LoginDrops, TakesReply
    <3>2. Pairs'
      <4>1. CASE IsExchange(f)
        <5>1. LoginDrops(w, f) /\ up' = up
          BY <2>4, <4>1 DEF LoginDone, LoginDrops, IsExchange
        <5> QED BY <5>1, <4>1, <3>1, <1>i, PairsDropped
      <4>2. CASE ~IsExchange(f)
        <5>1. \A u, p \in User : Moved(u, p)
          BY <4>2, <3>1, <1>i, TakeMoves DEF InHand, Exchanges
        <5> QED BY <5>1, <3>1, <1>i, PairsKept
      <4> QED BY <4>1, <4>2
    <3>3. Running'
      BY <2>4, <3>1, <1>h DEF Running, LoginDone, LoginDrops, TakesReply
    <3> QED BY <3>1, <3>2, <3>3, <1>h, HeldKept, UplinkKept
  <2>5. ASSUME NEW p \in User, StartE2E(w, p) PROVE Running' /\ HeldInv' /\ UplinkInv' /\ Pairs'
    <3>1. /\ Idle(w, "main") /\ Hold(w, "main", InitFrame(p, NewPair(w))) /\ w \in up
          /\ UNCHANGED <<online, asking, prompted, up, exits, stop, uplink, inbox, aes_keys, todo>>
          /\ "main" \in Thread
      BY <2>5 DEF StartE2E, Thread
    <3>2. /\ <<w, p>> \in Initiates /\ aes_keys[w][p] = {} /\ pending[w][p] = 0 /\ p \in online
      BY <2>5, <1>i DEF StartE2E, RotInv, AsIntended
    <3>3. pending[p][w] = 0 /\ w # p
      BY <3>2, <1>i, AskerNotAsked
    <3>4. pending' = [pending EXCEPT ![w][p] = gen[w] + 1]
      BY <2>5, <3>2, <1>i DEF StartE2E, TypeOK
    <3>5. GenGrows
      BY <2>5, <1>i, GenerateGrows DEF StartE2E
    <3>6. p \notin todo'[w] /\ w \notin todo'[p]
      <4>1. Due(w, p) /\ Due(p, w)
        BY <1>i DEF RotInv, PairInv
      <4>2. aes_keys[p][w] = {}
        BY <3>2, <3>3, <1>i, NothingUnder
      <4> QED BY <4>1, <4>2, <3>1, <3>2 DEF Due
    <3>7. PairInv(w, p)' /\ PairInv(p, w)'
      BY <3>1, <3>2, <3>3, <3>4, <3>6, <1>i, PairAsks
    <3>8. \A a, b \in User : \/ (a = w /\ b = p) \/ (a = p /\ b = w)
                             \/ /\ Moved(a, b) /\ aes_keys'[a][b] = aes_keys[a][b]
                                /\ pending'[a][b] = pending[a][b]
      <4> SUFFICES ASSUME NEW a \in User, NEW b \in User, a # w \/ b # p
                   PROVE  Moved(a, b) /\ pending'[a][b] = pending[a][b]
        BY <3>1
      <4>1. ~(a = w /\ Exchanges(InitFrame(p, NewPair(w)), b))
        BY DEF Exchanges, InitFrame
      <4>2. Moved(a, b)
        BY <4>1, <3>1, <1>i, HoldMoves
      <4>3. pending'[a][b] = pending[a][b]
        BY <3>4, <1>i DEF TypeOK
      <4> QED BY <4>2, <4>3
    <3>9. Pairs'
      BY <3>1, <3>5, <3>7, <3>8, <1>i, PairsBut
    <3>10. HeldInv'
      <4>1. InitFrame(p, NewPair(w)).type = "INIT"
        BY DEF InitFrame
      <4> QED BY <4>1, <3>1, <1>i, <1>h, HoldKeeps
    <3> QED BY <3>1, <3>9, <3>10, <1>h, UplinkKept DEF Running
  <2>6. ASSUME NEW p \in User, Chat(w, p) PROVE Running' /\ HeldInv' /\ UplinkInv' /\ Pairs'
    <3>f. PICK f : f = ChatFrame(p, aes_keys[w][p], Len(typed[w]) + 1)
      OBVIOUS
    <3>1. /\ Idle(w, "main") /\ Hold(w, "main", f) /\ w \in up
          /\ UNCHANGED <<online, asking, prompted, up, exits, stop, uplink, inbox, aes_keys, todo, pending, gen>>
          /\ "main" \in Thread
      BY <2>6, <3>f DEF Chat, Thread
    <3>2. f.type = "CHAT" /\ \A b : ~Exchanges(f, b)
      BY <3>f DEF ChatFrame, Exchanges, IsExchange
    <3>3. GenGrows
      BY <3>1, <1>g
    <3>4. \A a, b \in User : Moved(a, b)
      BY <3>1, <3>2, <1>i, HoldMoves
    <3>5. Pairs'
      BY <3>1, <3>3, <3>4, <1>i, PairsKept
    <3>6. HeldInv'
      BY <3>1, <3>2, <1>i, <1>h, HoldKeeps
    <3> QED BY <3>1, <3>5, <3>6, <1>h, UplinkKept DEF Running
  <2>7. ASSUME NEW t \in Thread, SendFrame(w, t)
        PROVE  Running' /\ HeldInv' /\ UplinkInv' /\ Pairs'
    <3>1. UNCHANGED <<online, asking, prompted, up, exits, stop, aes_keys, todo, pending, gen>> /\ GenGrows
      BY <2>7, <1>g DEF SendFrame
    <3>2. \A a, b \in User : Moved(a, b)
      BY <2>7, <1>i, SendMoves
    <3>3. Pairs'
      BY <3>1, <3>2, <1>i, PairsKept
    <3>4. HeldInv' /\ UplinkInv'
      BY <2>7, <1>i, <1>h, SendKeeps
    <3> QED BY <3>1, <3>3, <3>4, <1>h DEF Running
  <2>8. CASE RefreshTick(w)
    <3>1. UNCHANGED <<online, asking, prompted, up, exits, stop, aes_keys, held, uplink, inbox, pending, gen>>
      BY <2>8 DEF RefreshTick
    <3>2. ASSUME NEW a \in User, NEW b \in User PROVE PairInv(a, b)'
      <4>1. PairInv(a, b) /\ Moved(a, b) /\ Moved(b, a)
        BY <3>1, <1>i, <1>n DEF RotInv
      <4>2. Under(a, b)' = Under(a, b) /\ Under(b, a)' = Under(b, a)
        BY <3>1 DEF Under, InHand
      <4>3. Due(a, b)'
        <5>1. CASE b \in todo[a]
          BY <5>1, <4>1, <3>1 DEF PairInv, Due
        <5>2. CASE b \in todo'[a] /\ b \notin todo[a]
          <6>1. a = w /\ aes_keys[w][b] # {} /\ Rank[w] < Rank[b] /\ Quiet(w, b)
            BY <5>2, <2>8, <1>i, TickVisits
          <6> QED BY <6>1, <3>1 DEF Due, Quiet
        <5>3. CASE b \notin todo'[a]
          BY <5>3 DEF Due
        <5> QED BY <5>1, <5>2, <5>3
      <4>4. OneExchange(a, b)' /\ OneDirection(a, b)' /\ Awaited(a, b)' /\ Agreed(a, b)'
            /\ Present(a, b)'
        BY <4>1, <4>2, <3>1 DEF PairInv, OneExchange, OneDirection, Awaited, Lost, Agreed,
                                Present
      <4>5. Meant(a, b)'
        BY <4>1, <4>2, <3>1 DEF PairInv, Meant, Asked, Answered
      <4> QED BY <4>3, <4>4, <4>5 DEF PairInv
    <3> QED BY <3>1, <3>2, <1>h, HeldKept, UplinkKept DEF Running
  <2>9. CASE RefreshPeer(w)
    <3>1. PICK p \in todo[w] : /\ todo' = [todo EXCEPT ![w] = @ \ {p}]
                               /\ Generate(w)
                               /\ pending' = [pending EXCEPT ![w][p] = gen[w] + 1]
                               /\ Hold(w, "refresher", InitFrame(p, NewPair(w)))
      BY <2>9 DEF RefreshPeer
    <3>2. /\ UNCHANGED <<online, asking, prompted, up, exits, stop, aes_keys, uplink, inbox>>
          /\ Idle(w, "refresher") /\ "refresher" \in Thread /\ p \in User
      BY <2>9, <1>i DEF RefreshPeer, Thread, TypeOK
    <3>3. PairInv(w, p) /\ PairInv(p, w)
      BY <3>2, <1>i DEF RotInv
    <3>4. /\ Rank[w] < Rank[p] /\ Rank[w] \in Nat /\ Rank[p] \in Nat
          /\ aes_keys[w][p] # {} /\ pending[w][p] = 0 /\ pending[p][w] = 0
      BY <3>1, <3>2, <3>3, RankAssumption DEF PairInv, Due
    <3>5. w # p /\ w \in up /\ p \in up /\ p \in online
      BY <3>3, <3>4, <1>h DEF PairInv, Present, Running
    <3>6. p \notin todo'[w] /\ w \notin todo'[p] /\ \A a \in User : todo'[a] \subseteq todo[a]
      <4>1. p \notin todo'[w] /\ \A a \in User : todo'[a] \subseteq todo[a]
        BY <3>1, <1>i DEF TypeOK
      <4>2. w \notin todo[p]
        BY <3>3, <3>4 DEF PairInv, Due
      <4> QED BY <4>1, <4>2, <3>2
    <3>7. GenGrows
      BY <3>1, <1>i, GenerateGrows
    <3>8. PairInv(w, p)' /\ PairInv(p, w)'
      BY <3>1, <3>2, <3>4, <3>5, <3>6, <1>i, PairAsks
    <3>9. \A a, b \in User : \/ (a = w /\ b = p) \/ (a = p /\ b = w)
                             \/ /\ Moved(a, b) /\ aes_keys'[a][b] = aes_keys[a][b]
                                /\ pending'[a][b] = pending[a][b]
      <4> SUFFICES ASSUME NEW a \in User, NEW b \in User, a # w \/ b # p
                   PROVE  Moved(a, b) /\ pending'[a][b] = pending[a][b]
        BY <3>2
      <4>1. ~(a = w /\ Exchanges(InitFrame(p, NewPair(w)), b))
        BY DEF Exchanges, InitFrame
      <4>2. Moved(a, b)
        BY <4>1, <3>1, <3>2, <1>i, HoldMoves
      <4>3. pending'[a][b] = pending[a][b]
        BY <3>1, <3>2, <1>i DEF TypeOK
      <4> QED BY <4>2, <4>3
    <3>10. Pairs'
      BY <3>2, <3>6, <3>7, <3>8, <3>9, <1>i, PairsBut
    <3>11. HeldInv'
      <4>1. InitFrame(p, NewPair(w)).type = "INIT"
        BY DEF InitFrame
      <4> QED BY <4>1, <3>1, <3>2, <3>5, <1>i, <1>h, HoldKeeps
    <3> QED BY <3>2, <3>10, <3>11, <1>h, UplinkKept DEF Running
  <2>10. ASSUME NEW f, RecvInit(w, f) PROVE Running' /\ HeldInv' /\ UplinkInv' /\ Pairs'
    <3>1. /\ UNCHANGED <<online, asking, prompted, up, exits, stop, uplink>>
          /\ w \in up /\ Idle(w, "receiver") /\ "receiver" \in Thread
          /\ Hold(w, "receiver", AckFrame(f.peer, NewPair(w)))
      BY <2>10 DEF RecvInit, Receives, Thread
    <3>2. GenGrows
      BY <2>10, <1>i, GenerateGrows DEF RecvInit
    <3>3. Pairs'
      BY <2>10, <3>2, <1>i, PairsAnswered
    <3>4. HeldInv'
      <4>1. AckFrame(f.peer, NewPair(w)).type = "ACK"
        BY DEF AckFrame
      <4> QED BY <4>1, <3>1, <1>i, <1>h, HoldKeeps
    <3> QED BY <3>1, <3>3, <3>4, <1>h, UplinkKept DEF Running
  <2>11. ASSUME NEW f, RecvAck(w, f) \/ RecvUnexpectedAck(w, f)
        PROVE  Running' /\ HeldInv' /\ UplinkInv' /\ Pairs'
    <3>1. UNCHANGED <<online, asking, prompted, up, exits, stop, uplink, held, gen>> /\ GenGrows
      BY <2>11, <1>g DEF RecvAck, RecvUnexpectedAck
    <3>2. Pairs'
      BY <2>11, <3>1, <1>i, PairsSettled
    <3> QED BY <3>1, <3>2, <1>h, HeldKept, UplinkKept DEF Running
  <2>12. ASSUME NEW f, RecvChat(w, f) \/ RecvError(w, f)
        PROVE  Running' /\ HeldInv' /\ UplinkInv' /\ Pairs'
    <3>1. /\ UNCHANGED <<online, asking, prompted, up, exits, stop, uplink, held, gen, aes_keys, pending, todo>>
          /\ GenGrows /\ Takes(w, f) /\ ~IsExchange(f)
      BY <2>12, <1>g DEF RecvChat, RecvError, Receives, IsExchange
    <3>2. ASSUME NEW a \in User, NEW b \in User PROVE Moved(a, b)
      <4>1. InHand(a, b)' = InHand(a, b)
        BY <3>1 DEF InHand
      <4> QED BY <4>1, <3>1, <1>i, TakeMoves DEF Exchanges
    <3>3. Pairs'
      BY <3>1, <3>2, <1>i, PairsKept
    <3> QED BY <3>1, <3>3, <1>h, HeldKept, UplinkKept DEF Running
  <2>13. ASSUME NEW f, Relay(w, f) \/ RelayNotFound(w, f) \/ HandleLogin(w, f)
         PROVE  Running' /\ HeldInv' /\ UplinkInv' /\ Pairs'
    <3>1. /\ UNCHANGED <<online, asking, prompted, up, exits, stop, held, gen, aes_keys, pending, todo>>
          /\ GenGrows /\ f \in First(uplink[w]) /\ uplink' = [uplink EXCEPT ![w] = Tail(@)]
      BY <2>13, <1>g DEF Relay, RelayNotFound, HandleLogin, Handles
    <3>2. \A a, b \in User : Moved(a, b)
      BY <2>13, <1>i, RelayMoves, NotFoundMoves, LoginMoves
    <3>3. Pairs'
      BY <3>1, <3>2, <1>i, PairsKept
    <3>4. UplinkInv'
      BY <3>1, <1>i, <1>h, TailKeeps
    <3> QED BY <3>1, <3>3, <3>4, <1>h, HeldKept DEF Running
  <2> QED BY <2>1, <2>2, <2>3, <2>4, <2>5, <2>6, <2>7, <2>8, <2>9, <2>10,
             <2>11, <2>12, <2>13 DEF IntendedStep
<1> QED BY <1>1, <1>2

\* Used as intended, the clients and the relay keep the invariant.
LEMMA RotationInvariance == AsIntended /\ Spec => []RInv
<1>1. AsIntended /\ Init => RInv
  BY InitRInv
<1>2. RInv /\ [Next]_vars => RInv'
  BY NextRInv
<1> QED BY <1>1, <1>2, PTL DEF Spec

\* Used as intended, the two ends of a session that no key exchange is under way
\* for show the same fingerprint, however the three threads of each client, the
\* chat lines, the other sessions and the relay interleave (receive_messages and
\* refresher_func of the client; "these should match" in phase4/README.md).
THEOREM FingerprintsAgree == AsIntended /\ Spec => []FingerprintsMatch
<1>1. RInv => FingerprintsMatch
  <2> SUFFICES ASSUME RInv, NEW u \in up, NEW p \in up, Quiet(u, p)
               PROVE  aes_keys[u][p] = aes_keys[p][u]
    BY DEF FingerprintsMatch
  <2>1. u \in User /\ p \in User /\ pending[u][p] = 0 /\ pending[p][u] = 0
    BY DEF RInv, IInv, TypeOK, Quiet
  <2> QED BY <2>1, NothingUnder DEF RInv
<1> QED BY <1>1, RotationInvariance, PTL

\* Used as intended, every E2E_REPLY on its way to a client answers the keypair
\* that the client has pending: with it receive_messages computes the key that
\* the answerer stored.
THEOREM AnswersMeetQuestions == AsIntended /\ Spec => []AckAnswersPending
<1>1. RInv => AckAnswersPending
  <2> SUFFICES ASSUME RInv, NEW u \in User, NEW p \in User, NEW i \in 1..Len(inbox[u]),
                      inbox[u][i].type = "ACK", inbox[u][i].peer = p,
                      NEW b \in inbox[u][i].pub
               PROVE  Secret(<<u, pending[u][p]>>, b) = aes_keys[p][u]
    BY DEF AckAnswersPending
  <2>1. PICK f : f = inbox[u][i]
    OBVIOUS
  <2>2. <<"inbox", i, f>> \in Under(p, u)
    BY <2>1 DEF Under, Queued, Exchanges, IsExchange
  <2>3. Asked(p, u, f) \/ Answered(p, u, f)
    BY <2>2 DEF RInv, RotInv, PairInv, Meant
  <2>4. Answered(p, u, f)
    BY <2>1, <2>3 DEF Asked
  <2> QED BY <2>1, <2>4 DEF Answered, Secret
<1> QED BY <1>1, RotationInvariance, PTL

(***************************************************************************)
(* The steps by what they do to keys and pending keypairs.                 *)
(***************************************************************************)
Asks(w, p) ==
  /\ aes_keys' = aes_keys
  /\ pending[w][p] = 0 /\ pending[p][w] = 0
  /\ pending' = [pending EXCEPT ![w][p] = gen[w] + 1]

LEMMA KeySteps ==
  ASSUME RInv, [Next]_vars
  PROVE  \/ aes_keys' = aes_keys /\ pending' = pending
         \/ \E w, p \in User : Asks(w, p)
         \/ \E w \in User : \E f : RecvInit(w, f) \/ RecvAck(w, f)
<1>1. TypeOK /\ RotInv
  BY DEF RInv, IInv
<1> USE DEF serverVars, loginVars, keyVars, chatVars
<1>2. CASE UNCHANGED vars
  BY <1>2 DEF vars
<1>3. CASE Next
  <2> PICK w \in User : IntendedStep(w)
    BY <1>3, <1>1, IntendedSteps
  <2>1. CASE Login(w) \/ RefreshTick(w) \/ \E p \in User : Chat(w, p)
    BY <2>1 DEF Login, RefreshTick, Chat
  <2>2. CASE LoginAgain(w) \/ SendOK(w) \/ \E f : LoginDone(w, f) \/ LoginDrops(w, f)
    BY <2>2 DEF LoginAgain, SendOK, LoginDone, LoginDrops, TakesReply
  <2>3. CASE \E t \in Thread : SendFrame(w, t)
    BY <2>3 DEF SendFrame
  <2>4. ASSUME NEW p \in User, StartE2E(w, p) PROVE Asks(w, p)
    <3>1. <<w, p>> \in Initiates /\ aes_keys[w][p] = {} /\ pending[w][p] = 0
      BY <2>4, <1>1 DEF StartE2E, RotInv, AsIntended
    <3>2. pending[p][w] = 0
      BY <3>1, <1>1, AskerNotAsked
    <3>3. pending' = [pending EXCEPT ![w][p] = gen[w] + 1]
      BY <2>4, <3>1, <1>1 DEF StartE2E, TypeOK
    <3> QED BY <2>4, <3>1, <3>2, <3>3 DEF Asks, StartE2E
  <2>5. CASE RefreshPeer(w)
    <3>1. PICK p \in todo[w] : pending' = [pending EXCEPT ![w][p] = gen[w] + 1]
      BY <2>5 DEF RefreshPeer
    <3>2. p \in User /\ aes_keys' = aes_keys
      BY <2>5, <1>1 DEF RefreshPeer, TypeOK
    <3>3. PairInv(w, p)
      BY <3>2, <1>1 DEF RotInv
    <3> QED BY <3>1, <3>2, <3>3 DEF PairInv, Due, Asks
  <2>6. CASE \E f : RecvUnexpectedAck(w, f) \/ RecvChat(w, f) \/ RecvError(w, f)
    BY <2>6 DEF RecvUnexpectedAck, RecvChat, RecvError
  <2>7. CASE \E f : Relay(w, f) \/ RelayNotFound(w, f) \/ HandleLogin(w, f)
    BY <2>7 DEF Relay, RelayNotFound, HandleLogin, Handles
  <2> QED BY <2>1, <2>2, <2>3, <2>4, <2>5, <2>6, <2>7 DEF IntendedStep
<1> QED BY <1>2, <1>3

\* What the receiver's two steps do to the keys.
LEMMA InitStep ==
  ASSUME RInv, RInv', NEW w \in User, NEW f, RecvInit(w, f)
  PROVE  \E v \in User :
           /\ v # w /\ v = f.peer /\ Asked(v, w, f) /\ pending' = pending
           /\ aes_keys' = [aes_keys EXCEPT ![w][v] =
                             {<<w, gen[w] + 1>>, <<v, pending[v][w]>>}]
<1>1. GenGrows
  BY GenerateGrows DEF RecvInit, RInv, IInv
<1>2. TypeOK' /\ TypeOK
  BY DEF RInv, IInv
<1>3. Asked(f.peer, w, f) /\ f.peer \in User /\ f.peer # w
  BY <1>1, <1>2, PairsAnswered
<1>4. PICK v \in User : v = f.peer
  BY <1>3
<1>5. PICK b \in f.pub : aes_keys' = [aes_keys EXCEPT ![w][v] = Secret(NewPair(w), b)]
  BY <1>4 DEF RecvInit
<1>6. b = <<v, pending[v][w]>>
  BY <1>3, <1>4, <1>5 DEF Asked
<1>7. Secret(NewPair(w), b) = {<<w, gen[w] + 1>>, <<v, pending[v][w]>>}
  BY <1>6 DEF Secret, NewPair
<1> QED BY <1>3, <1>4, <1>5, <1>7 DEF RecvInit

LEMMA AckStep ==
  ASSUME RInv, RInv', NEW w \in User, NEW f, RecvAck(w, f)
  PROVE  \E v \in User :
           /\ v # w /\ v = f.peer /\ Answered(v, w, f)
           /\ aes_keys' = [aes_keys EXCEPT ![w][v] = aes_keys[v][w]]
           /\ pending' = [pending EXCEPT ![w][v] = 0]
<1>1. GenGrows
  BY GenerateGrows DEF RecvAck, RInv, IInv
<1>2. TypeOK'
  BY DEF RInv, IInv
<1>3. /\ Answered(f.peer, w, f) /\ f.peer \in User /\ f.peer # w
      /\ aes_keys' = [aes_keys EXCEPT ![w][f.peer] = aes_keys[f.peer][w]]
  BY <1>1, <1>2, PairsSettled
<1> QED BY <1>3 DEF RecvAck

(***************************************************************************)
(* Keys do not come back.                                                  *)
(***************************************************************************)
NoSelf == \A u \in User : aes_keys[u][u] = {}

LEMMA NextNoSelf == RInv /\ RInv' /\ NoSelf /\ [Next]_vars => NoSelf'
<1> SUFFICES ASSUME RInv, RInv', NoSelf, [Next]_vars PROVE NoSelf'
  OBVIOUS
<1>t. aes_keys \in [User -> [User -> SUBSET Pair]]
  BY DEF RInv, IInv, TypeOK
<1>1. CASE aes_keys' = aes_keys
  BY <1>1 DEF NoSelf
<1>2. ASSUME NEW w \in User, NEW f, RecvInit(w, f) PROVE NoSelf'
  BY <1>2, <1>t, InitStep DEF NoSelf
<1>3. ASSUME NEW w \in User, NEW f, RecvAck(w, f) PROVE NoSelf'
  BY <1>3, <1>t, AckStep DEF NoSelf
<1> QED BY <1>1, <1>2, <1>3, KeySteps DEF Asks

\* The key that a client keeps is not newer than itself: it has one keypair of
\* each end.
LEMMA KeyKept ==
  ASSUME RInv, NoSelf, NEW u \in User, NEW p \in User
  PROVE  NotNewer(aes_keys[u][p], aes_keys[u][p])
<1> SUFFICES ASSUME NEW x \in aes_keys[u][p], NEW y \in aes_keys[u][p], x[1] = y[1]
             PROVE  x[2] <= y[2]
  BY DEF NotNewer
<1>1. u # p
  BY DEF NoSelf
<1>2. aes_keys[u][p] \in KeyOf(u, p)
  BY DEF RInv, IInv, KeyOwnership
<1>3. PICK a \in OwnPair(u), b \in OwnPair(p) : aes_keys[u][p] = {a, b}
  BY <1>2 DEF KeyOf, Secret
<1>4. a[1] = u /\ b[1] = p
  BY DEF OwnPair
<1>5. x = y
  BY <1>1, <1>3, <1>4
<1>6. x[2] \in Nat
  BY KeyAges DEF RInv
<1> QED BY <1>5, <1>6

LEMMA KeysAge ==
  ASSUME RInv, RInv', NoSelf, [Next]_vars, NEW u \in User, NEW p \in User
  PROVE  NotNewer(aes_keys[u][p], aes_keys'[u][p])
<1>t. /\ aes_keys \in [User -> [User -> SUBSET Pair]]
      /\ pending \in [User -> [User -> Nat]] /\ gen \in [User -> Nat]
  BY DEF RInv, IInv, TypeOK
<1>1. CASE aes_keys'[u][p] = aes_keys[u][p]
  BY <1>1, KeyKept
<1>2. ASSUME NEW w \in User, NEW f, RecvInit(w, f), aes_keys'[u][p] # aes_keys[u][p]
      PROVE  NotNewer(aes_keys[u][p], aes_keys'[u][p])
  <2>1. PICK v \in User :
           /\ Asked(v, w, f)
           /\ aes_keys' = [aes_keys EXCEPT ![w][v] =
                             {<<w, gen[w] + 1>>, <<v, pending[v][w]>>}]
    BY <1>2, InitStep
  <2>2. u = w /\ p = v /\ aes_keys'[u][p] = {<<w, gen[w] + 1>>, <<v, pending[v][w]>>}
    BY <2>1, <1>2, <1>t
  <2>3. Older(aes_keys[w][v], {<<w, gen[w] + 1>>})
    BY NextIsNewer DEF RInv
  <2>4. Older(aes_keys[w][v], {<<v, pending[v][w]>>})
    BY <2>1 DEF Asked
  <2>5. \A x \in aes_keys[w][v] : x[2] \in Nat
    BY KeyAges DEF RInv
  <2>6. pending[v][w] \in Nat /\ gen[w] \in Nat
    BY <1>t
  <2> QED BY <2>2, <2>3, <2>4, <2>5, <2>6 DEF NotNewer, Older
<1>3. ASSUME NEW w \in User, NEW f, RecvAck(w, f), aes_keys'[u][p] # aes_keys[u][p]
      PROVE  NotNewer(aes_keys[u][p], aes_keys'[u][p])
  <2>1. PICK v \in User : /\ Answered(v, w, f)
                          /\ aes_keys' = [aes_keys EXCEPT ![w][v] = aes_keys[v][w]]
    BY <1>3, AckStep
  <2>2. u = w /\ p = v /\ aes_keys'[u][p] = aes_keys[v][w]
    BY <2>1, <1>3, <1>t
  <2> QED BY <2>1, <2>2 DEF Answered
<1> QED BY <1>1, <1>2, <1>3, KeySteps DEF Asks

\* Used as intended, no client ever goes back to a session key with an older
\* keypair of either end: neither an INIT that receive_messages answers nor an
\* answer that it takes brings back a key from before.
THEOREM KeysNeverRollBack == AsIntended /\ Spec => NoRollback
<1>1. AsIntended /\ Spec => [](RInv /\ NoSelf)
  <2>1. AsIntended /\ Init => NoSelf
    BY DEF Init, NoSelf
  <2>2. RInv /\ RInv' /\ NoSelf /\ [Next]_vars => NoSelf'
    BY NextNoSelf
  <2> QED BY <2>1, <2>2, RotationInvariance, PTL DEF Spec
<1>2. RInv /\ RInv' /\ NoSelf /\ [Next]_vars =>
        [\A u, p \in User : \A x \in aes_keys[u][p], y \in aes_keys'[u][p] :
           x[1] = y[1] => x[2] <= y[2]]_vars
  <2> SUFFICES ASSUME RInv, RInv', NoSelf, [Next]_vars
               PROVE  \A u, p \in User : \A x \in aes_keys[u][p], y \in aes_keys'[u][p] :
                        x[1] = y[1] => x[2] <= y[2]
    OBVIOUS
  <2>1. \A u, p \in User : NotNewer(aes_keys[u][p], aes_keys'[u][p])
    BY KeysAge
  <2> QED BY <2>1 DEF NotNewer
<1> QED BY <1>1, <1>2, PTL DEF Spec, NoRollback

(***************************************************************************)
(* The refinement of KeyRotation.  An end is ahead of the other while its  *)
(* answer is under way; by the invariant this can be read off the keys.    *)
(***************************************************************************)
Ahead(p, u) == pending[u][p] # 0 /\ <<u, pending[u][p]>> \in aes_keys[p][u]

LEMMA AheadIsAnswer ==
  ASSUME RInv, NEW u \in User, NEW p \in User
  PROVE  AckFromTo(p, u) <=> Ahead(p, u)
<1>r. PairInv(p, u) /\ PairInv(u, p) /\ HeldInv
  BY DEF RInv, RotInv
<1>0. "receiver" \in Thread
  BY DEF Thread
<1>1. ASSUME AckFromTo(p, u) PROVE Ahead(p, u)
  <2>1. PICK x \in Under(p, u) : x[3].type = "ACK"
    <3>1. CASE \E f \in held[p]["receiver"] : f.type = "ACK" /\ f.peer = u
      <4>1. PICK f \in held[p]["receiver"] : f.type = "ACK" /\ f.peer = u
        BY <3>1
      <4>2. <<"held", "receiver", f>> \in InHand(p, u)
        BY <4>1, <1>0 DEF InHand, Exchanges, IsExchange
      <4> QED BY <4>1, <4>2 DEF Under
    <3>2. CASE \E i \in 1..Len(uplink[p]) : uplink[p][i].type = "ACK" /\ uplink[p][i].peer = u
      <4>1. PICK i \in 1..Len(uplink[p]) : uplink[p][i].type = "ACK" /\ uplink[p][i].peer = u
        BY <3>2
      <4>2. <<"uplink", i, uplink[p][i]>> \in Queued("uplink", uplink[p], u)
        BY <4>1 DEF Queued, Exchanges, IsExchange
      <4> QED BY <4>1, <4>2 DEF Under
    <3>3. CASE \E i \in 1..Len(inbox[u]) : inbox[u][i].type = "ACK" /\ inbox[u][i].peer = p
      <4>1. PICK i \in 1..Len(inbox[u]) : inbox[u][i].type = "ACK" /\ inbox[u][i].peer = p
        BY <3>3
      <4>2. <<"inbox", i, inbox[u][i]>> \in Queued("inbox", inbox[u], p)
        BY <4>1 DEF Queued, Exchanges, IsExchange
      <4> QED BY <4>1, <4>2 DEF Under
    <3> QED BY <1>1, <3>1, <3>2, <3>3 DEF AckFromTo
  <2>2. Asked(p, u, x[3]) \/ Answered(p, u, x[3])
    BY <1>r DEF PairInv, Meant
  <2> QED BY <2>1, <2>2 DEF Asked, Answered, Ahead
<1>2. ASSUME Ahead(p, u) PROVE AckFromTo(p, u)
  <2>1. PICK x \in Under(u, p) \cup Under(p, u) : TRUE
    BY <1>2, <1>r DEF Ahead, PairInv, Awaited, Lost
  <2>2. ~Asked(p, u, x[3]) /\ ~Answered(u, p, x[3])
    BY <1>2 DEF Ahead, Asked, Answered
  <2>3. ~Asked(u, p, x[3])
    <3>1. SUFFICES ASSUME Asked(u, p, x[3]) PROVE FALSE
      OBVIOUS
    <3>2. <<u, pending[u][p]>> \in aes_keys[u][p] /\ pending[u][p] \in Nat
      BY <1>2, <3>1 DEF Ahead, Asked, RInv, IInv, TypeOK
    <3>3. Older(aes_keys[u][p], {<<u, pending[u][p]>>})
      BY <3>1 DEF Asked
    <3> QED BY <3>2, <3>3 DEF Older
  <2>4. x \in Under(p, u) /\ x[3].type = "ACK"
    BY <2>1, <2>2, <2>3, <1>r DEF PairInv, Meant, Answered
  <2>5. CASE x \in InHand(p, u)
    <3>1. PICK t \in Thread : \E f \in held[p][t] : Exchanges(f, u) /\ x = <<"held", t, f>>
      BY <2>5 DEF InHand
    <3>2. PICK f \in held[p][t] : Exchanges(f, u) /\ x = <<"held", t, f>>
      BY <3>1
    <3>3. f.type = "ACK" /\ t = "receiver"
      BY <2>4, <3>2, <1>r DEF HeldInv
    <3> QED BY <3>2, <3>3 DEF AckFromTo, Exchanges
  <2>6. CASE x \in Queued("uplink", uplink[p], u)
    <3>1. PICK i \in 1..Len(uplink[p]) :
            x = <<"uplink", i, uplink[p][i]>> /\ Exchanges(uplink[p][i], u)
      BY <2>6, QueuedElement
    <3> QED BY <2>4, <3>1 DEF AckFromTo, Exchanges
  <2>7. CASE x \in Queued("inbox", inbox[u], p)
    <3>1. PICK i \in 1..Len(inbox[u]) :
            x = <<"inbox", i, inbox[u][i]>> /\ Exchanges(inbox[u][i], p)
      BY <2>7, QueuedElement
    <3> QED BY <2>4, <3>1 DEF AckFromTo, Exchanges
  <2> QED BY <2>4, <2>5, <2>6, <2>7 DEF Under
<1> QED BY <1>1, <1>2

AheadSet == {e \in User \X User : AckFromTo(e[1], e[2])}

LEMMA AheadElement ==
  RInv => \A p, u \in User : <<p, u>> \in AheadSet <=> Ahead(p, u)
BY AheadIsAnswer DEF AheadSet

\* Between two sets of pairs of users.
LEMMA SamePairs ==
  ASSUME NEW S, NEW T, S \subseteq User \X User, T \subseteq User \X User,
         \A a, b \in User : <<a, b>> \in S <=> <<a, b>> \in T
  PROVE  S = T
OBVIOUS

LEMMA AheadElementNext ==
  ASSUME RInv'
  PROVE  \A p, u \in User : <<p, u>> \in AheadSet' <=> Ahead(p, u)'
<1>1. (RInv => \A p, u \in User : <<p, u>> \in AheadSet <=> Ahead(p, u))'
  BY AheadElement, PTL
<1> QED BY <1>1

\* The set stays, gets one pair more, or one less.
LEMMA AheadStays ==
  ASSUME RInv, RInv', \A a, b \in User : Ahead(a, b)' <=> Ahead(a, b)
  PROVE  AheadSet' = AheadSet
<1>1. AheadSet' \subseteq User \X User /\ AheadSet \subseteq User \X User
  BY DEF AheadSet
<1>2. ASSUME NEW a \in User, NEW b \in User
      PROVE  <<a, b>> \in AheadSet' <=> <<a, b>> \in AheadSet
  BY AheadElement, AheadElementNext
<1> QED BY <1>1, <1>2, SamePairs

LEMMA AheadGains ==
  ASSUME RInv, RInv', NEW w \in User, NEW v \in User, Ahead(w, v)',
         \A a, b \in User : a # w \/ b # v => (Ahead(a, b)' <=> Ahead(a, b))
  PROVE  AheadSet' = AheadSet \cup {<<w, v>>}
<1>1. AheadSet' \subseteq User \X User /\ AheadSet \cup {<<w, v>>} \subseteq User \X User
  BY DEF AheadSet
<1>2. ASSUME NEW a \in User, NEW b \in User
      PROVE  <<a, b>> \in AheadSet' <=> <<a, b>> \in AheadSet \cup {<<w, v>>}
  BY AheadElement, AheadElementNext
<1> QED BY <1>1, <1>2, SamePairs

LEMMA AheadLoses ==
  ASSUME RInv, RInv', NEW w \in User, NEW v \in User, ~Ahead(w, v)',
         \A a, b \in User : a # w \/ b # v => (Ahead(a, b)' <=> Ahead(a, b))
  PROVE  AheadSet' = AheadSet \ {<<w, v>>}
<1>1. AheadSet' \subseteq User \X User /\ AheadSet \ {<<w, v>>} \subseteq User \X User
  BY DEF AheadSet
<1>2. ASSUME NEW a \in User, NEW b \in User
      PROVE  <<a, b>> \in AheadSet' <=> <<a, b>> \in AheadSet \ {<<w, v>>}
  BY AheadElement, AheadElementNext
<1> QED BY <1>1, <1>2, SamePairs

\* The receiver that answers an INIT gets ahead with a key of its own making.
LEMMA InitRenews ==
  ASSUME RInv, RInv', NEW w \in User, NEW f, RecvInit(w, f)
  PROVE  \E v \in User : v # w /\ Rotation!Renew(w, v)
<1>t. /\ aes_keys \in [User -> [User -> SUBSET Pair]]
      /\ pending \in [User -> [User -> Nat]] /\ gen \in [User -> Nat]
  BY DEF RInv, IInv, TypeOK
<1>1. PICK v \in User :
        /\ v # w /\ Asked(v, w, f) /\ pending' = pending
        /\ aes_keys' = [aes_keys EXCEPT ![w][v] =
                          {<<w, gen[w] + 1>>, <<v, pending[v][w]>>}]
  BY InitStep
<1>k. PICK k : k = {<<w, gen[w] + 1>>, <<v, pending[v][w]>>}
  OBVIOUS
<1>2. /\ aes_keys' = [aes_keys EXCEPT ![w][v] = k] /\ aes_keys'[w][v] = k
      /\ \A a, b \in User : a # w \/ b # v => aes_keys'[a][b] = aes_keys[a][b]
  BY <1>1, <1>k, <1>t
<1>3. k # {} /\ k # aes_keys[w][v] /\ aes_keys[w][v] = aes_keys[v][w]
  <2>1. <<w, gen[w] + 1>> \notin aes_keys[w][v]
    <3>1. Older(aes_keys[w][v], {<<w, gen[w] + 1>>})
      BY NextIsNewer DEF RInv
    <3>2. gen[w] + 1 \in Nat
      BY <1>t
    <3> QED BY <3>1, <3>2 DEF Older
  <2> QED BY <2>1, <1>1, <1>k DEF Asked
<1>4. ~Ahead(w, v) /\ ~Ahead(v, w)
  <2>1. Older(aes_keys[w][v], {<<v, pending[v][w]>>}) /\ pending[w][v] = 0
    BY <1>1 DEF Asked
  <2>2. pending[v][w] \in Nat
    BY <1>t
  <2> QED BY <2>1, <2>2 DEF Ahead, Older
<1>5. Ahead(w, v)'
  BY <1>1, <1>2, <1>k DEF Asked, Ahead
<1>6. \A a, b \in User : a # w \/ b # v => (Ahead(a, b)' <=> Ahead(a, b))
  BY <1>1, <1>2 DEF Ahead
<1>7. AheadSet' = AheadSet \cup {<<w, v>>}
  BY <1>5, <1>6, AheadGains
<1>8. AheadSet \cap {<<w, v>>, <<v, w>>} = {}
  BY <1>4, AheadElement
<1> QED BY <1>1, <1>2, <1>3, <1>7, <1>8 DEF Rotation!Renew, AheadSet

\* The receiver that takes the answer follows.
LEMMA AckFollows ==
  ASSUME RInv, RInv', NEW w \in User, NEW f, RecvAck(w, f)
  PROVE  \E v \in User : v # w /\ Rotation!Follow(w, v)
<1>t. /\ aes_keys \in [User -> [User -> SUBSET Pair]]
      /\ pending \in [User -> [User -> Nat]]
  BY DEF RInv, IInv, TypeOK
<1>1. PICK v \in User :
        /\ v # w /\ Answered(v, w, f)
        /\ aes_keys' = [aes_keys EXCEPT ![w][v] = aes_keys[v][w]]
        /\ pending' = [pending EXCEPT ![w][v] = 0]
  BY AckStep
<1>2. /\ \A a, b \in User : a # w \/ b # v => aes_keys'[a][b] = aes_keys[a][b]
      /\ \A a, b \in User : a # w \/ b # v => pending'[a][b] = pending[a][b]
      /\ pending'[w][v] = 0
  BY <1>1, <1>t
<1>3. Ahead(v, w) /\ ~Ahead(v, w)'
  BY <1>1, <1>2 DEF Answered, Ahead
<1>4. ~Ahead(w, v) /\ ~Ahead(w, v)'
  BY <1>1, <1>2 DEF Answered, Ahead
<1>5. \A a, b \in User : a # v \/ b # w => (Ahead(a, b)' <=> Ahead(a, b))
  <2> SUFFICES ASSUME NEW a \in User, NEW b \in User, a # v \/ b # w
               PROVE  Ahead(a, b)' <=> Ahead(a, b)
    OBVIOUS
  <2>1. CASE a = w /\ b = v
    BY <2>1, <1>4
  <2>2. CASE a # w \/ b # v
    BY <2>2, <1>2 DEF Ahead
  <2> QED BY <2>1, <2>2
<1>6. AheadSet' = AheadSet \ {<<v, w>>}
  BY <1>3, <1>5, AheadLoses
<1>7. <<v, w>> \in AheadSet
  BY <1>3, AheadElement
<1> QED BY <1>1, <1>6, <1>7 DEF Rotation!Follow, AheadSet

LEMMA StepRotation == RInv /\ RInv' /\ [Next]_vars => [Rotation!Next]_(Rotation!vars)
<1> SUFFICES ASSUME RInv, RInv', [Next]_vars PROVE [Rotation!Next]_(Rotation!vars)
  OBVIOUS
<1>t. /\ aes_keys \in [User -> [User -> SUBSET Pair]]
      /\ pending \in [User -> [User -> Nat]] /\ gen \in [User -> Nat]
  BY DEF RInv, IInv, TypeOK
<1>1. ASSUME aes_keys' = aes_keys, \A a, b \in User : Ahead(a, b)' <=> Ahead(a, b)
      PROVE  UNCHANGED Rotation!vars
  BY <1>1, AheadStays DEF Rotation!vars, AheadSet
<1>2. CASE aes_keys' = aes_keys /\ pending' = pending
  BY <1>1, <1>2 DEF Ahead
<1>3. ASSUME NEW w \in User, NEW p \in User, Asks(w, p)
      PROVE  UNCHANGED Rotation!vars
  <2>1. /\ pending'[w][p] = gen[w] + 1 /\ pending[w][p] = 0
        /\ \A a, b \in User : a # w \/ b # p => pending'[a][b] = pending[a][b]
    BY <1>3, <1>t DEF Asks
  <2>2. <<w, gen[w] + 1>> \notin aes_keys[p][w]
    <3>1. Older(aes_keys[p][w], {<<w, gen[w] + 1>>})
      BY NextIsNewer DEF RInv
    <3>2. gen[w] + 1 \in Nat
      BY <1>t
    <3> QED BY <3>1, <3>2 DEF Older
  <2>3. ~Ahead(p, w) /\ ~Ahead(p, w)'
    BY <2>1, <2>2, <1>3 DEF Ahead, Asks
  <2>4. ASSUME NEW a \in User, NEW b \in User PROVE Ahead(a, b)' <=> Ahead(a, b)
    <3>1. CASE a = p /\ b = w
      BY <3>1, <2>3
    <3>2. CASE a # p \/ b # w
      BY <3>2, <2>1, <1>3 DEF Ahead, Asks
    <3> QED BY <3>1, <3>2
  <2> QED BY <2>4, <1>1, <1>3 DEF Asks
<1>4. ASSUME NEW w \in User, NEW f, RecvInit(w, f) PROVE Rotation!Next
  BY <1>4, InitRenews DEF Rotation!Next
<1>5. ASSUME NEW w \in User, NEW f, RecvAck(w, f) PROVE Rotation!Next
  BY <1>5, AckFollows DEF Rotation!Next
<1> QED BY <1>2, <1>3, <1>4, <1>5, KeySteps

\* Used as intended, the three threads of each client and the relay implement
\* the safety part of KeyRotation: a session's key changes in turns, first at the
\* end that answers, which makes a new one, then at the end that asked, which
\* takes that very key; no other step of receive_messages, refresher_func, the
\* user or the server changes a key or lets one end get two keys ahead.
THEOREM ImplementsRotation == AsIntended /\ Spec => RotationSafety
<1>1. Init => Rotation!Init
  <2> SUFFICES ASSUME Init PROVE Rotation!Init
    OBVIOUS
  <2>1. \A p, u \in User : ~AckFromTo(p, u)
    <3>1. "receiver" \in Thread
      BY DEF Thread
    <3> QED BY <3>1 DEF Init, AckFromTo
  <2>2. AheadSet = {}
    BY <2>1 DEF AheadSet
  <2> QED BY <2>2 DEF Rotation!Init, Init, AheadSet
<1>2. RInv /\ RInv' /\ [Next]_vars => [Rotation!Next]_(Rotation!vars)
  BY StepRotation
<1> QED BY <1>1, <1>2, RotationInvariance, PTL DEF Spec, RotationSafety, Rotation!Safety
=============================================================================
