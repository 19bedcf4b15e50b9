-------------------------- MODULE E2ESessionProofs --------------------------
(***************************************************************************)
(* Proofs about E2ESession, for any users, any order of their names, any   *)
(* commands and any bounds.                                                *)
(***************************************************************************)
EXTENDS E2ESession, TLAPS

USE DEF Thread

(***************************************************************************)
(* The steps a client and its handler can take, one disjunct per action:   *)
(* the proofs below go through them in this order.                         *)
(***************************************************************************)
Step(u) ==
  \/ Login(u) \/ LoginAgain(u) \/ SendOK(u)
  \/ \E f \in First(inbox[u]) : LoginDone(u, f) \/ LoginDrops(u, f)
  \/ \E p \in User : StartE2E(u, p) \/ Chat(u, p)
  \/ Quit(u) \/ Exit(u) \/ Kill(u)
  \/ \E t \in Thread : SendFrame(u, t)
  \/ RefreshTick(u) \/ RefreshPeer(u)
  \/ \E f \in First(inbox[u]) :
       RecvInit(u, f) \/ RecvAck(u, f) \/ RecvUnexpectedAck(u, f)
       \/ RecvChat(u, f) \/ RecvError(u, f)
  \/ \E f \in First(uplink[u]) :
       Relay(u, f) \/ RelayNotFound(u, f) \/ HandleQuit(u, f) \/ HandleLogin(u, f)
  \/ HandlerEnds(u)

LEMMA NextCases == ASSUME Next PROVE \E u \in User : Step(u)
  BY DEF Next, UserStep, SystemStep, LoginReply, Receiver, Handler, Step

\* The frames the program composes are frames.
LEMMA ExchangeFramesTyped ==
  ASSUME NEW p \in User, NEW a \in Pair
  PROVE  InitFrame(p, a) \in Frame /\ AckFrame(p, a) \in Frame
  BY DEF InitFrame, AckFrame, Frame, FrameType

LEMMA OtherFramesTyped ==
  ASSUME NEW p \in User
  PROVE  /\ QuitFrame(p) \in Frame /\ ErrorFrame(p) \in Frame
         /\ LoginFrame(p) \in Frame /\ OKFrame(p) \in Frame
  BY DEF QuitFrame, ErrorFrame, LoginFrame, OKFrame, Frame, FrameType

LEMMA FirstTyped ==
  ASSUME NEW S, NEW s \in Seq(S), NEW f \in First(s)
  PROVE  s # <<>> /\ f = Head(s) /\ f \in S /\ Tail(s) \in Seq(S)
         /\ f = s[1] /\ 1 \in 1..Len(s) /\ Len(Tail(s)) = Len(s) - 1
         /\ \A i \in 1..Len(Tail(s)) : Tail(s)[i] = s[i + 1] /\ i + 1 \in 1..Len(s)
  BY DEF First

\* What the helpers of an action leave within its type.
LEMMA HoldTyped ==
  ASSUME TypeOK, NEW u \in User, NEW t \in Thread, NEW f \in Frame, Hold(u, t, f)
  PROVE  held' \in [User -> [Thread -> SUBSET Frame]]
  BY DEF TypeOK, Hold

LEMMA GenerateTyped ==
  ASSUME TypeOK, NEW u \in User, Generate(u)
  PROVE  gen' \in [User -> Nat] /\ NewPair(u) \in Pair
  <1>1. gen \in [User -> Nat] /\ gen' = [gen EXCEPT ![u] = @ + 1]
    BY DEF TypeOK, Generate
  <1> QED BY <1>1 DEF NewPair, Pair

LEMMA CountersTyped ==
  ASSUME TypeOK, NEW u \in User
  PROVE  pending[u] \in [User -> Nat] /\ gen[u] \in Nat /\ gen[u] + 1 \in Nat
  BY DEF TypeOK

\* What a queue holds after a frame was added.
LEMMA AppendElement ==
  ASSUME NEW S, NEW s \in Seq(S), NEW f \in S, NEW i \in 1..Len(Append(s, f))
  PROVE  Append(s, f)[i] = f \/ \E j \in 1..Len(s) : Append(s, f)[i] = s[j]
  <1>1. CASE i = Len(s) + 1
    BY <1>1
  <1>2. CASE i # Len(s) + 1
    <2>1. i \in 1..Len(s) /\ Append(s, f)[i] = s[i]
      BY <1>2
    <2> QED BY <2>1
  <1> QED BY <1>1, <1>2

LEMMA DeliverTyped ==
  ASSUME TypeOK, NEW p \in User, NEW f \in Frame, Deliver(p, f)
  PROVE  inbox' \in [User -> Seq(Frame)]
  BY DEF TypeOK, Deliver

LEMMA TakesTyped ==
  ASSUME TypeOK, NEW u \in User, NEW f, Takes(u, f)
  PROVE  inbox' \in [User -> Seq(Frame)] /\ f \in Frame
  <1>1. inbox[u] \in Seq(Frame) /\ f \in First(inbox[u])
    BY DEF TypeOK, Takes
  <1>2. f \in Frame /\ Tail(inbox[u]) \in Seq(Frame)
    BY <1>1, FirstTyped
  <1> QED BY <1>2 DEF TypeOK, Takes

LEMMA HandlesTyped ==
  ASSUME TypeOK, NEW u \in User, NEW f, Handles(u, f)
  PROVE  f \in Frame /\ Tail(uplink[u]) \in Seq(Frame)
  <1>1. uplink[u] \in Seq(Frame) /\ f \in First(uplink[u])
    BY DEF TypeOK, Handles
  <1> QED BY <1>1, FirstTyped

LEMMA ProcessEndsTyped ==
  ASSUME TypeOK, NEW u \in User, ProcessEnds(u), exits' \in Nat
  PROVE  TypeOK'
  <1>1. /\ up' \subseteq User /\ stop' \subseteq up' /\ greeting' \subseteq online'
        /\ asking' \subseteq User /\ prompted' \subseteq User
    BY DEF TypeOK, ProcessEnds
  <1>2. /\ aes_keys' \in [User -> [User -> SUBSET Pair]]
        /\ pending' \in [User -> [User -> Nat]]
        /\ held' \in [User -> [Thread -> SUBSET Frame]]
    BY DEF TypeOK, ProcessEnds
  <1>3. todo' \in [User -> SUBSET User] /\ inbox' \in [User -> Seq(Frame)]
    BY DEF TypeOK, ProcessEnds
  <1> QED BY <1>1, <1>2, <1>3 DEF TypeOK, ProcessEnds, chatVars

(***************************************************************************)
(* Type correctness.                                                       *)
(***************************************************************************)
LEMMA InitTypeOK == Init => TypeOK
  BY DEF Init, TypeOK

LEMMA NextTypeOK == TypeOK /\ [Next]_vars => TypeOK'
<1> SUFFICES ASSUME TypeOK, [Next]_vars PROVE TypeOK'
  OBVIOUS
<1> USE DEF serverVars, loginVars, keyVars, chatVars
<1>1. CASE UNCHANGED vars
  BY <1>1 DEF vars, TypeOK
<1>2. CASE Next
  <2> PICK u \in User : Step(u)
    BY <1>2, NextCases
  <2>1. CASE Login(u)
    BY <2>1 DEF Login, TypeOK
  <2>2. CASE LoginAgain(u)
    <3>1. uplink' \in [User -> Seq(Frame)]
      BY <2>2, OtherFramesTyped DEF LoginAgain, TypeOK
    <3> QED BY <2>2, <3>1 DEF LoginAgain, TypeOK
  <2>3. CASE SendOK(u)
    <3>1. inbox' \in [User -> Seq(Frame)]
      BY <2>3, OtherFramesTyped, DeliverTyped DEF SendOK
    <3> QED BY <2>3, <3>1 DEF SendOK, TypeOK
  <2>4. ASSUME NEW f, LoginDone(u, f) \/ LoginDrops(u, f) PROVE TypeOK'
    <3>1. TakesReply(u, f) /\ inbox' \in [User -> Seq(Frame)]
      BY <2>4, TakesTyped DEF LoginDone, LoginDrops, TakesReply
    <3> QED BY <2>4, <3>1 DEF LoginDone, LoginDrops, TakesReply, TypeOK
  <2>5. ASSUME NEW f, HandleLogin(u, f) PROVE TypeOK'
    <3>1. Tail(uplink[u]) \in Seq(Frame)
      BY <2>5, HandlesTyped DEF HandleLogin
    <3> QED BY <2>5, <3>1 DEF HandleLogin, Handles, TypeOK
  <2>6. ASSUME NEW p \in User, StartE2E(u, p) PROVE TypeOK'
    <3>1. gen' \in [User -> Nat] /\ NewPair(u) \in Pair
      BY <2>6, GenerateTyped DEF StartE2E
    <3>2. InitFrame(p, NewPair(u)) \in Frame
      BY <3>1, ExchangeFramesTyped
    <3>3. held' \in [User -> [Thread -> SUBSET Frame]]
      BY <2>6, <3>2, HoldTyped DEF StartE2E
    <3>4. pending[u] \in [User -> Nat] /\ gen[u] + 1 \in Nat
      BY CountersTyped
    <3>5. pending' \in [User -> [User -> Nat]]
      BY <2>6, <3>4 DEF StartE2E, TypeOK
    <3> QED BY <2>6, <3>1, <3>3, <3>5 DEF StartE2E, TypeOK
  <2>7. ASSUME NEW p \in User, Chat(u, p) PROVE TypeOK'
    <3>1. aes_keys[u][p] \in SUBSET Pair /\ Len(typed[u]) + 1 \in Nat
      BY DEF TypeOK
    <3>2. ChatFrame(p, aes_keys[u][p], Len(typed[u]) + 1) \in Frame
      BY <3>1 DEF ChatFrame, Frame, FrameType
    <3>3. held' \in [User -> [Thread -> SUBSET Frame]]
      BY <2>7, <3>2, HoldTyped DEF Chat
    <3>4. typed' \in [User -> Seq(User)]
      BY <2>7 DEF Chat, TypeOK
    <3> QED BY <2>7, <3>3, <3>4 DEF Chat, TypeOK
  <2>8. CASE Quit(u)
    <3>1. uplink' \in [User -> Seq(Frame)]
      BY <2>8, OtherFramesTyped DEF Quit, TypeOK
    <3> QED BY <2>8, <3>1 DEF Quit, TypeOK
  <2>9. CASE Exit(u)
    BY <2>9, ProcessEndsTyped DEF Exit, TypeOK
  <2>10. CASE Kill(u)
    <3>1. exits' \in Nat
      BY <2>10 DEF Kill, TypeOK
    <3> QED BY <2>10, <3>1, ProcessEndsTyped DEF Kill
  <2>11. ASSUME NEW t \in Thread, SendFrame(u, t) PROVE TypeOK'
    <3>1. uplink' \in [User -> Seq(Frame)]
      BY <2>11 DEF SendFrame, TypeOK
    <3>2. held' \in [User -> [Thread -> SUBSET Frame]]
      BY <2>11 DEF SendFrame, TypeOK
    <3> QED BY <2>11, <3>1, <3>2 DEF SendFrame, TypeOK
  <2>12. CASE RefreshTick(u)
    BY <2>12 DEF RefreshTick, TypeOK
  <2>13. CASE RefreshPeer(u)
    <3>1. PICK p \in todo[u] : /\ todo' = [todo EXCEPT ![u] = @ \ {p}]
                               /\ Generate(u)
                               /\ pending' = [pending EXCEPT ![u][p] = gen[u] + 1]
                               /\ Hold(u, "refresher", InitFrame(p, NewPair(u)))
      BY <2>13 DEF RefreshPeer
    <3>2. p \in User
      BY <3>1 DEF TypeOK
    <3>3. gen' \in [User -> Nat] /\ NewPair(u) \in Pair
      BY <3>1, GenerateTyped
    <3>4. held' \in [User -> [Thread -> SUBSET Frame]]
      BY <3>1, <3>2, <3>3, ExchangeFramesTyped, HoldTyped
    <3>5. gen[u] + 1 \in Nat
      BY CountersTyped
    <3>6. pending' \in [User -> [User -> Nat]]
      BY <3>1, <3>2, <3>5 DEF TypeOK
    <3>7. todo' \in [User -> SUBSET User]
      BY <3>1 DEF TypeOK
    <3> QED BY <2>13, <3>3, <3>4, <3>6, <3>7 DEF RefreshPeer, TypeOK
  <2>14. ASSUME NEW f, RecvInit(u, f) PROVE TypeOK'
    <3>1. inbox' \in [User -> Seq(Frame)] /\ f \in Frame
      BY <2>14, TakesTyped DEF Receives, RecvInit
    <3>2. gen' \in [User -> Nat] /\ NewPair(u) \in Pair
      BY <2>14, GenerateTyped DEF RecvInit
    <3>3. f.peer \in User /\ f.pub \subseteq Pair
      BY <3>1 DEF Frame
    <3>4. held' \in [User -> [Thread -> SUBSET Frame]]
      BY <2>14, <3>2, <3>3, ExchangeFramesTyped, HoldTyped DEF RecvInit
    <3>5. aes_keys' \in [User -> [User -> SUBSET Pair]]
      <4>1. PICK b \in f.pub :
              aes_keys' = [aes_keys EXCEPT ![u][f.peer] = Secret(NewPair(u), b)]
        BY <2>14 DEF RecvInit
      <4>2. Secret(NewPair(u), b) \in SUBSET Pair
        BY <3>2, <3>3 DEF Secret
      <4> QED BY <4>1, <4>2 DEF TypeOK
    <3> QED BY <2>14, <3>1, <3>2, <3>4, <3>5 DEF RecvInit, Receives, TypeOK
  <2>15. ASSUME NEW f, RecvAck(u, f) PROVE TypeOK'
    <3>1. inbox' \in [User -> Seq(Frame)] /\ f \in Frame
      BY <2>15, TakesTyped DEF Receives, RecvAck
    <3>2. f.peer \in User /\ f.pub \subseteq Pair
      BY <3>1 DEF Frame
    <3>3. <<u, pending[u][f.peer]>> \in Pair
      BY <2>15, <3>2 DEF RecvAck, Pair, TypeOK
    <3>4. aes_keys' \in [User -> [User -> SUBSET Pair]]
      <4>1. PICK b \in f.pub :
              aes_keys' = [aes_keys EXCEPT ![u][f.peer] = Secret(<<u, pending[u][f.peer]>>, b)]
        BY <2>15 DEF RecvAck
      <4>2. Secret(<<u, pending[u][f.peer]>>, b) \in SUBSET Pair
        BY <3>2, <3>3 DEF Secret
      <4> QED BY <4>1, <4>2 DEF TypeOK
    <3> QED BY <2>15, <3>1, <3>2, <3>4 DEF RecvAck, Receives, TypeOK
  <2>16. ASSUME NEW f, RecvUnexpectedAck(u, f) \/ RecvError(u, f) PROVE TypeOK'
    <3>1. inbox' \in [User -> Seq(Frame)]
      BY <2>16, TakesTyped DEF Receives, RecvUnexpectedAck, RecvError
    <3> QED BY <2>16, <3>1 DEF RecvUnexpectedAck, RecvError, Receives, TypeOK
  <2>17. ASSUME NEW f, RecvChat(u, f) PROVE TypeOK'
    <3>1. inbox' \in [User -> Seq(Frame)] /\ f \in Frame
      BY <2>17, TakesTyped DEF Receives, RecvChat
    <3>2. ASSUME NEW k \in SUBSET Pair
          PROVE  [from |-> f.peer, n |-> f.n, how |-> Outcome(f.key, k)] \in Line
      BY <3>1 DEF Outcome, Line, Frame
    <3>3. shown' \in [User -> Seq(Line)]
      BY <2>17, <3>1, <3>2 DEF RecvChat, TypeOK, Frame
    <3> QED BY <2>17, <3>1, <3>3 DEF RecvChat, Receives, TypeOK
  <2>18. ASSUME NEW f, Relay(u, f) PROVE TypeOK'
    <3>1. f \in Frame /\ Tail(uplink[u]) \in Seq(Frame)
      BY <2>18, HandlesTyped DEF Relay
    <3>2. f.peer \in User /\ [f EXCEPT !.peer = u] \in Frame
      BY <3>1 DEF Frame
    <3>3. inbox' \in [User -> Seq(Frame)]
      BY <2>18, <3>2, DeliverTyped DEF Relay
    <3> QED BY <2>18, <3>1, <3>3 DEF Relay, Handles, TypeOK
  <2>19. ASSUME NEW f, RelayNotFound(u, f) PROVE TypeOK'
    <3>1. f \in Frame /\ Tail(uplink[u]) \in Seq(Frame)
      BY <2>19, HandlesTyped DEF RelayNotFound
    <3>2. f.peer \in User /\ ErrorFrame(f.peer) \in Frame
      BY <3>1, OtherFramesTyped DEF Frame
    <3>3. inbox' \in [User -> Seq(Frame)]
      BY <2>19, <3>2, DeliverTyped DEF RelayNotFound
    <3> QED BY <2>19, <3>1, <3>3 DEF RelayNotFound, Handles, TypeOK
  <2>20. ASSUME NEW f, HandleQuit(u, f) PROVE TypeOK'
    <3>1. uplink' \in [User -> Seq(Frame)]
      BY <2>20 DEF HandleQuit, TypeOK
    <3> QED BY <2>20, <3>1 DEF HandleQuit, Handles, TypeOK
  <2>21. CASE HandlerEnds(u)
    BY <2>21 DEF HandlerEnds, TypeOK
  <2> QED BY <2>1, <2>2, <2>3, <2>4, <2>5, <2>6, <2>7, <2>8, <2>9, <2>10,
             <2>11, <2>12, <2>13, <2>14, <2>15, <2>16, <2>17, <2>18, <2>19,
             <2>20, <2>21 DEF Step
<1> QED BY <1>1, <1>2

\* Every variable keeps its type in every behaviour of the clients and the
\* relay: a key is absent or made of generated keypairs.
THEOREM TypeCorrect == Spec => []TypeOK
<1>1. Init => TypeOK
  BY InitTypeOK
<1>2. TypeOK /\ [Next]_vars => TypeOK'
  BY NextTypeOK
<1> QED BY <1>1, <1>2, PTL DEF Spec

(***************************************************************************)
(* KeyOwnership.  It is not inductive by itself: the public key that goes  *)
(* into a key comes from a frame, and the keypair from pending, so the     *)
(* invariant says of every frame under way, and of every pending keypair,  *)
(* that its owner generated it.                                            *)
(***************************************************************************)
IInv == TypeOK /\ PublicKeysOwned /\ KeyOwnership

GenGrows == \A u \in User : gen[u] <= gen'[u]

LEMMA GenerateGrows ==
  ASSUME TypeOK, NEW u \in User, Generate(u) \/ gen' = gen
  PROVE  GenGrows
  <1>1. gen \in [User -> Nat]
    BY DEF TypeOK
  <1>2. CASE Generate(u)
    BY <1>1, <1>2 DEF Generate, GenGrows
  <1>3. CASE gen' = gen
    BY <1>1, <1>3 DEF GenGrows
  <1> QED BY <1>2, <1>3

\* A keypair of u, and a key made with one, remains so.
LEMMA OwnershipStays ==
  ASSUME TypeOK, TypeOK', GenGrows, NEW u \in User
  PROVE  OwnPair(u) \subseteq OwnPair(u)'
  BY DEF TypeOK, GenGrows, OwnPair

LEMMA KeyStays ==
  ASSUME TypeOK, TypeOK', GenGrows, NEW u \in User, NEW p \in User
  PROVE  KeyOf(u, p) \subseteq KeyOf(u, p)'
  <1>1. OwnPair(u) \subseteq OwnPair(u)' /\ OwnPair(p) \subseteq OwnPair(p)'
    BY OwnershipStays
  <1> QED BY <1>1 DEF KeyOf, Secret

\* The keypair generated now is the client's own.
LEMMA NewPairOwned ==
  ASSUME TypeOK, NEW u \in User, Generate(u)
  PROVE  NewPair(u) \in OwnPair(u)' /\ gen[u] + 1 <= gen'[u]
  BY DEF TypeOK, Generate, NewPair, OwnPair

\* The frames of an inbox have a sender.
LEMMA InboxElement ==
  ASSUME TypeOK, NEW u \in User, NEW i \in 1..Len(inbox[u])
  PROVE  inbox[u][i] \in Frame /\ inbox[u][i].peer \in User
  <1>1. inbox[u] \in Seq(Frame)
    BY DEF TypeOK
  <1>2. inbox[u][i] \in Frame
    BY <1>1
  <1> QED BY <1>2 DEF Frame

\* Each part of the invariant when a step leaves its variables alone.
LEMMA PendingUntouched ==
  ASSUME TypeOK, TypeOK', GenGrows, PendingOwned, pending' = pending
  PROVE  PendingOwned'
  <1>1. /\ pending \in [User -> [User -> Nat]]
        /\ gen \in [User -> Nat] /\ gen' \in [User -> Nat]
    BY DEF TypeOK
  <1> QED BY <1>1 DEF GenGrows, PendingOwned

LEMMA HeldUntouched ==
  ASSUME TypeOK, TypeOK', GenGrows, HeldOwned, held' = held
  PROVE  HeldOwned'
  BY OwnershipStays DEF HeldOwned

LEMMA UplinkUntouched ==
  ASSUME TypeOK, TypeOK', GenGrows, UplinkOwned, uplink' = uplink
  PROVE  UplinkOwned'
  BY OwnershipStays DEF UplinkOwned

LEMMA InboxUntouched ==
  ASSUME TypeOK, TypeOK', GenGrows, InboxOwned, inbox' = inbox
  PROVE  InboxOwned'
  <1> SUFFICES ASSUME NEW u \in User, NEW i \in 1..Len(inbox[u])
               PROVE  (inbox[u][i].pub \subseteq OwnPair(inbox[u][i].peer))'
    BY DEF InboxOwned
  <1>1. PICK x \in User : x = inbox[u][i].peer
    BY InboxElement
  <1>2. inbox[u][i].pub \subseteq OwnPair(x)
    BY <1>1 DEF InboxOwned
  <1>3. OwnPair(x) \subseteq OwnPair(x)'
    BY OwnershipStays
  <1> QED BY <1>1, <1>2, <1>3 DEF OwnPair

LEMMA KeysUntouched ==
  ASSUME TypeOK, TypeOK', GenGrows, KeyOwnership, aes_keys' = aes_keys
  PROVE  KeyOwnership'
  BY KeyStays DEF KeyOwnership

\* Each part when a step touches them the way the actions do.
LEMMA HoldOwned ==
  ASSUME TypeOK, TypeOK', GenGrows, HeldOwned, NEW u \in User, NEW t \in Thread,
         NEW f, Hold(u, t, f), f.pub \subseteq OwnPair(u)'
  PROVE  HeldOwned'
  <1> SUFFICES ASSUME NEW v \in User, NEW x \in Thread, NEW g \in held'[v][x]
               PROVE  g.pub \subseteq OwnPair(v)'
    BY DEF HeldOwned
  <1>1. CASE v = u /\ x = t
    BY <1>1 DEF Hold, TypeOK
  <1>2. CASE ~(v = u /\ x = t)
    <2>1. g \in held[v][x]
      BY <1>2 DEF Hold, TypeOK
    <2> QED BY <2>1, OwnershipStays DEF HeldOwned
  <1> QED BY <1>1, <1>2

LEMMA TakesOwned ==
  ASSUME TypeOK, TypeOK', GenGrows, InboxOwned, NEW u \in User, NEW f, Takes(u, f)
  PROVE  InboxOwned' /\ f \in Frame /\ f.pub \subseteq OwnPair(f.peer)
  <1>1. inbox[u] \in Seq(Frame) /\ f \in First(inbox[u])
    BY DEF TypeOK, Takes
  <1>2. f \in Frame /\ f.pub \subseteq OwnPair(f.peer)
    BY <1>1, FirstTyped DEF InboxOwned
  <1>3. ASSUME NEW v \in User, NEW i \in 1..Len(inbox'[v])
        PROVE  (inbox[v][i].pub \subseteq OwnPair(inbox[v][i].peer))'
    <2>1. PICK j \in 1..Len(inbox[v]) : inbox'[v][i] = inbox[v][j]
      <3>1. CASE v = u
        BY <3>1, <1>1, FirstTyped DEF Takes, TypeOK
      <3>2. CASE v # u
        BY <3>2 DEF Takes, TypeOK
      <3> QED BY <3>1, <3>2
    <2>2. PICK x \in User : x = inbox[v][j].peer
      BY InboxElement
    <2>3. inbox[v][j].pub \subseteq OwnPair(x)
      BY <2>2 DEF InboxOwned
    <2>4. OwnPair(x) \subseteq OwnPair(x)'
      BY OwnershipStays
    <2> QED BY <2>1, <2>2, <2>3, <2>4 DEF OwnPair
  <1> QED BY <1>2, <1>3 DEF InboxOwned

LEMMA HandlesOwned ==
  ASSUME TypeOK, UplinkOwned, NEW u \in User, NEW f, Handles(u, f)
  PROVE  f.pub \subseteq OwnPair(u)
  <1>1. uplink[u] \in Seq(Frame) /\ f \in First(uplink[u])
    BY DEF TypeOK, Handles
  <1> QED BY <1>1, FirstTyped DEF UplinkOwned

LEMMA TailOwned ==
  ASSUME TypeOK, UplinkOwned, gen' = gen, NEW u \in User, uplink[u] # <<>>,
         uplink' = [uplink EXCEPT ![u] = Tail(@)]
  PROVE  UplinkOwned'
  <1> SUFFICES ASSUME NEW v \in User, NEW i \in 1..Len(uplink'[v])
               PROVE  uplink'[v][i].pub \subseteq OwnPair(v)'
    BY DEF UplinkOwned
  <1>1. uplink[u] \in Seq(Frame) /\ Head(uplink[u]) \in First(uplink[u])
    BY DEF TypeOK, First
  <1>2. PICK j \in 1..Len(uplink[v]) : uplink'[v][i] = uplink[v][j]
    <2>1. CASE v = u
      BY <2>1, <1>1, FirstTyped DEF TypeOK
    <2>2. CASE v # u
      BY <2>2 DEF TypeOK
    <2> QED BY <2>1, <2>2
  <1> QED BY <1>2 DEF UplinkOwned, OwnPair

LEMMA AppendOwned ==
  ASSUME TypeOK, UplinkOwned, gen' = gen, NEW u \in User, NEW f \in Frame,
         uplink' = [uplink EXCEPT ![u] = IF u \in online THEN Append(@, f) ELSE @],
         f.pub \subseteq OwnPair(u)
  PROVE  UplinkOwned'
  <1>1. ASSUME NEW v \in User, NEW i \in 1..Len(uplink'[v])
        PROVE  uplink'[v][i].pub \subseteq OwnPair(v)
    <2>1. uplink[v] \in Seq(Frame) /\ (uplink'[v] = uplink[v]
                                       \/ (v = u /\ uplink'[v] = Append(uplink[v], f)))
      <3>1. uplink \in [User -> Seq(Frame)]
        BY DEF TypeOK
      <3>2. CASE v = u
        BY <3>1, <3>2
      <3>3. CASE v # u
        BY <3>1, <3>3
      <3> QED BY <3>2, <3>3
    <2>2. (v = u /\ uplink'[v][i] = f)
          \/ \E j \in 1..Len(uplink[v]) : uplink'[v][i] = uplink[v][j]
      BY <2>1
    <2> QED BY <2>2 DEF UplinkOwned
  <1> QED BY <1>1 DEF UplinkOwned, OwnPair

LEMMA DeliverOwned ==
  ASSUME TypeOK, InboxOwned, gen' = gen, NEW p \in User, NEW f \in Frame, Deliver(p, f),
         f.pub \subseteq OwnPair(f.peer)
  PROVE  InboxOwned'
  <1>1. ASSUME NEW v \in User, NEW i \in 1..Len(inbox'[v])
        PROVE  (inbox[v][i].pub \subseteq OwnPair(inbox[v][i].peer))'
    <2>1. inbox[v] \in Seq(Frame) /\ inbox'[v] \in {inbox[v], Append(inbox[v], f)}
      BY DEF Deliver, TypeOK
    <2>2. inbox'[v][i] = f \/ \E j \in 1..Len(inbox[v]) : inbox'[v][i] = inbox[v][j]
      <3>1. CASE inbox'[v] = inbox[v]
        BY <3>1
      <3>2. CASE inbox'[v] = Append(inbox[v], f)
        BY <3>2, <2>1, AppendElement
      <3> QED BY <2>1, <3>1, <3>2
    <2>3. PICK g : g = inbox'[v][i] /\ g.pub \subseteq OwnPair(g.peer)
      BY <2>2 DEF InboxOwned
    <2> QED BY <2>3 DEF OwnPair
  <1> QED BY <1>1 DEF InboxOwned

\* A key made of an own keypair and a keypair of the peer, filed under that
\* peer, keeps KeyOwnership.
LEMMA KeyInstalled ==
  ASSUME TypeOK, TypeOK', GenGrows, KeyOwnership, NEW u \in User, NEW p \in User,
         NEW a \in OwnPair(u)', NEW b \in OwnPair(p)',
         aes_keys' = [aes_keys EXCEPT ![u][p] = Secret(a, b)]
  PROVE  KeyOwnership'
  <1> SUFFICES ASSUME NEW v \in User, NEW q \in User, aes_keys'[v][q] # {}
               PROVE  aes_keys'[v][q] \in KeyOf(v, q)'
    BY DEF KeyOwnership
  <1>1. CASE v = u /\ q = p
    BY <1>1 DEF TypeOK, KeyOf
  <1>2. CASE ~(v = u /\ q = p)
    <2>1. aes_keys'[v][q] = aes_keys[v][q]
      BY <1>2 DEF TypeOK
    <2> QED BY <2>1, KeyStays DEF KeyOwnership
  <1> QED BY <1>1, <1>2

LEMMA InitIInv == Init => IInv
<1> SUFFICES ASSUME Init PROVE IInv
  OBVIOUS
<1>1. TypeOK
  BY InitTypeOK
<1>2. PublicKeysOwned /\ KeyOwnership
  BY DEF Init, PublicKeysOwned, PendingOwned, HeldOwned, UplinkOwned,
         InboxOwned, KeyOwnership
<1> QED BY <1>1, <1>2 DEF IInv

LEMMA NextIInv == IInv /\ [Next]_vars => IInv'
<1> SUFFICES ASSUME IInv, [Next]_vars PROVE IInv'
  OBVIOUS
<1>t. TypeOK /\ TypeOK'
  BY NextTypeOK DEF IInv
<1>i. PendingOwned /\ HeldOwned /\ UplinkOwned /\ InboxOwned /\ KeyOwnership
  BY DEF IInv, PublicKeysOwned
<1> DEFINE Owned == PendingOwned /\ HeldOwned /\ UplinkOwned /\ InboxOwned /\ KeyOwnership
<1> SUFFICES Owned'
  BY <1>t DEF IInv, PublicKeysOwned
<1> USE DEF serverVars, loginVars, keyVars, chatVars
<1>s. ASSUME gen' = gen PROVE GenGrows
  BY <1>s, <1>t DEF TypeOK, GenGrows
<1>1. CASE UNCHANGED vars
  <2>1. GenGrows
    BY <1>1, <1>s DEF vars
  <2> QED BY <1>1, <1>t, <1>i, <2>1, PendingUntouched, HeldUntouched, UplinkUntouched,
             InboxUntouched, KeysUntouched DEF vars
<1>2. CASE Next
  <2> PICK u \in User : Step(u)
    BY <1>2, NextCases
  <2>1. CASE Login(u) \/ RefreshTick(u)
    <3>1. UNCHANGED <<gen, pending, held, uplink, inbox, aes_keys>>
      BY <2>1 DEF Login, RefreshTick
    <3> QED BY <3>1, <1>s, <1>t, <1>i, PendingUntouched, HeldUntouched, UplinkUntouched,
               InboxUntouched, KeysUntouched
  <2>2. ASSUME NEW p \in User, StartE2E(u, p) PROVE Owned'
    <3>1. Generate(u) /\ GenGrows
      BY <2>2, <1>t, GenerateGrows DEF StartE2E
    <3>2. NewPair(u) \in OwnPair(u)' /\ gen[u] + 1 <= gen'[u]
      BY <3>1, <1>t, NewPairOwned
    <3>3. PendingOwned'
      <4> SUFFICES ASSUME NEW v \in User, NEW q \in User PROVE pending'[v][q] <= gen'[v]
        BY DEF PendingOwned
      <4>1. pending'[v][q] = pending[v][q] \/ (v = u /\ pending'[v][q] = gen[u] + 1)
        <5>1. pending \in [User -> [User -> Nat]]
          BY <1>t DEF TypeOK
        <5>2. pending' = [pending EXCEPT ![u][p] = IF @ = 0 THEN gen[u] + 1 ELSE @]
          BY <2>2 DEF StartE2E
        <5>3. CASE v = u
          BY <5>1, <5>2, <5>3
        <5>4. CASE v # u
          BY <5>1, <5>2, <5>4
        <5> QED BY <5>3, <5>4
      <4>2. pending[v][q] \in Nat /\ gen[v] \in Nat /\ gen'[v] \in Nat
        BY <1>t DEF TypeOK
      <4> QED BY <4>1, <4>2, <3>1, <3>2, <1>i DEF PendingOwned, GenGrows
    <3>4. HeldOwned'
      <4>1. InitFrame(p, NewPair(u)).pub \subseteq OwnPair(u)'
        BY <3>2 DEF InitFrame
      <4> QED BY <2>2, <3>1, <4>1, <1>t, <1>i, HoldOwned DEF StartE2E
    <3> QED BY <2>2, <3>1, <3>3, <3>4, <1>t, <1>i, UplinkUntouched, InboxUntouched,
               KeysUntouched DEF StartE2E
  <2>3. ASSUME NEW p \in User, Chat(u, p) PROVE Owned'
    <3>1. GenGrows
      BY <2>3, <1>s DEF Chat
    <3>2. ChatFrame(p, aes_keys[u][p], Len(typed[u]) + 1).pub \subseteq OwnPair(u)'
      BY DEF ChatFrame
    <3>3. HeldOwned'
      BY <2>3, <3>1, <3>2, <1>t, <1>i, HoldOwned DEF Chat
    <3> QED BY <2>3, <3>1, <3>3, <1>t, <1>i, PendingUntouched, UplinkUntouched,
               InboxUntouched, KeysUntouched DEF Chat
  <2>4. CASE Quit(u) \/ LoginAgain(u)
    <3>1. GenGrows /\ UNCHANGED <<gen, pending, held, inbox, aes_keys>>
      BY <2>4, <1>s DEF Quit, LoginAgain
    <3>2. PICK f \in {QuitFrame(u), LoginFrame(u)} : uplink' =
            [uplink EXCEPT ![u] = IF u \in online THEN Append(@, f) ELSE @]
      BY <2>4 DEF Quit, LoginAgain
    <3>3. f \in Frame /\ f.pub \subseteq OwnPair(u)
      <4>1. f \in Frame
        BY OtherFramesTyped
      <4>2. f.pub = {}
        BY DEF QuitFrame, LoginFrame
      <4> QED BY <4>1, <4>2
    <3>4. UplinkOwned'
      BY <3>1, <3>2, <3>3, <1>t, <1>i, AppendOwned
    <3> QED BY <3>1, <3>4, <1>t, <1>i, PendingUntouched, HeldUntouched, InboxUntouched,
               KeysUntouched
  <2>5. CASE Exit(u) \/ Kill(u)
    <3>1. ProcessEnds(u)
      BY <2>5 DEF Exit, Kill
    <3>2. GenGrows /\ gen' = gen /\ uplink' = uplink
      BY <3>1, <1>s DEF ProcessEnds
    <3>3. PendingOwned'
      <4>1. ASSUME NEW v \in User, NEW q \in User
            PROVE  pending'[v][q] \in {0, pending[v][q]} /\ gen[v] \in Nat
        BY <3>1, <1>t DEF ProcessEnds, TypeOK
      <4> QED BY <4>1, <3>2, <1>i DEF PendingOwned
    <3>4. HeldOwned'
      <4>1. ASSUME NEW v \in User, NEW t \in Thread PROVE held'[v][t] \subseteq held[v][t]
        BY <3>1, <1>t DEF ProcessEnds, TypeOK
      <4> QED BY <4>1, <3>2, <1>i DEF HeldOwned, OwnPair
    <3>5. InboxOwned'
      <4>1. ASSUME NEW v \in User PROVE inbox'[v] \in {<<>>, inbox[v]}
        BY <3>1, <1>t DEF ProcessEnds, TypeOK
      <4> QED BY <4>1, <3>2, <1>i DEF InboxOwned, OwnPair
    <3>6. KeyOwnership'
      <4>1. ASSUME NEW v \in User, NEW q \in User PROVE aes_keys'[v][q] \in {{}, aes_keys[v][q]}
        BY <3>1, <1>t DEF ProcessEnds, TypeOK
      <4> QED BY <4>1, <3>2, <1>i DEF KeyOwnership, KeyOf, OwnPair
    <3> QED BY <3>2, <3>3, <3>4, <3>5, <3>6, <1>t, <1>i, UplinkUntouched
  <2>6. ASSUME NEW t \in Thread, SendFrame(u, t) PROVE Owned'
    <3>1. GenGrows /\ UNCHANGED <<gen, pending, inbox, aes_keys>>
      BY <2>6, <1>s DEF SendFrame
    <3>2. PICK f \in held[u][t] : uplink' =
            [uplink EXCEPT ![u] = IF u \in online THEN Append(@, f) ELSE @]
      BY <2>6 DEF SendFrame
    <3>3. UplinkOwned'
      <4>1. f \in Frame /\ f.pub \subseteq OwnPair(u)
        BY <1>t, <1>i DEF TypeOK, HeldOwned
      <4> QED BY <4>1, <3>1, <3>2, <1>t, <1>i, AppendOwned
    <3>4. HeldOwned'
      <4>1. ASSUME NEW v \in User, NEW x \in Thread PROVE held'[v][x] \subseteq held[v][x]
        BY <2>6, <1>t DEF SendFrame, TypeOK
      <4> QED BY <4>1, <3>1, <1>i DEF HeldOwned, OwnPair
    <3> QED BY <3>1, <3>3, <3>4, <1>t, <1>i, PendingUntouched, InboxUntouched, KeysUntouched
  <2>7. CASE RefreshPeer(u)
    <3>1. PICK p \in todo[u] : /\ Generate(u)
                               /\ pending' = [pending EXCEPT ![u][p] = gen[u] + 1]
                               /\ Hold(u, "refresher", InitFrame(p, NewPair(u)))
      BY <2>7 DEF RefreshPeer
    <3>2. p \in User /\ GenGrows
      BY <3>1, <1>t, GenerateGrows DEF TypeOK
    <3>3. NewPair(u) \in OwnPair(u)' /\ gen[u] + 1 <= gen'[u]
      BY <3>1, <1>t, NewPairOwned
    <3>4. PendingOwned'
      <4> SUFFICES ASSUME NEW v \in User, NEW q \in User PROVE pending'[v][q] <= gen'[v]
        BY DEF PendingOwned
      <4>1. pending'[v][q] = pending[v][q] \/ (v = u /\ pending'[v][q] = gen[u] + 1)
        <5>1. pending \in [User -> [User -> Nat]]
          BY <1>t DEF TypeOK
        <5>2. CASE v = u
          BY <5>1, <5>2, <3>1, <3>2
        <5>3. CASE v # u
          BY <5>1, <5>3, <3>1, <3>2
        <5> QED BY <5>2, <5>3
      <4>2. pending[v][q] \in Nat /\ gen[v] \in Nat /\ gen'[v] \in Nat
        BY <1>t DEF TypeOK
      <4> QED BY <4>1, <4>2, <3>2, <3>3, <1>i DEF PendingOwned, GenGrows
    <3>5. HeldOwned'
      <4>1. InitFrame(p, NewPair(u)).pub \subseteq OwnPair(u)'
        BY <3>3 DEF InitFrame
      <4> QED BY <3>1, <3>2, <4>1, <1>t, <1>i, HoldOwned
    <3> QED BY <2>7, <3>2, <3>4, <3>5, <1>t, <1>i, UplinkUntouched, InboxUntouched,
               KeysUntouched DEF RefreshPeer
  <2>8. ASSUME NEW f, RecvInit(u, f) PROVE Owned'
    <3>1. Generate(u) /\ GenGrows /\ Receives(u, f)
      BY <2>8, <1>t, GenerateGrows DEF RecvInit
    <3>2. NewPair(u) \in OwnPair(u)'
      BY <3>1, <1>t, NewPairOwned
    <3>3. InboxOwned' /\ f.peer \in User /\ f.pub \subseteq OwnPair(f.peer)
      BY <3>1, <1>t, <1>i, TakesOwned DEF Frame, Receives
    <3>4. PICK b \in f.pub :
            aes_keys' = [aes_keys EXCEPT ![u][f.peer] = Secret(NewPair(u), b)]
      BY <2>8 DEF RecvInit
    <3>5. b \in OwnPair(f.peer)'
      BY <3>1, <3>3, <3>4, <1>t, OwnershipStays
    <3>6. KeyOwnership'
      BY <3>1, <3>2, <3>3, <3>4, <3>5, <1>t, <1>i, KeyInstalled
    <3>7. HeldOwned'
      <4>1. AckFrame(f.peer, NewPair(u)).pub \subseteq OwnPair(u)'
        BY <3>2 DEF AckFrame
      <4> QED BY <2>8, <3>1, <4>1, <1>t, <1>i, HoldOwned DEF RecvInit
    <3> QED BY <2>8, <3>1, <3>3, <3>6, <3>7, <1>t, <1>i, PendingUntouched,
               UplinkUntouched DEF RecvInit
  <2>9. ASSUME NEW f, RecvAck(u, f) PROVE Owned'
    <3>1. Receives(u, f) /\ GenGrows /\ gen' = gen
      BY <2>9, <1>s DEF RecvAck
    <3>2. InboxOwned' /\ f.peer \in User /\ f.pub \subseteq OwnPair(f.peer)
      BY <3>1, <1>t, <1>i, TakesOwned DEF Frame, Receives
    <3>3. PICK b \in f.pub :
            aes_keys' = [aes_keys EXCEPT ![u][f.peer] =
                           Secret(<<u, pending[u][f.peer]>>, b)]
      BY <2>9 DEF RecvAck
    <3>4. <<u, pending[u][f.peer]>> \in OwnPair(u)' /\ b \in OwnPair(f.peer)'
      <4>1. pending[u][f.peer] # 0
        BY <2>9 DEF RecvAck
      <4>2. pending[u][f.peer] \in Nat /\ gen[u] \in Nat
        BY <3>2, <1>t, CountersTyped
      <4>3. pending[u][f.peer] <= gen[u]
        BY <3>2, <1>i DEF PendingOwned
      <4>4. pending[u][f.peer] \in 1..gen[u]
        BY <4>1, <4>2, <4>3
      <4> QED BY <4>4, <3>1, <3>2, <3>3 DEF OwnPair
    <3>5. KeyOwnership'
      BY <3>1, <3>2, <3>3, <3>4, <1>t, <1>i, KeyInstalled
    <3>6. PendingOwned'
      <4>1. ASSUME NEW v \in User, NEW q \in User
            PROVE  pending'[v][q] \in {0, pending[v][q]} /\ gen[v] \in Nat
        BY <2>9, <3>2, <1>t DEF RecvAck, TypeOK
      <4> QED BY <4>1, <3>1, <1>i DEF PendingOwned
    <3> QED BY <2>9, <3>1, <3>2, <3>5, <3>6, <1>t, <1>i, HeldUntouched,
               UplinkUntouched DEF RecvAck
  <2>10. ASSUME NEW f, RecvUnexpectedAck(u, f) \/ RecvChat(u, f) \/ RecvError(u, f)
         PROVE  Owned'
    <3>1. Receives(u, f) /\ GenGrows /\ UNCHANGED <<pending, held, uplink, aes_keys>>
      BY <2>10, <1>s DEF RecvUnexpectedAck, RecvChat, RecvError
    <3>2. InboxOwned'
      BY <3>1, <1>t, <1>i, TakesOwned DEF Receives
    <3> QED BY <3>1, <3>2, <1>t, <1>i, PendingUntouched, HeldUntouched,
               UplinkUntouched, KeysUntouched
  <2>11. ASSUME NEW f, Relay(u, f) \/ RelayNotFound(u, f) PROVE Owned'
    <3>1. /\ Handles(u, f) /\ GenGrows /\ UNCHANGED <<gen, pending, held, aes_keys>>
          /\ uplink[u] # <<>> /\ uplink' = [uplink EXCEPT ![u] = Tail(@)]
      BY <2>11, <1>s DEF Relay, RelayNotFound, Handles, First
    <3>2. UplinkOwned'
      BY <3>1, <1>t, <1>i, TailOwned
    <3>3. f \in Frame /\ f.peer \in User /\ f.pub \subseteq OwnPair(u)
      BY <3>1, <1>t, <1>i, HandlesTyped, HandlesOwned DEF Frame
    <3>4. InboxOwned'
      <4>1. CASE Relay(u, f)
        <5>1. [f EXCEPT !.peer = u] \in Frame /\ [f EXCEPT !.peer = u].pub \subseteq OwnPair(u)
              /\ [f EXCEPT !.peer = u].peer = u
          BY <3>3 DEF Frame
        <5> QED BY <4>1, <5>1, <3>1, <3>3, <1>t, <1>i, DeliverOwned DEF Relay
      <4>2. CASE RelayNotFound(u, f)
        <5>1. ErrorFrame(f.peer) \in Frame /\ ErrorFrame(f.peer).pub = {}
          BY <3>3, OtherFramesTyped DEF ErrorFrame
        <5> QED BY <4>2, <5>1, <3>1, <1>t, <1>i, DeliverOwned DEF RelayNotFound
      <4> QED BY <2>11, <4>1, <4>2
    <3> QED BY <3>1, <3>2, <3>4, <1>t, <1>i, PendingUntouched, HeldUntouched, KeysUntouched
  <2>12. ASSUME NEW f, LoginDone(u, f) \/ LoginDrops(u, f) PROVE Owned'
    <3>1. Takes(u, f) /\ GenGrows /\ UNCHANGED <<pending, held, uplink, aes_keys>>
      BY <2>12, <1>s DEF LoginDone, LoginDrops, TakesReply
    <3>2. InboxOwned'
      BY <3>1, <1>t, <1>i, TakesOwned
    <3> QED BY <3>1, <3>2, <1>t, <1>i, PendingUntouched, HeldUntouched,
               UplinkUntouched, KeysUntouched
  <2>13. CASE SendOK(u)
    <3>1. GenGrows /\ UNCHANGED <<gen, pending, held, uplink, aes_keys>>
      BY <2>13, <1>s DEF SendOK
    <3>2. OKFrame(u) \in Frame /\ OKFrame(u).pub = {}
      BY OtherFramesTyped DEF OKFrame
    <3>3. InboxOwned'
      BY <2>13, <3>1, <3>2, <1>t, <1>i, DeliverOwned DEF SendOK
    <3> QED BY <3>1, <3>3, <1>t, <1>i, PendingUntouched, HeldUntouched,
               UplinkUntouched, KeysUntouched
  <2>14. ASSUME NEW f, HandleLogin(u, f) PROVE Owned'
    <3>1. /\ GenGrows /\ UNCHANGED <<gen, pending, held, inbox, aes_keys>>
          /\ uplink[u] # <<>> /\ uplink' = [uplink EXCEPT ![u] = Tail(@)]
      BY <2>14, <1>s DEF HandleLogin, Handles, First
    <3>2. UplinkOwned'
      BY <3>1, <1>t, <1>i, TailOwned
    <3> QED BY <3>1, <3>2, <1>t, <1>i, PendingUntouched, HeldUntouched, InboxUntouched,
               KeysUntouched
  <2>15. ASSUME NEW f, HandleQuit(u, f) \/ HandlerEnds(u) PROVE Owned'
    <3>1. /\ GenGrows /\ UNCHANGED <<gen, pending, held, inbox, aes_keys>>
          /\ uplink' = [uplink EXCEPT ![u] = <<>>]
      BY <2>15, <1>s DEF HandleQuit, HandlerEnds, Handles
    <3>2. UplinkOwned'
      <4>1. ASSUME NEW v \in User PROVE uplink'[v] \in {<<>>, uplink[v]}
        BY <3>1, <1>t DEF TypeOK
      <4> QED BY <4>1, <3>1, <1>i DEF UplinkOwned, OwnPair
    <3> QED BY <3>1, <3>2, <1>t, <1>i, PendingUntouched, HeldUntouched, InboxUntouched,
               KeysUntouched
  <2> QED BY <2>1, <2>2, <2>3, <2>4, <2>5, <2>6, <2>7, <2>8, <2>9, <2>10,
             <2>11, <2>12, <2>13, <2>14, <2>15 DEF Step
<1> QED BY <1>1, <1>2

\* In every behaviour the key a client files under a peer's name mixes a
\* keypair of its own with one that this peer generated, whatever the users
\* do and however threads, relays, restarts and rekeys interleave.
THEOREM KeysOwned == Spec => []KeyOwnership
<1>1. Init => IInv
  BY InitIInv
<1>2. IInv /\ [Next]_vars => IInv'
  BY NextIInv
<1>3. IInv => KeyOwnership
  BY DEF IInv
<1> QED BY <1>1, <1>2, <1>3, PTL DEF Spec
=============================================================================
