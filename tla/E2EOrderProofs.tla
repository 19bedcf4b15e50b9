--------------------------- MODULE E2EOrderProofs ---------------------------
(***************************************************************************)
(* The proof that chat lines are displayed in the order they were typed    *)
(* (ShownInOrder of E2ESession), whatever the users do, and across the     *)
(* sender's threads, the relay and restarts of either side.                *)
(***************************************************************************)
EXTENDS E2ESessionProofs

(***************************************************************************)
(* The numbers that the elements of a sequence that are in X carry.        *)
(***************************************************************************)
Numbers(s, X) == {s[i].n : i \in {j \in 1..Len(s) : s[j] \in X}}
Rising(s, X) ==
  \A i, j \in 1..Len(s) : i < j /\ s[i] \in X /\ s[j] \in X => s[i].n < s[j].n
Below(A, B) == \A a \in A, b \in B : a < b

ChatFrames == {f \in Frame : f.type = "CHAT"}
ChatsOf(p) == {f \in ChatFrames : f.peer = p}
LinesFrom(u) == {l \in Line : l.from = u}

(***************************************************************************)
(* The inductive invariant.  The lines of u for p are in the hand of u's   *)
(* main thread, on u's connection, on p's connection, or shown: each place *)
(* has earlier lines than the one before it, and has them in order.        *)
(***************************************************************************)
InMain(u) == {f.n : f \in held[u]["main"] \cap ChatFrames}
OnUplink(u) == Numbers(uplink[u], ChatFrames)
OnInbox(u, p) == Numbers(inbox[p], ChatsOf(u))
OnScreen(u, p) == Numbers(shown[p], LinesFrom(u))

TypedFor(u, p) == {n \in 1..Len(typed[u]) : typed[u][n] = p}

MainChats ==
  \A u \in User : \A t \in Thread : \A f \in held[u][t] :
    f.type = "CHAT" => t = "main" /\ f.n \in TypedFor(u, f.peer)
Meant(u, p) ==
  /\ Numbers(uplink[u], ChatsOf(p)) \subseteq TypedFor(u, p)
  /\ OnInbox(u, p) \subseteq TypedFor(u, p)
  /\ OnScreen(u, p) \subseteq TypedFor(u, p)
InOrder(u, p) ==
  /\ Rising(uplink[u], ChatFrames)
  /\ Rising(inbox[p], ChatsOf(u))
  /\ Rising(shown[p], LinesFrom(u))
Staged(u, p) ==
  /\ Below(OnUplink(u), InMain(u))
  /\ Below(OnInbox(u, p), InMain(u)) /\ Below(OnInbox(u, p), OnUplink(u))
  /\ Below(OnScreen(u, p), InMain(u)) /\ Below(OnScreen(u, p), OnUplink(u))
  /\ Below(OnScreen(u, p), OnInbox(u, p))

LinesInv == \A u, p \in User : Meant(u, p) /\ InOrder(u, p) /\ Staged(u, p)
OInv == TypeOK /\ MainChats /\ LinesInv

(***************************************************************************)
(* Sequences with one element more, or one less.                           *)
(***************************************************************************)
LEMMA AppendNumbers ==
  ASSUME NEW S, NEW s \in Seq(S), NEW f \in S, NEW X
  PROVE  /\ f \in X => Numbers(Append(s, f), X) = Numbers(s, X) \cup {f.n}
         /\ f \notin X => Numbers(Append(s, f), X) = Numbers(s, X)
<1> DEFINE a == Append(s, f)
<1>1. Len(a) = Len(s) + 1 /\ Len(s) \in Nat /\ a[Len(s) + 1] = f
  OBVIOUS
<1>2. \A i \in 1..Len(s) : a[i] = s[i]
  OBVIOUS
<1>3. \A i : i \in 1..Len(a) <=> i \in 1..Len(s) \/ i = Len(s) + 1
  BY <1>1
<1> HIDE DEF a
<1>4. ASSUME NEW x PROVE x \in Numbers(a, X) <=>
                x \in Numbers(s, X) \/ (f \in X /\ x = f.n)
  <2>1. x \in Numbers(a, X) <=> \E i \in 1..Len(a) : a[i] \in X /\ x = a[i].n
    BY DEF Numbers
  <2>2. x \in Numbers(s, X) <=> \E i \in 1..Len(s) : s[i] \in X /\ x = s[i].n
    BY DEF Numbers
  <2> QED BY <2>1, <2>2, <1>1, <1>2, <1>3
<1> QED BY <1>4 DEF a

LEMMA AppendRising ==
  ASSUME NEW S, NEW s \in Seq(S), NEW f \in S, NEW X, Rising(s, X),
         f \in X => Below(Numbers(s, X), {f.n})
  PROVE  Rising(Append(s, f), X)
<1> DEFINE a == Append(s, f)
<1>1. Len(a) = Len(s) + 1 /\ Len(s) \in Nat /\ a[Len(s) + 1] = f
  OBVIOUS
<1>2. \A i \in 1..Len(s) : a[i] = s[i]
  OBVIOUS
<1> HIDE DEF a
<1> SUFFICES ASSUME NEW i \in 1..Len(a), NEW j \in 1..Len(a), i < j, a[i] \in X, a[j] \in X
             PROVE  a[i].n < a[j].n
  BY DEF Rising, a
<1>3. i \in 1..Len(s) /\ a[i] = s[i]
  BY <1>1, <1>2
<1>4. CASE j \in 1..Len(s)
  BY <1>2, <1>3, <1>4 DEF Rising
<1>5. CASE j = Len(s) + 1
  <2>1. s[i].n \in Numbers(s, X)
    BY <1>3 DEF Numbers
  <2> QED BY <2>1, <1>1, <1>3, <1>5 DEF Below
<1> QED BY <1>1, <1>4, <1>5

LEMMA TailNumbers ==
  ASSUME NEW S, NEW s \in Seq(S), s # <<>>, NEW X
  PROVE  /\ Numbers(Tail(s), X) \subseteq Numbers(s, X)
         /\ Rising(s, X) => Rising(Tail(s), X)
         /\ Head(s) \in X => Head(s).n \in Numbers(s, X)
         /\ Head(s) \in X /\ Rising(s, X) => Below({Head(s).n}, Numbers(Tail(s), X))
<1> DEFINE t == Tail(s)
<1>1. Len(t) = Len(s) - 1 /\ Len(s) \in Nat /\ Len(s) # 0 /\ Head(s) = s[1]
  OBVIOUS
<1>2. \A i \in 1..Len(t) : t[i] = s[i + 1]
  OBVIOUS
<1>3. \A i \in 1..Len(t) : i + 1 \in 1..Len(s) /\ 1 < i + 1 /\ 1 \in 1..Len(s)
  BY <1>1
<1> HIDE DEF t
<1>4. Numbers(t, X) \subseteq Numbers(s, X)
  BY <1>2, <1>3 DEF Numbers
<1>5. Rising(s, X) => Rising(t, X)
  <2> SUFFICES ASSUME Rising(s, X), NEW i \in 1..Len(t), NEW j \in 1..Len(t), i < j,
                      t[i] \in X, t[j] \in X
               PROVE  t[i].n < t[j].n
    BY DEF Rising
  <2>1. i + 1 < j + 1 /\ t[i] = s[i + 1] /\ t[j] = s[j + 1]
    BY <1>1, <1>2
  <2> QED BY <2>1, <1>3 DEF Rising
<1>6. 1 \in 1..Len(s)
  BY <1>1
<1>7. Head(s) \in X => Head(s).n \in Numbers(s, X)
  BY <1>1, <1>6 DEF Numbers
<1>8. ASSUME Head(s) \in X, Rising(s, X), NEW b \in Numbers(t, X) PROVE Head(s).n < b
  <2>1. PICK i \in 1..Len(t) : t[i] \in X /\ b = t[i].n
    BY DEF Numbers
  <2>2. s[i + 1] \in X /\ b = s[i + 1].n
    BY <2>1, <1>2
  <2>3. i + 1 \in 1..Len(s) /\ 1 < i + 1
    BY <1>3
  <2> QED BY <2>2, <2>3, <1>1, <1>6, <1>8 DEF Rising
<1> QED BY <1>4, <1>5, <1>7, <1>8 DEF t, Below

(***************************************************************************)
(* Sequences that a step takes no chat line into.                          *)
(***************************************************************************)
Thinned(s2, s) ==
  \A X \in SUBSET ChatFrames : /\ Numbers(s2, X) \subseteq Numbers(s, X)
                               /\ Rising(s, X) => Rising(s2, X)

LEMMA ThinnedSame == \A s : Thinned(s, s)
BY DEF Thinned

LEMMA ThinnedEmpty == \A s : Thinned(<<>>, s)
<1>1. \A X : Numbers(<<>>, X) = {} /\ Rising(<<>>, X)
  BY DEF Numbers, Rising
<1> QED BY <1>1 DEF Thinned

LEMMA ThinnedTail ==
  ASSUME NEW S, NEW s \in Seq(S), s # <<>>
  PROVE  Thinned(Tail(s), s)
BY TailNumbers DEF Thinned

LEMMA ThinnedAppend ==
  ASSUME NEW S, NEW s \in Seq(S), NEW f \in S, f.type # "CHAT"
  PROVE  Thinned(Append(s, f), s)
<1> SUFFICES ASSUME NEW X \in SUBSET ChatFrames
             PROVE  /\ Numbers(Append(s, f), X) \subseteq Numbers(s, X)
                    /\ Rising(s, X) => Rising(Append(s, f), X)
  BY DEF Thinned
<1>1. f \notin X
  BY DEF ChatFrames
<1>2. Numbers(Append(s, f), X) = Numbers(s, X)
  BY <1>1, AppendNumbers
<1>3. ASSUME Rising(s, X) PROVE Rising(Append(s, f), X)
  BY <1>1, <1>3, AppendRising
<1> QED BY <1>2, <1>3

(***************************************************************************)
(* Steps that move no chat line forward: they lose some at most.           *)
(***************************************************************************)
HeldThinned ==
  \A u \in User : \A t \in Thread : \A f \in held'[u][t] :
    f.type = "CHAT" => f \in held[u][t]
UplinksThinned == \A u \in User : Thinned(uplink'[u], uplink[u])
InboxesThinned == \A p \in User : Thinned(inbox'[p], inbox[p])

LEMMA ChatsAreChats == \A p : ChatsOf(p) \in SUBSET ChatFrames
BY DEF ChatsOf

LEMMA MainThinned ==
  ASSUME TypeOK, HeldThinned, NEW u \in User
  PROVE  InMain(u)' \subseteq InMain(u)
<1>1. "main" \in Thread
  BY DEF Thread
<1>2. \A f \in held'[u]["main"] \cap ChatFrames : f \in held[u]["main"]
  BY <1>1 DEF HeldThinned, ChatFrames
<1> QED BY <1>2 DEF InMain

LEMMA OrderKept ==
  ASSUME OInv, TypeOK', HeldThinned, UplinksThinned, InboxesThinned,
         UNCHANGED <<typed, shown>>
  PROVE  OInv'
<1> USE DEF OInv
<1>1. MainChats'
  BY DEF MainChats, HeldThinned, TypedFor
<1>2. ASSUME NEW u \in User, NEW p \in User PROVE (Meant(u, p) /\ InOrder(u, p) /\ Staged(u, p))'
  <2>1. Meant(u, p) /\ InOrder(u, p) /\ Staged(u, p)
    BY DEF LinesInv
  <2>2. TypedFor(u, p)' = TypedFor(u, p) /\ OnScreen(u, p)' = OnScreen(u, p)
    BY DEF TypedFor, OnScreen
  <2>3. InMain(u)' \subseteq InMain(u)
    BY MainThinned
  <2>4. /\ OnUplink(u)' \subseteq OnUplink(u)
        /\ Rising(uplink[u], ChatFrames) => Rising(uplink'[u], ChatFrames)
    BY DEF UplinksThinned, Thinned, OnUplink
  <2>5. Numbers(uplink'[u], ChatsOf(p)) \subseteq Numbers(uplink[u], ChatsOf(p))
    BY ChatsAreChats DEF UplinksThinned, Thinned
  <2>6. /\ OnInbox(u, p)' \subseteq OnInbox(u, p)
        /\ Rising(inbox[p], ChatsOf(u)) => Rising(inbox'[p], ChatsOf(u))
    BY ChatsAreChats DEF InboxesThinned, Thinned, OnInbox
  <2>7. Meant(u, p)'
    BY <2>1, <2>2, <2>5, <2>6 DEF Meant
  <2>8. InOrder(u, p)'
    BY <2>1, <2>4, <2>6 DEF InOrder
  <2>9. Staged(u, p)'
    BY <2>1, <2>2, <2>3, <2>4, <2>6 DEF Staged, Below
  <2> QED BY <2>7, <2>8, <2>9
<1> QED BY <1>1, <1>2 DEF LinesInv

\* What the helpers of the actions leave thinned.
LEMMA HoldThins ==
  ASSUME TypeOK, NEW w \in User, NEW t \in Thread, NEW f, Hold(w, t, f), f.type # "CHAT"
  PROVE  HeldThinned
<1>1. held \in [User -> [Thread -> SUBSET Frame]]
  BY DEF TypeOK
<1> QED BY <1>1 DEF Hold, HeldThinned

LEMMA HeldSameThins ==
  ASSUME held' = held
  PROVE  HeldThinned
BY DEF HeldThinned

LEMMA QueuesSameThin ==
  /\ uplink' = uplink => UplinksThinned
  /\ inbox' = inbox => InboxesThinned
BY ThinnedSame DEF UplinksThinned, InboxesThinned

LEMMA TakesThins ==
  ASSUME TypeOK, NEW w \in User, NEW f, Takes(w, f)
  PROVE  InboxesThinned
<1>1. inbox \in [User -> Seq(Frame)] /\ inbox' = [inbox EXCEPT ![w] = Tail(@)]
  BY DEF TypeOK, Takes
<1>2. inbox[w] \in Seq(Frame) /\ inbox[w] # <<>>
  BY <1>1, FirstTyped DEF Takes
<1>3. Thinned(Tail(inbox[w]), inbox[w])
  BY <1>2, ThinnedTail
<1> QED BY <1>1, <1>3, ThinnedSame DEF InboxesThinned

\* A frame that is no chat line is sent.
LEMMA AppendThins ==
  ASSUME TypeOK, NEW w \in User, NEW f \in Frame, f.type # "CHAT",
         uplink' = [uplink EXCEPT ![w] = IF w \in online THEN Append(@, f) ELSE @]
  PROVE  UplinksThinned
<1>1. uplink \in [User -> Seq(Frame)]
  BY DEF TypeOK
<1>2. Thinned(Append(uplink[w], f), uplink[w])
  BY <1>1, ThinnedAppend
<1> QED BY <1>1, <1>2, ThinnedSame DEF UplinksThinned

LEMMA UplinkTailThins ==
  ASSUME TypeOK, NEW w \in User, NEW f, Handles(w, f),
         uplink' = [uplink EXCEPT ![w] = Tail(@)]
  PROVE  UplinksThinned
<1>1. uplink \in [User -> Seq(Frame)]
  BY DEF TypeOK
<1>2. uplink[w] \in Seq(Frame) /\ uplink[w] # <<>>
  BY <1>1, FirstTyped DEF Handles
<1>3. Thinned(Tail(uplink[w]), uplink[w])
  BY <1>2, ThinnedTail
<1> QED BY <1>1, <1>3, ThinnedSame DEF UplinksThinned

LEMMA UplinkEndThins ==
  ASSUME TypeOK, NEW w \in User, uplink' = [uplink EXCEPT ![w] = <<>>]
  PROVE  UplinksThinned
BY ThinnedSame, ThinnedEmpty DEF UplinksThinned, TypeOK

\* A frame that is no chat line is delivered.
LEMMA DeliverThins ==
  ASSUME TypeOK, NEW p \in User, NEW f \in Frame, f.type # "CHAT", Deliver(p, f)
  PROVE  InboxesThinned
<1>1. inbox \in [User -> Seq(Frame)]
  BY DEF TypeOK
<1>2. inbox'[p] \in {Append(inbox[p], f), inbox[p]} /\ \A q \in User \ {p} : inbox'[q] = inbox[q]
  BY <1>1 DEF Deliver
<1>3. Thinned(Append(inbox[p], f), inbox[p])
  BY <1>1, ThinnedAppend
<1> QED BY <1>2, <1>3, ThinnedSame DEF InboxesThinned

(***************************************************************************)
(* Steps that move a chat line one stage forward.                          *)
(***************************************************************************)
LEMMA TypedGrows ==
  ASSUME TypeOK, NEW u \in User, NEW p \in User, NEW q \in User,
         typed'[u] \in {typed[u], Append(typed[u], q)}
  PROVE  TypedFor(u, p) \subseteq TypedFor(u, p)'
<1>1. typed[u] \in Seq(User)
  BY DEF TypeOK
<1>2. /\ Len(typed[u]) \in Nat /\ Len(typed'[u]) \in Nat /\ Len(typed[u]) <= Len(typed'[u])
      /\ \A n \in 1..Len(typed[u]) : typed'[u][n] = typed[u][n]
  BY <1>1
<1> QED BY <1>2 DEF TypedFor

\* What is on its way was typed.
LEMMA UplinkTyped ==
  ASSUME OInv, NEW u \in User, NEW n \in OnUplink(u)
  PROVE  n \in 1..Len(typed[u])
<1>1. PICK i \in 1..Len(uplink[u]) : uplink[u][i] \in ChatFrames /\ n = uplink[u][i].n
  BY DEF OnUplink, Numbers
<1>2. PICK p \in User : p = uplink[u][i].peer
  BY <1>1 DEF ChatFrames, Frame
<1>3. n \in Numbers(uplink[u], ChatsOf(p))
  BY <1>1, <1>2 DEF Numbers, ChatsOf
<1> QED BY <1>3 DEF OInv, LinesInv, Meant, TypedFor

\* A line is typed: it has a higher number than all before it.
LEMMA ChatKeeps ==
  ASSUME OInv, TypeOK', NEW w \in User, NEW q \in User, Chat(w, q)
  PROVE  OInv'
<1> USE DEF OInv
<1>f. PICK f : f = ChatFrame(q, aes_keys[w][q], Len(typed[w]) + 1)
  OBVIOUS
<1>1. /\ typed' = [typed EXCEPT ![w] = Append(@, q)] /\ Hold(w, "main", f)
      /\ uplink' = uplink /\ inbox' = inbox /\ shown' = shown /\ "main" \in Thread
  BY <1>f DEF Chat, Thread
<1>2. /\ typed \in [User -> Seq(User)] /\ held \in [User -> [Thread -> SUBSET Frame]]
      /\ held' \in [User -> [Thread -> SUBSET Frame]]
  BY DEF TypeOK
<1>3. f.type = "CHAT" /\ f.peer = q /\ f.n = Len(typed[w]) + 1
  BY <1>f DEF ChatFrame
<1>4. /\ held'[w]["main"] = {f}
      /\ \A u \in User, t \in Thread : u # w \/ t # "main" => held'[u][t] = held[u][t]
  BY <1>1, <1>2 DEF Hold
<1>5. /\ typed'[w] = Append(typed[w], q) /\ typed[w] \in Seq(User) /\ Len(typed[w]) \in Nat
      /\ \A u \in User \ {w} : typed'[u] = typed[u]
  BY <1>1, <1>2
<1>6. \A u, p \in User : TypedFor(u, p) \subseteq TypedFor(u, p)'
  BY <1>5, TypedGrows
<1>7. f.n \in TypedFor(w, q)'
  BY <1>3, <1>5 DEF TypedFor
<1>8. MainChats'
  <2> SUFFICES ASSUME NEW u \in User, NEW t \in Thread, NEW g \in held'[u][t], g.type = "CHAT"
               PROVE  t = "main" /\ g.n \in TypedFor(u, g.peer)'
    BY DEF MainChats
  <2>1. CASE u = w /\ t = "main"
    BY <2>1, <1>3, <1>4, <1>7
  <2>2. CASE u # w \/ t # "main"
    <3>1. g \in held[u][t] /\ g.peer \in User
      BY <2>2, <1>2, <1>4 DEF Frame
    <3>2. t = "main" /\ g.n \in TypedFor(u, g.peer)
      BY <3>1 DEF MainChats
    <3> QED BY <3>1, <3>2, <1>6
  <2> QED BY <2>1, <2>2
<1>9. InMain(w)' = {Len(typed[w]) + 1} /\ \A u \in User \ {w} : InMain(u)' = InMain(u)
  <2>1. f \in ChatFrames
    BY <1>2, <1>3, <1>4, <1>1 DEF ChatFrames
  <2>2. InMain(w)' = {f.n}
    BY <2>1, <1>4 DEF InMain
  <2>3. \A u \in User \ {w} : InMain(u)' = InMain(u)
    BY <1>1, <1>4 DEF InMain
  <2> QED BY <2>2, <2>3, <1>3
<1>10. ASSUME NEW u \in User, NEW p \in User
       PROVE  (Meant(u, p) /\ InOrder(u, p) /\ Staged(u, p))'
  <2>1. Meant(u, p) /\ InOrder(u, p) /\ Staged(u, p)
    BY DEF LinesInv
  <2>2. /\ OnUplink(u)' = OnUplink(u) /\ OnInbox(u, p)' = OnInbox(u, p)
        /\ OnScreen(u, p)' = OnScreen(u, p)
    BY <1>1 DEF OnUplink, OnInbox, OnScreen
  <2>3. Meant(u, p)'
    BY <2>1, <2>2, <1>1, <1>6 DEF Meant
  <2>4. InOrder(u, p)'
    BY <2>1, <1>1 DEF InOrder
  <2>5. ASSUME u # w PROVE Staged(u, p)'
    <3>1. InMain(u)' = InMain(u)
      BY <2>5, <1>9
    <3> QED BY <3>1, <2>1, <2>2 DEF Staged, Below
  <2>6. ASSUME u = w PROVE Staged(u, p)'
    <3>1. \A n \in OnUplink(u) \cup OnInbox(u, p) \cup OnScreen(u, p) : n \in 1..Len(typed[u])
      BY <2>1, UplinkTyped DEF Meant, TypedFor
    <3>2. \A n \in OnUplink(u) \cup OnInbox(u, p) \cup OnScreen(u, p), m \in InMain(u)' : n < m
      BY <3>1, <2>6, <1>5, <1>9
    <3> QED BY <3>2, <2>1, <2>2 DEF Staged, Below
  <2> QED BY <2>3, <2>4, <2>5, <2>6
<1> QED BY <1>8, <1>10 DEF LinesInv

\* A thread sends the frame it holds.
LEMMA SendKeeps ==
  ASSUME OInv, TypeOK', NEW w \in User, NEW t \in Thread, SendFrame(w, t)
  PROVE  OInv'
<1> USE DEF OInv
<1>1. PICK f \in held[w][t] :
        uplink' = [uplink EXCEPT ![w] = IF w \in online THEN Append(@, f) ELSE @]
  BY DEF SendFrame
<1>2. held' = [held EXCEPT ![w][t] = {}] /\ inbox' = inbox /\ UNCHANGED <<typed, shown>>
  BY DEF SendFrame, chatVars
<1>3. /\ held \in [User -> [Thread -> SUBSET Frame]] /\ uplink \in [User -> Seq(Frame)]
      /\ f \in Frame /\ uplink[w] \in Seq(Frame)
  BY <1>1 DEF TypeOK
<1>4. HeldThinned
  BY <1>2, <1>3 DEF HeldThinned
<1>5. InboxesThinned
  BY <1>2, QueuesSameThin
<1>6. uplink'[w] \in {uplink[w], Append(uplink[w], f)}
      /\ \A u \in User \ {w} : uplink'[u] = uplink[u]
  BY <1>1, <1>3
<1>7. CASE f.type # "CHAT" \/ uplink'[w] = uplink[w]
  <2>1. f.type # "CHAT" => Thinned(Append(uplink[w], f), uplink[w])
    BY <1>3, ThinnedAppend
  <2>2. UplinksThinned
    BY <2>1, <1>6, <1>7, ThinnedSame DEF UplinksThinned
  <2> QED BY <2>2, <1>2, <1>4, <1>5, OrderKept
<1>8. CASE f.type = "CHAT" /\ uplink'[w] = Append(uplink[w], f)
  <2>1. t = "main" /\ f.n \in TypedFor(w, f.peer) /\ f \in ChatFrames
    BY <1>3, <1>8 DEF MainChats, ChatFrames
  <2>2. f.n \in InMain(w) /\ InMain(w)' = {}
    <3>1. held'[w]["main"] = {}
      BY <2>1, <1>2, <1>3 DEF Thread
    <3> QED BY <2>1, <3>1 DEF InMain
  <2>3. /\ Numbers(uplink'[w], ChatFrames) = Numbers(uplink[w], ChatFrames) \cup {f.n}
        /\ \A p : Numbers(uplink'[w], ChatsOf(p)) \subseteq Numbers(uplink[w], ChatsOf(p)) \cup {f.n}
        /\ \A p : p # f.peer => Numbers(uplink'[w], ChatsOf(p)) = Numbers(uplink[w], ChatsOf(p))
    <3>1. Numbers(uplink'[w], ChatFrames) = Numbers(uplink[w], ChatFrames) \cup {f.n}
      BY <2>1, <1>3, <1>8, AppendNumbers
    <3>2. \A p : p # f.peer => f \notin ChatsOf(p)
      BY DEF ChatsOf
    <3>3. \A p : p # f.peer => Numbers(uplink'[w], ChatsOf(p)) = Numbers(uplink[w], ChatsOf(p))
      BY <3>2, <1>3, <1>8, AppendNumbers
    <3>4. \A p : Numbers(uplink'[w], ChatsOf(p)) \subseteq Numbers(uplink[w], ChatsOf(p)) \cup {f.n}
      <4> SUFFICES ASSUME NEW p
                   PROVE  Numbers(uplink'[w], ChatsOf(p)) \subseteq
                            Numbers(uplink[w], ChatsOf(p)) \cup {f.n}
        OBVIOUS
      <4>1. CASE f \in ChatsOf(p)
        BY <4>1, <1>3, <1>8, AppendNumbers
      <4>2. CASE f \notin ChatsOf(p)
        BY <4>2, <1>3, <1>8, AppendNumbers
      <4> QED BY <4>1, <4>2
    <3> QED BY <3>1, <3>3, <3>4
  <2>4. MainChats'
    BY <1>2, <1>4 DEF MainChats, HeldThinned, TypedFor
  <2>5. ASSUME NEW u \in User, NEW p \in User
        PROVE  (Meant(u, p) /\ InOrder(u, p) /\ Staged(u, p))'
    <3>1. Meant(u, p) /\ InOrder(u, p) /\ Staged(u, p)
      BY DEF LinesInv
    <3>2. /\ TypedFor(u, p)' = TypedFor(u, p) /\ OnScreen(u, p)' = OnScreen(u, p)
          /\ OnInbox(u, p)' = OnInbox(u, p)
      BY <1>2 DEF TypedFor, OnScreen, OnInbox
    <3>3. InMain(u)' \subseteq InMain(u)
      BY <1>4, MainThinned
    <3>4. CASE u # w
      <4>1. OnUplink(u)' = OnUplink(u) /\ uplink'[u] = uplink[u]
        BY <3>4, <1>6 DEF OnUplink
      <4> QED BY <3>1, <3>2, <3>3, <4>1, <1>2 DEF Meant, InOrder, Staged, Below
    <3>5. CASE u = w
      <4>1. Meant(u, p)'
        BY <3>1, <3>2, <3>5, <2>1, <2>3 DEF Meant
      <4>2. Rising(uplink'[w], ChatFrames)
        <5>1. Below(Numbers(uplink[w], ChatFrames), {f.n})
          BY <3>1, <3>5, <2>2 DEF Staged, Below, OnUplink
        <5>2. Rising(uplink[w], ChatFrames)
          BY <3>1, <3>5 DEF InOrder
        <5> QED BY <5>1, <5>2, <1>3, <1>8, AppendRising
      <4>3. InOrder(u, p)'
        BY <3>1, <3>5, <4>2, <1>2 DEF InOrder
      <4>4. OnUplink(u)' \subseteq OnUplink(u) \cup InMain(u) /\ InMain(u)' = {}
        BY <3>5, <2>2, <2>3 DEF OnUplink
      <4>5. Staged(u, p)'
        BY <3>1, <3>2, <4>4 DEF Staged, Below
      <4> QED BY <4>1, <4>3, <4>5
    <3> QED BY <3>4, <3>5
  <2> QED BY <2>4, <2>5 DEF LinesInv
<1> QED BY <1>6, <1>7, <1>8

\* The handler forwards a line to its receiver, under the sender's name.
LEMMA RelayKeeps ==
  ASSUME OInv, TypeOK', NEW w \in User, NEW f, Relay(w, f)
  PROVE  OInv'
<1> USE DEF OInv
<1>1. /\ inbox \in [User -> Seq(Frame)] /\ uplink \in [User -> Seq(Frame)]
      /\ uplink[w] \in Seq(Frame)
  BY DEF TypeOK
<1>2. f \in Frame /\ f = Head(uplink[w]) /\ uplink[w] # <<>>
  BY <1>1, FirstTyped DEF Relay, Handles
<1>q. PICK q \in User : q = f.peer
  BY <1>2 DEF Frame
<1>g. PICK g : g = [f EXCEPT !.peer = w]
  OBVIOUS
<1>3. g \in Frame /\ g.type = f.type /\ g.n = f.n /\ g.peer = w
  BY <1>2, <1>g DEF Frame
<1>4. /\ Deliver(q, g) /\ uplink' = [uplink EXCEPT ![w] = Tail(@)]
      /\ Handles(w, f) /\ held' = held /\ UNCHANGED <<typed, shown>>
  BY <1>q, <1>g DEF Relay, Handles, chatVars
<1>5. HeldThinned /\ UplinksThinned
  BY <1>4, HeldSameThins, UplinkTailThins
<1>6. /\ inbox'[q] \in {inbox[q], Append(inbox[q], g)}
      /\ \A p \in User \ {q} : inbox'[p] = inbox[p]
  BY <1>1, <1>4 DEF Deliver
<1>7. CASE f.type # "CHAT"
  <2>1. InboxesThinned
    BY <1>3, <1>4, <1>7, DeliverThins
  <2> QED BY <2>1, <1>4, <1>5, OrderKept
<1>8. CASE inbox'[q] = inbox[q]
  <2>1. InboxesThinned
    BY <1>6, <1>8, ThinnedSame DEF InboxesThinned
  <2> QED BY <2>1, <1>4, <1>5, OrderKept
<1>9. CASE f.type = "CHAT" /\ inbox'[q] = Append(inbox[q], g)
  <2>1. f \in ChatFrames /\ f \in ChatsOf(q) /\ g \in ChatsOf(w)
    BY <1>2, <1>3, <1>9, <1>q DEF ChatFrames, ChatsOf
  <2>2. /\ f.n \in OnUplink(w) /\ f.n \in Numbers(uplink[w], ChatsOf(q))
        /\ uplink'[w] = Tail(uplink[w])
    <3>1. f.n \in OnUplink(w)
      BY <2>1, <1>1, <1>2, TailNumbers DEF OnUplink
    <3>2. f.n \in Numbers(uplink[w], ChatsOf(q))
      BY <2>1, <1>1, <1>2, TailNumbers
    <3> QED BY <3>1, <3>2, <1>1, <1>4
  <2>3. Below({f.n}, OnUplink(w)')
    <3>1. Rising(uplink[w], ChatFrames)
      BY DEF LinesInv, InOrder
    <3> QED BY <3>1, <2>1, <2>2, <1>1, <1>2, TailNumbers DEF OnUplink
  <2>4. MainChats'
    BY <1>4 DEF MainChats, TypedFor
  <2>5. inbox[q] \in Seq(Frame)
    BY <1>1
  <2>6. OnInbox(w, q)' = OnInbox(w, q) \cup {f.n}
    BY <2>1, <2>5, <1>3, <1>9, AppendNumbers DEF OnInbox
  <2>7. ASSUME NEW u \in User, NEW p \in User, u # w \/ p # q
        PROVE  /\ OnInbox(u, p)' = OnInbox(u, p)
               /\ Rising(inbox[p], ChatsOf(u)) => Rising(inbox'[p], ChatsOf(u))
    <3>1. CASE p # q
      BY <3>1, <1>6 DEF OnInbox
    <3>2. CASE p = q
      <4>1. g \notin ChatsOf(u)
        BY <2>7, <3>2, <1>3 DEF ChatsOf
      <4>2. OnInbox(u, p)' = OnInbox(u, p)
        BY <4>1, <3>2, <2>5, <1>3, <1>9, AppendNumbers DEF OnInbox
      <4>3. Rising(inbox[p], ChatsOf(u)) => Rising(inbox'[p], ChatsOf(u))
        BY <4>1, <3>2, <2>5, <1>3, <1>9, AppendRising
      <4> QED BY <4>2, <4>3
    <3> QED BY <3>1, <3>2
  <2>8. Rising(inbox'[q], ChatsOf(w))
    <3>1. Below(Numbers(inbox[q], ChatsOf(w)), {f.n}) /\ Rising(inbox[q], ChatsOf(w))
      BY <2>2 DEF LinesInv, Staged, InOrder, Below, OnInbox
    <3> QED BY <3>1, <2>5, <1>3, <1>9, AppendRising
  <2>9. ASSUME NEW u \in User, NEW p \in User
        PROVE  (Meant(u, p) /\ InOrder(u, p) /\ Staged(u, p))'
    <3>1. Meant(u, p) /\ InOrder(u, p) /\ Staged(u, p)
      BY DEF LinesInv
    <3>2. /\ TypedFor(u, p)' = TypedFor(u, p) /\ OnScreen(u, p)' = OnScreen(u, p)
          /\ InMain(u)' = InMain(u)
      BY <1>4 DEF TypedFor, OnScreen, InMain
    <3>3. /\ OnUplink(u)' \subseteq OnUplink(u)
          /\ Numbers(uplink'[u], ChatsOf(p)) \subseteq Numbers(uplink[u], ChatsOf(p))
          /\ Rising(uplink[u], ChatFrames) => Rising(uplink'[u], ChatFrames)
      BY <1>5, ChatsAreChats DEF UplinksThinned, Thinned, OnUplink
    <3>4. CASE u # w \/ p # q
      <4>1. /\ OnInbox(u, p)' = OnInbox(u, p)
            /\ Rising(inbox[p], ChatsOf(u)) => Rising(inbox'[p], ChatsOf(u))
        BY <2>7, <3>4
      <4>2. Meant(u, p)'
        BY <3>1, <3>2, <3>3, <4>1 DEF Meant
      <4>3. InOrder(u, p)'
        BY <3>1, <3>3, <4>1, <1>4 DEF InOrder
      <4>4. Staged(u, p)'
        BY <3>1, <3>2, <3>3, <4>1 DEF Staged, Below
      <4> QED BY <4>2, <4>3, <4>4
    <3>5. CASE u = w /\ p = q
      <4>1. OnInbox(u, p)' = OnInbox(u, p) \cup {f.n}
        BY <2>6, <3>5
      <4>2. Meant(u, p)'
        BY <3>1, <3>2, <3>3, <3>5, <4>1, <2>2 DEF Meant
      <4>3. InOrder(u, p)'
        BY <3>1, <3>3, <3>5, <2>8, <1>4 DEF InOrder
      <4>4. Staged(u, p)'
        BY <3>1, <3>2, <3>3, <3>5, <4>1, <2>2, <2>3 DEF Staged, Below
      <4> QED BY <4>2, <4>3, <4>4
    <3> QED BY <3>4, <3>5
  <2> QED BY <2>4, <2>9 DEF LinesInv
<1> QED BY <1>6, <1>7, <1>8, <1>9

\* The receiver shows a line.
LEMMA ReceiveKeeps ==
  ASSUME OInv, TypeOK', NEW w \in User, NEW f, RecvChat(w, f)
  PROVE  OInv'
<1> USE DEF OInv
<1>1. inbox \in [User -> Seq(Frame)] /\ shown \in [User -> Seq(Line)] /\ inbox[w] \in Seq(Frame)
      /\ shown[w] \in Seq(Line) /\ shown' \in [User -> Seq(Line)]
  BY DEF TypeOK
<1>2. f \in Frame /\ f = Head(inbox[w]) /\ inbox[w] # <<>> /\ f.type = "CHAT"
  BY <1>1, FirstTyped DEF RecvChat, Receives, Takes
<1>q. PICK q \in User : q = f.peer
  BY <1>2 DEF Frame
<1>l. PICK l : l = [from |-> f.peer, n |-> f.n, how |-> Outcome(f.key, aes_keys[w][f.peer])]
  OBVIOUS
<1>3. l.from = q /\ l.n = f.n /\ l \in Line
  <2>1. f.n \in Nat /\ f.peer \in User
    BY <1>2 DEF Frame
  <2>2. Outcome(f.key, aes_keys[w][f.peer]) \in {"plain", "ignored", "decrypted", "failed"}
    BY DEF Outcome
  <2> QED BY <2>1, <2>2, <1>l, <1>q DEF Line
<1>4. /\ Receives(w, f) /\ uplink' = uplink /\ held' = held /\ typed' = typed
      /\ shown'[w] = Append(shown[w], l) /\ \A p \in User \ {w} : shown'[p] = shown[p]
      /\ inbox'[w] = Tail(inbox[w])
  BY <1>1, <1>l DEF RecvChat, Receives, Takes
<1>5. InboxesThinned
  BY <1>4, TakesThins DEF Receives
<1>6. f \in ChatsOf(q) /\ l \in LinesFrom(q)
  BY <1>2, <1>3, <1>q DEF ChatFrames, ChatsOf, LinesFrom
<1>7. f.n \in OnInbox(q, w) /\ Below({f.n}, OnInbox(q, w)')
  <2>1. Rising(inbox[w], ChatsOf(q))
    BY DEF LinesInv, InOrder
  <2>2. f.n \in OnInbox(q, w)
    BY <1>1, <1>2, <1>6, TailNumbers DEF OnInbox
  <2>3. Below({f.n}, OnInbox(q, w)')
    BY <2>1, <1>1, <1>2, <1>4, <1>6, TailNumbers DEF OnInbox
  <2> QED BY <2>2, <2>3
<1>8. OnScreen(q, w)' = OnScreen(q, w) \cup {f.n}
  BY <1>1, <1>3, <1>4, <1>6, AppendNumbers DEF OnScreen
<1>9. Rising(shown'[w], LinesFrom(q))
  <2>1. Below(Numbers(shown[w], LinesFrom(q)), {l.n}) /\ Rising(shown[w], LinesFrom(q))
    BY <1>3, <1>7 DEF LinesInv, Staged, InOrder, Below, OnScreen
  <2> QED BY <2>1, <1>1, <1>3, <1>4, AppendRising
<1>10. ASSUME NEW u \in User, NEW p \in User, u # q \/ p # w
       PROVE  /\ OnScreen(u, p)' = OnScreen(u, p)
              /\ Rising(shown[p], LinesFrom(u)) => Rising(shown'[p], LinesFrom(u))
  <2>1. CASE p # w
    BY <2>1, <1>4 DEF OnScreen
  <2>2. CASE p = w
    <3>1. l \notin LinesFrom(u)
      BY <1>10, <2>2, <1>3 DEF LinesFrom
    <3>2. OnScreen(u, p)' = OnScreen(u, p)
      BY <3>1, <2>2, <1>1, <1>3, <1>4, AppendNumbers DEF OnScreen
    <3>3. Rising(shown[p], LinesFrom(u)) => Rising(shown'[p], LinesFrom(u))
      BY <3>1, <2>2, <1>1, <1>3, <1>4, AppendRising
    <3> QED BY <3>2, <3>3
  <2> QED BY <2>1, <2>2
<1>11. MainChats'
  BY <1>4 DEF MainChats, TypedFor
<1>12. ASSUME NEW u \in User, NEW p \in User
       PROVE  (Meant(u, p) /\ InOrder(u, p) /\ Staged(u, p))'
  <2>1. Meant(u, p) /\ InOrder(u, p) /\ Staged(u, p)
    BY DEF LinesInv
  <2>2. /\ TypedFor(u, p)' = TypedFor(u, p) /\ OnUplink(u)' = OnUplink(u)
        /\ InMain(u)' = InMain(u) /\ uplink'[u] = uplink[u]
    BY <1>4 DEF TypedFor, OnUplink, InMain
  <2>3. /\ OnInbox(u, p)' \subseteq OnInbox(u, p)
        /\ Rising(inbox[p], ChatsOf(u)) => Rising(inbox'[p], ChatsOf(u))
    BY <1>5, ChatsAreChats DEF InboxesThinned, Thinned, OnInbox
  <2>4. CASE u # q \/ p # w
    <3>1. /\ OnScreen(u, p)' = OnScreen(u, p)
          /\ Rising(shown[p], LinesFrom(u)) => Rising(shown'[p], LinesFrom(u))
      BY <1>10, <2>4
    <3>2. Meant(u, p)'
      BY <2>1, <2>2, <2>3, <3>1 DEF Meant
    <3>3. InOrder(u, p)'
      BY <2>1, <2>2, <2>3, <3>1 DEF InOrder
    <3>4. Staged(u, p)'
      BY <2>1, <2>2, <2>3, <3>1 DEF Staged, Below
    <3> QED BY <3>2, <3>3, <3>4
  <2>5. CASE u = q /\ p = w
    <3>1. OnScreen(u, p)' = OnScreen(u, p) \cup {f.n}
      BY <1>8, <2>5
    <3>2. Meant(u, p)'
      BY <2>1, <2>2, <2>3, <2>5, <3>1, <1>7 DEF Meant
    <3>3. InOrder(u, p)'
      BY <2>1, <2>2, <2>3, <2>5, <1>9 DEF InOrder
    <3>4. Staged(u, p)'
      BY <2>1, <2>2, <2>3, <2>5, <3>1, <1>7 DEF Staged, Below
    <3> QED BY <3>2, <3>3, <3>4
  <2> QED BY <2>4, <2>5
<1> QED BY <1>11, <1>12 DEF LinesInv

(***************************************************************************)
(* The invariant.                                                          *)
(***************************************************************************)
LEMMA InitOInv == Init => OInv
<1> SUFFICES ASSUME Init PROVE OInv
  OBVIOUS
<1>1. TypeOK
  BY InitTypeOK
<1>2. \A X : Numbers(<<>>, X) = {} /\ Rising(<<>>, X)
  BY DEF Numbers, Rising
<1>3. \A u \in User : \A t \in Thread : held[u][t] = {}
  BY DEF Init
<1>4. \A u \in User : uplink[u] = <<>> /\ inbox[u] = <<>> /\ shown[u] = <<>>
  BY DEF Init
<1>5. MainChats
  BY <1>3 DEF MainChats
<1>6. LinesInv
  BY <1>2, <1>4 DEF LinesInv, Meant, InOrder, Staged, Below, OnUplink, OnInbox, OnScreen
<1> QED BY <1>1, <1>5, <1>6 DEF OInv

LEMMA NextOInv == OInv /\ [Next]_vars => OInv'
<1> SUFFICES ASSUME OInv, [Next]_vars PROVE OInv'
  OBVIOUS
<1>t. TypeOK /\ TypeOK'
  BY NextTypeOK DEF OInv
<1> USE DEF serverVars, loginVars, keyVars, chatVars
<1>1. CASE UNCHANGED vars
  <2>1. UNCHANGED <<held, uplink, inbox, typed, shown>>
    BY <1>1 DEF vars
  <2> QED BY <2>1, <1>t, HeldSameThins, QueuesSameThin, OrderKept
<1>2. CASE Next
  <2> PICK w \in User : Step(w)
    BY <1>2, NextCases
  <2>1. CASE Login(w) \/ RefreshTick(w)
    <3>1. UNCHANGED <<held, uplink, inbox, typed, shown>>
      BY <2>1 DEF Login, RefreshTick
    <3> QED BY <3>1, <1>t, HeldSameThins, QueuesSameThin, OrderKept
  <2>2. ASSUME NEW p \in User, StartE2E(w, p) PROVE OInv'
    <3>1. /\ Hold(w, "main", InitFrame(p, NewPair(w))) /\ "main" \in Thread
          /\ UNCHANGED <<uplink, inbox, typed, shown>>
          /\ InitFrame(p, NewPair(w)).type # "CHAT"
      BY <2>2 DEF StartE2E, Thread, InitFrame
    <3> QED BY <3>1, <1>t, HoldThins, QueuesSameThin, OrderKept
  <2>3. ASSUME NEW p \in User, Chat(w, p) PROVE OInv'
    BY <2>3, <1>t, ChatKeeps
  <2>4. CASE Quit(w) \/ LoginAgain(w)
    <3>1. PICK f \in {QuitFrame(w), LoginFrame(w)} : uplink' =
            [uplink EXCEPT ![w] = IF w \in online THEN Append(@, f) ELSE @]
      BY <2>4 DEF Quit, LoginAgain
    <3>2. UNCHANGED <<held, inbox, typed, shown>>
      BY <2>4 DEF Quit, LoginAgain
    <3>3. f \in Frame
      BY OtherFramesTyped
    <3>4. f.type # "CHAT"
      BY DEF QuitFrame, LoginFrame
    <3>5. UplinksThinned
      BY <3>1, <3>3, <3>4, <1>t, AppendThins
    <3> QED BY <3>2, <3>5, <1>t, HeldSameThins, QueuesSameThin, OrderKept
  <2>5. CASE Exit(w) \/ Kill(w)
    <3>1. /\ held' = [held EXCEPT ![w] = [t \in Thread |-> {}]]
          /\ inbox' = [inbox EXCEPT ![w] = <<>>] /\ UNCHANGED <<uplink, typed, shown>>
      BY <2>5 DEF Exit, Kill, ProcessEnds
    <3>2. HeldThinned
      BY <3>1, <1>t DEF HeldThinned, TypeOK
    <3>3. InboxesThinned
      BY <3>1, <1>t, ThinnedSame, ThinnedEmpty DEF InboxesThinned, TypeOK
    <3> QED BY <3>1, <3>2, <3>3, <1>t, QueuesSameThin, OrderKept
  <2>6. ASSUME NEW t \in Thread, SendFrame(w, t) PROVE OInv'
    BY <2>6, <1>t, SendKeeps
  <2>7. CASE RefreshPeer(w)
    <3>1. PICK p \in todo[w] : Hold(w, "refresher", InitFrame(p, NewPair(w)))
      BY <2>7 DEF RefreshPeer
    <3>2. /\ UNCHANGED <<uplink, inbox, typed, shown>> /\ "refresher" \in Thread
          /\ InitFrame(p, NewPair(w)).type # "CHAT"
      BY <2>7 DEF RefreshPeer, Thread, InitFrame
    <3> QED BY <3>1, <3>2, <1>t, HoldThins, QueuesSameThin, OrderKept
  <2>8. ASSUME NEW f, RecvInit(w, f) PROVE OInv'
    <3>1. /\ Hold(w, "receiver", AckFrame(f.peer, NewPair(w))) /\ "receiver" \in Thread
          /\ Takes(w, f) /\ UNCHANGED <<uplink, typed, shown>>
          /\ AckFrame(f.peer, NewPair(w)).type # "CHAT"
      BY <2>8 DEF RecvInit, Receives, Thread, AckFrame
    <3> QED BY <3>1, <1>t, HoldThins, TakesThins, QueuesSameThin, OrderKept
  <2>9. ASSUME NEW f, \/ RecvAck(w, f) \/ RecvUnexpectedAck(w, f) \/ RecvError(w, f)
                      \/ LoginDone(w, f) \/ LoginDrops(w, f)
        PROVE  OInv'
    <3>1. Takes(w, f) /\ UNCHANGED <<held, uplink, typed, shown>>
      BY <2>9 DEF RecvAck, RecvUnexpectedAck, RecvError, Receives, LoginDone, LoginDrops,
                  TakesReply
    <3> QED BY <3>1, <1>t, HeldSameThins, TakesThins, QueuesSameThin, OrderKept
  <2>10. ASSUME NEW f, RecvChat(w, f) PROVE OInv'
    BY <2>10, <1>t, ReceiveKeeps
  <2>11. ASSUME NEW f, Relay(w, f) PROVE OInv'
    BY <2>11, <1>t, RelayKeeps
  <2>12. ASSUME NEW f, RelayNotFound(w, f) PROVE OInv'
    <3>1. /\ Handles(w, f) /\ Deliver(w, ErrorFrame(f.peer))
          /\ uplink' = [uplink EXCEPT ![w] = Tail(@)] /\ UNCHANGED <<held, typed, shown>>
      BY <2>12 DEF RelayNotFound, Handles
    <3>2. ErrorFrame(f.peer) \in Frame /\ ErrorFrame(f.peer).type # "CHAT"
      <4>1. uplink[w] \in Seq(Frame) /\ f \in First(uplink[w])
        BY <3>1, <1>t DEF TypeOK, Handles
      <4>2. f \in Frame
        BY <4>1, FirstTyped
      <4>3. f.peer \in User
        BY <4>2 DEF Frame
      <4> QED BY <4>3, OtherFramesTyped DEF ErrorFrame
    <3>3. InboxesThinned /\ UplinksThinned
      BY <3>1, <3>2, <1>t, DeliverThins, UplinkTailThins
    <3> QED BY <3>1, <3>3, <1>t, HeldSameThins, OrderKept
  <2>13. CASE HandlerEnds(w) \/ \E f : HandleQuit(w, f)
    <3>1. uplink' = [uplink EXCEPT ![w] = <<>>] /\ UNCHANGED <<held, inbox, typed, shown>>
      BY <2>13 DEF HandlerEnds, HandleQuit, Handles
    <3> QED BY <3>1, <1>t, UplinkEndThins, HeldSameThins, QueuesSameThin, OrderKept
  <2>14. CASE SendOK(w)
    <3>1. Deliver(w, OKFrame(w)) /\ UNCHANGED <<held, uplink, typed, shown>>
      BY <2>14 DEF SendOK
    <3>2. OKFrame(w) \in Frame /\ OKFrame(w).type # "CHAT"
      BY OtherFramesTyped DEF OKFrame
    <3>3. InboxesThinned
      BY <3>1, <3>2, <1>t, DeliverThins
    <3> QED BY <3>1, <3>3, <1>t, HeldSameThins, QueuesSameThin, OrderKept
  <2>15. ASSUME NEW f, HandleLogin(w, f) PROVE OInv'
    <3>1. /\ Handles(w, f) /\ uplink' = [uplink EXCEPT ![w] = Tail(@)]
          /\ UNCHANGED <<held, inbox, typed, shown>>
      BY <2>15 DEF HandleLogin, Handles
    <3> QED BY <3>1, <1>t, HeldSameThins, UplinkTailThins, QueuesSameThin, OrderKept
  <2> QED BY <2>1, <2>2, <2>3, <2>4, <2>5, <2>6, <2>7, <2>8, <2>9, <2>10,
             <2>11, <2>12, <2>13, <2>14, <2>15 DEF Step
<1> QED BY <1>1, <1>2

\* In every behaviour a client displays the lines of a peer in the order in which
\* they were typed, each at most once and only those typed for it: the three
\* threads that share the socket, the relay (handle_message of the server), refused
\* frames, and quits, kills and restarts of either side repeat or reorder none.
THEOREM LinesInOrder == Spec => []ShownInOrder
<1>1. Init => OInv
  BY InitOInv
<1>2. OInv /\ [Next]_vars => OInv'
  BY NextOInv
<1>3. OInv => ShownInOrder
  <2> SUFFICES ASSUME OInv, NEW p \in User,
                      NEW i \in 1..Len(shown[p]), NEW j \in 1..Len(shown[p])
               PROVE  /\ LET l == shown[p][i] IN l.n \in 1..Len(typed[l.from])
                                                 /\ typed[l.from][l.n] = p
                      /\ i < j /\ shown[p][i].from = shown[p][j].from
                           => shown[p][i].n < shown[p][j].n
    BY DEF ShownInOrder
  <2>1. shown[p][i] \in Line /\ shown[p][j] \in Line
    BY DEF OInv, TypeOK
  <2>2. PICK u \in User : u = shown[p][i].from
    BY <2>1 DEF Line
  <2>3. Meant(u, p) /\ InOrder(u, p)
    BY DEF OInv, LinesInv
  <2>4. shown[p][i] \in LinesFrom(u)
    BY <2>1, <2>2 DEF LinesFrom
  <2>5. shown[p][i].n \in TypedFor(u, p)
    BY <2>3, <2>4 DEF Meant, OnScreen, Numbers
  <2>6. ASSUME i < j, shown[p][j].from = u PROVE shown[p][i].n < shown[p][j].n
    <3>1. shown[p][j] \in LinesFrom(u)
      BY <2>1, <2>6 DEF LinesFrom
    <3> QED BY <2>3, <2>4, <2>6, <3>1 DEF InOrder, Rising
  <2> QED BY <2>2, <2>5, <2>6 DEF TypedFor
<1> QED BY <1>1, <1>2, <1>3, PTL DEF Spec
=============================================================================
