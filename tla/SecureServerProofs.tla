------------------------- MODULE SecureServerProofs -------------------------
(***************************************************************************)
(* Proofs about SecureServer, for any users, connections and bounds.       *)
(***************************************************************************)
EXTENDS SecureServer, TLAPS

(***************************************************************************)
(* The inductive invariant.  KeysMatchSockets leads from an entry through  *)
(* a descriptor and a key to a name; that the four stay together needs     *)
(* that descriptors belong to handlers and that an entry lives only as     *)
(* long as its handler is between add_client and remove_client.            *)
(***************************************************************************)
Open(c) == pc[c] \notin {"none", "done"}

\* An open descriptor belongs to the handler that was started with it.
SocketsOwned ==
  \A f \in Fd : sock[f] # NoConn => Open(sock[f]) /\ fd[sock[f]] = f
\* A handler that has not closed its socket has it open.
HandlersOpen ==
  \A c \in Conn : Open(c) => fd[c] \in Fd /\ sock[fd[c]] = c
\* A handler has one name in its loop, and none before.
OneName == \A c \in Conn :
  /\ pc[c] \in {"loop", "leave"} => \E u \in User : name[c] = {u}
  /\ pc[c] \in {"none", "handshake", "first"} => name[c] = {}
\* A client that has not connected has no handler.
NotStarted == \A c \in Conn : cpc[c] = "none" => pc[c] = "none"
\* The handler of an entry's connection has not removed it yet.
EntriesLive ==
  \A u \in User : clients[u].fd # NoFd => pc[clients[u].key] \in {"loop", "leave"}

Owned == SocketsOwned /\ HandlersOpen /\ OneName /\ NotStarted /\ EntriesLive
IInv == TypeOK /\ Owned /\ KeysMatchSockets

Entry == [fd : Fd, key : Conn]
Outgoing == [fd : Fd, key : Conn, frame : ServerFrame]
Incoming == [key : Conn, frame : ServerFrame]

\* The actions of the system, by name.
Step(c) ==
  \/ Accept(c) \/ Handshake(c)
  \/ \E f \in First(up[c]) : LoginAccepted(c, f) \/ LoginRefused(c, f)
       \/ HandleWho(c, f) \/ GetSocket(c, f) \/ HandleOther(c, f) \/ HandleQuit(c, f)
  \/ GetKey(c) \/ ReceiveFails(c) \/ Send(c) \/ Leave(c) \/ Close(c)
  \/ LoginReply(c) \/ ConnectionLost(c) \/ Display(c)
  \/ \E u \in User : TypeLogin(c, u) \/ TypeMsg(c, u)
  \/ TypeWho(c) \/ TypeQuit(c) \/ Die(c)

LEMMA NextSteps == Next => \E c \in Conn : Step(c)
  BY DEF Next, Step, Handler, Client, Typing

LEMMA NoFdNotFd == NoFd \notin Fd
  BY DEF NoFd, Fd

LEMMA FirstTyped ==
  ASSUME NEW S, NEW s \in Seq(S), NEW f \in First(s)
  PROVE  f \in S /\ Tail(s) \in Seq(S)
  BY DEF First

LEMMA TakesTyped ==
  ASSUME TypeOK, NEW c \in Conn, NEW at, NEW f, Takes(c, at, f)
  PROVE  f \in ClientFrame /\ up' \in [Conn -> Seq(ClientFrame)]
  <1>1. up[c] \in Seq(ClientFrame) /\ f \in First(up[c])
    BY DEF TypeOK, Takes
  <1>2. f \in ClientFrame /\ Tail(up[c]) \in Seq(ClientFrame)
    BY <1>1, FirstTyped
  <1> QED BY <1>2 DEF Takes, TypeOK

LEMMA WillSendTyped ==
  ASSUME TypeOK, NEW c \in Conn, NEW d \in Fd, NEW k \in Conn, NEW g \in ServerFrame,
         WillSend(c, d, k, g)
  PROVE  out' \in [Conn -> SUBSET Outgoing]
  <1>1. out \in [Conn -> SUBSET Outgoing]
    BY DEF TypeOK, Outgoing
  <1>2. [fd |-> d, key |-> k, frame |-> g] \in Outgoing
    BY DEF Outgoing
  <1> QED BY <1>1, <1>2 DEF WillSend

LEMMA ReplyTyped ==
  ASSUME TypeOK, NEW c \in Conn, fd[c] \in Fd, NEW type \in {"OK", "ERROR", "USERS"},
         Reply(c, type)
  PROVE  out' \in [Conn -> SUBSET Outgoing]
  <1>1. [type |-> type] \in ServerFrame
    BY DEF ServerFrame
  <1> QED BY <1>1, WillSendTyped DEF Reply

LEMMA CountTyped ==
  ASSUME TypeOK, NEW c \in Conn, Count(c)
  PROVE  sent' \in [Conn -> Nat]
  BY DEF TypeOK, Count

LEMMA SaysTyped ==
  ASSUME TypeOK, NEW c \in Conn, NEW f \in ClientFrame, Says(c, f)
  PROVE  up' \in [Conn -> Seq(ClientFrame)]
  BY DEF TypeOK, Says

\* An entry of the registry is Nobody or has a descriptor and a key.
LEMMA EntryTyped ==
  ASSUME TypeOK, NEW u \in User
  PROVE  /\ clients[u] \in Entry \/ clients[u] = Nobody
         /\ clients[u].fd # NoFd <=> clients[u] \in Entry
         /\ clients[u].key # NoConn <=> clients[u] \in Entry
  <1>1. clients[u] \in Entry \/ clients[u] = Nobody
    BY DEF TypeOK, Entry
  <1>2. CASE clients[u] \in Entry
    BY <1>2, NoFdNotFd, NoConnAssumption DEF Entry
  <1>3. CASE clients[u] = Nobody
    BY <1>3, NoFdNotFd, NoConnAssumption DEF Entry, Nobody
  <1> QED BY <1>1, <1>2, <1>3

(***************************************************************************)
(* Type correctness.  IInv is needed before the step, since a reply goes   *)
(* to the handler's own descriptor.                                        *)
(***************************************************************************)
LEMMA StepTypeOK ==
  ASSUME IInv, NEW c \in Conn, Step(c)
  PROVE  TypeOK'
<1>t. TypeOK
  BY DEF IInv
<1>o. pc[c] \in {"first", "loop"} => fd[c] \in Fd
  BY DEF IInv, Owned, HandlersOpen, Open
<1> USE DEF serverVars, clientVars
<1>1. CASE Accept(c)
  <2>1. PICK f \in Fd : sock' = [sock EXCEPT ![f] = c] /\ fd' = [fd EXCEPT ![c] = f]
    BY <1>1 DEF Accept
  <2>2. sock' \in [Fd -> Conn \cup {NoConn}] /\ fd' \in [Conn -> Fd \cup {NoFd}]
    BY <2>1, <1>t DEF TypeOK
  <2> QED BY <1>1, <1>t, <2>2 DEF Accept, TypeOK
<1>2. CASE Handshake(c)
  BY <1>2, <1>t DEF Handshake, ClientHandshake, TypeOK
<1>3. ASSUME NEW f, LoginAccepted(c, f) PROVE TypeOK'
  <2>0. f \in ClientFrame /\ up' \in [Conn -> Seq(ClientFrame)]
    BY <1>3, <1>t, TakesTyped DEF LoginAccepted
  <2>1. f.user \in User
    BY <1>3, <2>0 DEF LoginAccepted, ClientFrame
  <2>2. fd[c] \in Fd
    BY <1>3, <1>o DEF LoginAccepted, Takes
  <2>3. out' \in [Conn -> SUBSET Outgoing]
    BY <1>3, <1>t, <2>2, ReplyTyped DEF LoginAccepted
  <2>4. clients' \in [User -> Entry \cup {Nobody}]
    <3>1. [fd |-> fd[c], key |-> c] \in Entry
      BY <2>2 DEF Entry
    <3>2. clients \in [User -> Entry \cup {Nobody}]
      BY <1>t DEF TypeOK, Entry
    <3>3. clients' = [clients EXCEPT ![f.user] = [fd |-> fd[c], key |-> c]]
      BY <1>3 DEF LoginAccepted
    <3> QED BY <3>1, <3>2, <3>3
  <2> QED BY <1>3, <1>t, <2>0, <2>1, <2>3, <2>4
          DEF LoginAccepted, Takes, TypeOK, Entry, Outgoing
<1>4. ASSUME NEW f, LoginRefused(c, f) PROVE TypeOK'
  <2>1. up' \in [Conn -> Seq(ClientFrame)] /\ fd[c] \in Fd
    BY <1>4, <1>t, <1>o, TakesTyped DEF LoginRefused, Takes
  <2>2. out' \in [Conn -> SUBSET Outgoing]
    BY <1>4, <1>t, <2>1, ReplyTyped DEF LoginRefused
  <2> QED BY <1>4, <1>t, <2>1, <2>2 DEF LoginRefused, Takes, TypeOK, Outgoing
<1>5. ASSUME NEW f, HandleWho(c, f) PROVE TypeOK'
  <2>1. up' \in [Conn -> Seq(ClientFrame)] /\ fd[c] \in Fd
    BY <1>5, <1>t, <1>o, TakesTyped DEF HandleWho, Takes
  <2>2. out' \in [Conn -> SUBSET Outgoing]
    BY <1>5, <1>t, <2>1, ReplyTyped DEF HandleWho
  <2> QED BY <1>5, <1>t, <2>1, <2>2 DEF HandleWho, Takes, TypeOK, Outgoing
<1>6. ASSUME NEW f, GetSocket(c, f) PROVE TypeOK'
  <2>0. f \in ClientFrame /\ up' \in [Conn -> Seq(ClientFrame)] /\ fd[c] \in Fd
    BY <1>6, <1>t, <1>o, TakesTyped DEF GetSocket, Takes
  <2>1. f.to \in User /\ f.n \in Nat
    BY <1>6, <2>0 DEF GetSocket, ClientFrame
  <2>2. asked \in [Conn -> SUBSET [fd : Fd, chat : Chat]]
        /\ out \in [Conn -> SUBSET Outgoing]
    BY <1>t DEF TypeOK, Outgoing
  <2>3. asked' \in [Conn -> SUBSET [fd : Fd, chat : Chat]] /\ out' \in [Conn -> SUBSET Outgoing]
    <3>1. CASE clients[f.to].fd = NoFd
      <4>1. Reply(c, "ERROR") /\ asked' = asked
        BY <3>1, <1>6 DEF GetSocket
      <4> QED BY <4>1, <2>0, <2>2, <1>t, ReplyTyped
    <3>2. CASE clients[f.to].fd # NoFd
      <4>1. clients[f.to].fd \in Fd
        BY <3>2, <2>1, <1>t, EntryTyped DEF Entry
      <4>2. PICK u \in name[c] : asked' = [asked EXCEPT ![c] =
              {[fd |-> clients[f.to].fd,
                chat |-> [by |-> c, from |-> u, to |-> f.to, n |-> f.n]]}]
        BY <3>2, <1>6 DEF GetSocket
      <4>3. u \in User
        BY <1>t DEF TypeOK
      <4>4. [by |-> c, from |-> u, to |-> f.to, n |-> f.n] \in Chat
        BY <4>3, <2>1 DEF Chat
      <4>5. out' = out
        BY <3>2, <1>6 DEF GetSocket
      <4> QED BY <4>1, <4>2, <4>4, <4>5, <2>2
    <3> QED BY <3>1, <3>2
  <2> QED BY <1>6, <1>t, <2>0, <2>3 DEF GetSocket, Takes, TypeOK, Outgoing
<1>7. ASSUME NEW f, HandleOther(c, f) \/ HandleQuit(c, f) PROVE TypeOK'
  <2>1. up' \in [Conn -> Seq(ClientFrame)]
    BY <1>7, <1>t, TakesTyped DEF HandleOther, HandleQuit
  <2> QED BY <1>7, <1>t, <2>1 DEF HandleOther, HandleQuit, Takes, TypeOK
<1>8. CASE GetKey(c)
  <2>1. PICK a \in asked[c] :
          LET k == clients[a.chat.to].key IN
          IF k = NoConn
            THEN server' = "aborted" /\ UNCHANGED out
            ELSE /\ WillSend(c, a.fd, k, [type |-> "FROM", chat |-> a.chat])
                 /\ UNCHANGED server
    BY <1>8 DEF GetKey
  <2>2. a \in [fd : Fd, chat : Chat]
    BY <1>t DEF TypeOK
  <2>3. a.fd \in Fd /\ a.chat \in Chat /\ a.chat.to \in User
    BY <2>2 DEF Chat
  <2>4. out' \in [Conn -> SUBSET Outgoing]
    <3>1. CASE clients[a.chat.to].key = NoConn
      BY <3>1, <2>1, <1>t DEF TypeOK, Outgoing
    <3>2. CASE clients[a.chat.to].key # NoConn
      <4>1. clients[a.chat.to].key \in Conn
        BY <3>2, <2>3, <1>t, EntryTyped DEF Entry
      <4>2. [type |-> "FROM", chat |-> a.chat] \in ServerFrame
        BY <2>3 DEF ServerFrame
      <4> QED BY <3>2, <4>1, <4>2, <2>1, <2>3, <1>t, WillSendTyped
    <3> QED BY <3>1, <3>2
  <2>5. server' \in {"running", "killed", "aborted"}
    BY <2>1, <1>t DEF TypeOK
  <2>6. asked' \in [Conn -> SUBSET [fd : Fd, chat : Chat]]
    BY <1>8, <1>t DEF GetKey, TypeOK
  <2> QED BY <1>8, <1>t, <2>4, <2>5, <2>6 DEF GetKey, TypeOK, Outgoing
<1>9. CASE ReceiveFails(c) \/ Close(c) \/ ConnectionLost(c) \/ Die(c)
  BY <1>9, <1>t DEF ReceiveFails, Close, ConnectionLost, Die, TypeOK
<1>10. CASE Leave(c)
  BY <1>10, <1>t DEF Leave, TypeOK
<1>11. CASE Send(c)
  <2>1. PICK o \in out[c] :
          LET d == sock[o.fd] IN
          \/ d = NoConn /\ UNCHANGED <<server, down>>
          \/ d # NoConn /\ d \notin Gone /\ UNCHANGED server
             /\ down' = [down EXCEPT ![d] = Append(@, [key |-> o.key, frame |-> o.frame])]
          \/ d \in Gone /\ server' \in {"running", "killed"} /\ UNCHANGED down
    BY <1>11 DEF Send
  <2>2. o \in Outgoing
    BY <1>t DEF TypeOK, Outgoing
  <2>3. [key |-> o.key, frame |-> o.frame] \in Incoming /\ down \in [Conn -> Seq(Incoming)]
    BY <2>2, <1>t DEF TypeOK, Outgoing, Incoming
  <2>4. sock[o.fd] \in Conn \cup {NoConn}
    BY <2>2, <1>t DEF TypeOK, Outgoing
  <2>5. down' \in [Conn -> Seq(Incoming)]
    <3>1. CASE down' = down
      BY <3>1, <2>3
    <3>2. CASE sock[o.fd] # NoConn /\ down' =
            [down EXCEPT ![sock[o.fd]] = Append(@, [key |-> o.key, frame |-> o.frame])]
      <4>1. Append(down[sock[o.fd]], [key |-> o.key, frame |-> o.frame]) \in Seq(Incoming)
        BY <3>2, <2>3, <2>4
      <4> QED BY <4>1, <3>2, <2>3
    <3> QED BY <3>1, <3>2, <2>1
  <2>6. server' \in {"running", "killed", "aborted"}
    BY <2>1, <1>t DEF TypeOK
  <2>7. out' \in [Conn -> SUBSET Outgoing]
    BY <1>11, <1>t DEF Send, TypeOK, Outgoing
  <2> QED BY <1>11, <1>t, <2>5, <2>6, <2>7 DEF Send, TypeOK, Incoming, Outgoing
<1>12. CASE LoginReply(c) \/ Display(c)
  <2>1. PICK h \in First(down[c]) : TRUE
    BY <1>12 DEF LoginReply, Display
  <2>2. Tail(down[c]) \in Seq(Incoming)
    BY <2>1, <1>t, FirstTyped DEF TypeOK, Incoming
  <2>3. down' \in [Conn -> Seq(Incoming)]
    BY <1>12, <1>t, <2>2 DEF LoginReply, Display, TypeOK, Incoming
  <2>4. cpc' \in [Conn -> {"none", "handshake", "prompt", "waiting", "in", "deaf", "closed"}]
    BY <1>12, <1>t DEF LoginReply, Display, TypeOK
  <2>5. got' \in [Conn -> Seq(Chat)]
    <3>1. CASE LoginReply(c)
      BY <3>1, <1>t DEF LoginReply, TypeOK
    <3>2. CASE Display(c)
      <4>1. PICK g \in First(down[c]) :
              got' = [got EXCEPT ![c] = IF Decrypts(c, g) /\ g.frame.type = "FROM"
                                          THEN Append(@, g.frame.chat) ELSE @]
        BY <3>2 DEF Display
      <4>2. g \in Incoming
        BY <4>1, <1>t, FirstTyped DEF TypeOK, Incoming
      <4>3. g.frame.type = "FROM" => g.frame.chat \in Chat
        BY <4>2 DEF Incoming, ServerFrame
      <4> QED BY <4>1, <4>3, <1>t DEF TypeOK
    <3> QED BY <1>12, <3>1, <3>2
  <2> QED BY <1>12, <1>t, <2>3, <2>4, <2>5 DEF LoginReply, Display, TypeOK, Incoming
<1>13. ASSUME NEW u \in User, TypeLogin(c, u) PROVE TypeOK'
  <2>1. [type |-> "LOGIN", user |-> u] \in ClientFrame
    BY DEF ClientFrame
  <2> QED BY <1>13, <1>t, <2>1, SaysTyped DEF TypeLogin, TypeOK
<1>14. ASSUME NEW u \in User, TypeMsg(c, u) PROVE TypeOK'
  <2>1. sent[c] + 1 \in Nat
    BY <1>t DEF TypeOK
  <2>2. [type |-> "MSG", to |-> u, n |-> sent[c] + 1] \in ClientFrame
    BY <2>1 DEF ClientFrame
  <2> QED BY <1>14, <1>t, <2>2, SaysTyped, CountTyped DEF TypeMsg, TypeOK
<1>15. CASE TypeWho(c) \/ TypeQuit(c)
  <2>1. [type |-> "WHO"] \in ClientFrame /\ [type |-> "QUIT"] \in ClientFrame
    BY DEF ClientFrame
  <2>2. up' \in [Conn -> Seq(ClientFrame)]
    BY <1>15, <1>t, <2>1, SaysTyped DEF TypeWho, TypeQuit
  <2>3. sent' \in [Conn -> Nat]
    BY <1>15, <1>t, CountTyped DEF TypeWho, TypeQuit, TypeOK
  <2> QED BY <1>15, <1>t, <2>2, <2>3 DEF TypeWho, TypeQuit, TypeOK
<1> QED BY <1>1, <1>2, <1>3, <1>4, <1>5, <1>6, <1>7, <1>8, <1>9, <1>10, <1>11, <1>12,
           <1>13, <1>14, <1>15
        DEF Step

LEMMA InitIInv == Init => IInv
<1> SUFFICES ASSUME Init PROVE IInv
  OBVIOUS
<1>1. TypeOK
  BY DEF Init, TypeOK
<1>2. Owned /\ KeysMatchSockets
  BY DEF Init, Owned, SocketsOwned, HandlersOpen, OneName, NotStarted, EntriesLive,
         Open, Nobody, KeysMatchSockets
<1> QED BY <1>1, <1>2 DEF IInv

\* The steps that touch neither the descriptors nor the names.
LEMMA OwnedUntouched ==
  ASSUME Owned, KeysMatchSockets, UNCHANGED <<sock, clients, pc, fd, name>>,
         \A c \in Conn : cpc'[c] = "none" => cpc[c] = "none"
  PROVE  Owned' /\ KeysMatchSockets'
  BY DEF Owned, SocketsOwned, HandlersOpen, OneName, NotStarted, EntriesLive, Open,
         KeysMatchSockets

\* What the invariant says of an entry.
LEMMA EntryOwned ==
  ASSUME IInv, NEW u \in User, clients[u].fd # NoFd
  PROVE  /\ clients[u].fd \in Fd /\ clients[u].key \in Conn
         /\ sock[clients[u].fd] = clients[u].key
         /\ name[clients[u].key] = {u}
         /\ pc[clients[u].key] \in {"loop", "leave"}
  <1>1. clients[u] \in Entry
    BY EntryTyped DEF IInv
  <1> QED BY <1>1 DEF IInv, Owned, EntriesLive, KeysMatchSockets, Entry

LEMMA StepOwned ==
  ASSUME IInv, NEW c \in Conn, Step(c)
  PROVE  Owned' /\ KeysMatchSockets'
<1>t. TypeOK /\ TypeOK'
  BY StepTypeOK DEF IInv
<1>i. /\ SocketsOwned /\ HandlersOpen /\ OneName /\ NotStarted /\ EntriesLive
      /\ KeysMatchSockets
  BY DEF IInv, Owned
<1>o. Owned /\ KeysMatchSockets
  BY DEF IInv
<1>e. \A u \in User : clients[u].fd # NoFd =>
         /\ clients[u].fd \in Fd /\ clients[u].key \in Conn
         /\ sock[clients[u].fd] = clients[u].key
         /\ name[clients[u].key] = {u}
         /\ pc[clients[u].key] \in {"loop", "leave"}
  BY EntryOwned
<1>h. \A d \in Conn : pc[d] \in {"loop", "leave"} =>
         \A u \in name[d] : u \in User /\ clients[u] = [fd |-> fd[d], key |-> d]
                            /\ clients[u].fd = fd[d] /\ clients[u].key = d /\ fd[d] \in Fd
  <2> SUFFICES ASSUME NEW d \in Conn, pc[d] \in {"loop", "leave"}, NEW u \in name[d]
               PROVE  u \in User /\ clients[u] = [fd |-> fd[d], key |-> d] /\ fd[d] \in Fd
    OBVIOUS
  <2>1. u \in User
    BY <1>t DEF TypeOK
  <2>2. clients[u] = [fd |-> fd[d], key |-> d]
    BY <1>i DEF KeysMatchSockets
  <2>3. fd[d] \in Fd
    BY <1>i DEF HandlersOpen, Open
  <2> QED BY <2>1, <2>2, <2>3
<1>x. /\ sock \in [Fd -> Conn \cup {NoConn}] /\ DOMAIN clients = User
      /\ fd \in [Conn -> Fd \cup {NoFd}] /\ name \in [Conn -> SUBSET User]
      /\ DOMAIN pc = Conn /\ DOMAIN cpc = Conn
  BY <1>t DEF TypeOK
<1> USE DEF serverVars, clientVars
<1>1. CASE Accept(c)
  <2>1. PICK f \in Fd : /\ sock[f] = NoConn /\ sock' = [sock EXCEPT ![f] = c]
                        /\ fd' = [fd EXCEPT ![c] = f]
    BY <1>1 DEF Accept
  <2>2. /\ cpc[c] = "none" /\ pc[c] = "none"
        /\ pc' = [pc EXCEPT ![c] = "handshake"] /\ cpc' = [cpc EXCEPT ![c] = "handshake"]
        /\ UNCHANGED <<clients, name>>
    BY <1>1, <1>i DEF Accept, NotStarted
  <2>3. SocketsOwned' /\ HandlersOpen' /\ OneName' /\ NotStarted'
    BY <2>1, <2>2, <1>i, <1>x, NoConnAssumption
       DEF SocketsOwned, HandlersOpen, OneName, NotStarted, Open
  <2>4. EntriesLive' /\ KeysMatchSockets'
    <3>1. ASSUME NEW u \in User, clients'[u].fd # NoFd
          PROVE  /\ sock'[clients'[u].fd] = clients'[u].key
                 /\ clients'[u].key \in Conn /\ name'[clients'[u].key] = {u}
                 /\ pc'[clients'[u].key] \in {"loop", "leave"}
      <4>1. clients[u].fd # f /\ clients[u].key # c
        BY <3>1, <2>1, <2>2, <1>e, NoConnAssumption
      <4> QED BY <4>1, <3>1, <2>1, <2>2, <1>e, <1>x
    <3>2. ASSUME NEW d \in Conn, pc'[d] \in {"loop", "leave"}, NEW u \in name'[d]
          PROVE  clients'[u] = [fd |-> fd'[d], key |-> d]
      <4>1. d # c /\ pc[d] \in {"loop", "leave"} /\ fd'[d] = fd[d]
        BY <3>2, <2>1, <2>2, <1>x
      <4> QED BY <4>1, <3>2, <2>2, <1>h
    <3> QED BY <3>1, <3>2 DEF EntriesLive, KeysMatchSockets
  <2> QED BY <2>3, <2>4 DEF Owned
<1>2. CASE Handshake(c)
  <2>1. /\ pc[c] = "handshake" /\ cpc[c] = "handshake"
        /\ pc' = pc \/ pc' = [pc EXCEPT ![c] = "first"]
        /\ \E x \in {"closed", "prompt"} : cpc' = [cpc EXCEPT ![c] = x]
        /\ UNCHANGED <<sock, clients, fd, name>>
    <3>1. pc' = pc \/ pc' = [pc EXCEPT ![c] = "first"]
      BY <1>2, <1>t DEF Handshake, TypeOK
    <3> QED BY <3>1, <1>2 DEF Handshake, ClientHandshake
  <2>2. SocketsOwned' /\ HandlersOpen' /\ OneName' /\ NotStarted'
    BY <2>1, <1>i, <1>x DEF SocketsOwned, HandlersOpen, OneName, NotStarted, Open
  <2>3. EntriesLive' /\ KeysMatchSockets'
    BY <2>1, <1>i, <1>e, <1>x DEF EntriesLive, KeysMatchSockets
  <2> QED BY <2>2, <2>3 DEF Owned
<1>3. ASSUME NEW f, LoginAccepted(c, f) PROVE Owned' /\ KeysMatchSockets'
  <2>1. PICK u \in User : /\ u = f.user /\ clients[u].fd = NoFd
                          /\ clients' = [clients EXCEPT ![u] = [fd |-> fd[c], key |-> c]]
                          /\ name' = [name EXCEPT ![c] = {u}]
    <3>1. f \in ClientFrame /\ f.type = "LOGIN"
      BY <1>3, <1>t, TakesTyped DEF LoginAccepted
    <3>2. f.user \in User
      BY <3>1 DEF ClientFrame
    <3>3. /\ clients[f.user].fd = NoFd
          /\ clients' = [clients EXCEPT ![f.user] = [fd |-> fd[c], key |-> c]]
          /\ name' = [name EXCEPT ![c] = {f.user}]
      BY <1>3 DEF LoginAccepted
    <3> QED BY <3>2, <3>3
  <2>2. /\ pc[c] = "first" /\ pc' = [pc EXCEPT ![c] = "loop"]
        /\ UNCHANGED <<sock, fd, cpc>>
    BY <1>3 DEF LoginAccepted, Takes
  <2>3. fd[c] \in Fd /\ sock[fd[c]] = c
    BY <2>2, <1>i DEF HandlersOpen, Open
  <2>4. SocketsOwned' /\ HandlersOpen' /\ OneName' /\ NotStarted'
    BY <2>1, <2>2, <1>i, <1>x DEF SocketsOwned, HandlersOpen, OneName, NotStarted, Open
  <2>5. EntriesLive' /\ KeysMatchSockets'
    <3>1. ASSUME NEW v \in User, clients'[v].fd # NoFd
          PROVE  /\ sock'[clients'[v].fd] = clients'[v].key
                 /\ clients'[v].key \in Conn /\ name'[clients'[v].key] = {v}
                 /\ pc'[clients'[v].key] \in {"loop", "leave"}
      <4>1. CASE v = u
        BY <4>1, <2>1, <2>2, <2>3, <1>x
      <4>2. CASE v # u
        <5>1. clients'[v] = clients[v]
          BY <4>2, <2>1, <1>x
        <5>2. clients[v].key # c
          BY <5>1, <3>1, <2>2, <1>e
        <5> QED BY <5>1, <5>2, <3>1, <2>1, <2>2, <1>e, <1>x
      <4> QED BY <4>1, <4>2
    <3>2. ASSUME NEW d \in Conn, pc'[d] \in {"loop", "leave"}, NEW v \in name'[d]
          PROVE  clients'[v] = [fd |-> fd'[d], key |-> d]
      <4>1. CASE d = c
        BY <4>1, <3>2, <2>1, <2>2, <1>x
      <4>2. CASE d # c
        <5>1. v \in name[d] /\ pc[d] \in {"loop", "leave"}
          BY <4>2, <3>2, <2>1, <2>2, <1>x
        <5>2. v \in User /\ clients[v] = [fd |-> fd[d], key |-> d]
              /\ clients[v].fd = fd[d] /\ fd[d] \in Fd
          BY <5>1, <1>h
        <5>3. v # u
          BY <5>2, <2>1, NoFdNotFd
        <5> QED BY <5>2, <5>3, <2>1, <2>2, <1>x
      <4> QED BY <4>1, <4>2
    <3> QED BY <3>1, <3>2 DEF EntriesLive, KeysMatchSockets
  <2> QED BY <2>4, <2>5 DEF Owned
<1>4. ASSUME NEW f, LoginRefused(c, f) \/ HandleQuit(c, f) \/ ReceiveFails(c)
      PROVE  Owned' /\ KeysMatchSockets'
  <2>1. /\ \/ pc[c] = "loop" /\ pc' = [pc EXCEPT ![c] = "leave"]
           \/ pc[c] \in {"handshake", "first"} /\ pc' = [pc EXCEPT ![c] = "close"]
        /\ UNCHANGED <<sock, fd, cpc, clients, name>>
    BY <1>4 DEF LoginRefused, HandleQuit, ReceiveFails, Takes
  <2>2. SocketsOwned' /\ HandlersOpen' /\ OneName' /\ NotStarted'
    BY <2>1, <1>i, <1>x DEF SocketsOwned, HandlersOpen, OneName, NotStarted, Open
  <2>3. EntriesLive' /\ KeysMatchSockets'
    BY <2>1, <1>i, <1>e, <1>x DEF EntriesLive, KeysMatchSockets
  <2> QED BY <2>2, <2>3 DEF Owned
<1>5. ASSUME NEW f, HandleWho(c, f) \/ GetSocket(c, f) \/ HandleOther(c, f)
      PROVE  Owned' /\ KeysMatchSockets'
  BY <1>5, <1>o, OwnedUntouched DEF HandleWho, GetSocket, HandleOther, Takes
<1>6. CASE GetKey(c) \/ Send(c)
  BY <1>6, <1>o, OwnedUntouched DEF GetKey, Send
<1>7. CASE Leave(c)
  <2>1. /\ pc[c] = "leave" /\ pc' = [pc EXCEPT ![c] = "close"]
        /\ clients' = [u \in User |-> IF u \in name[c] THEN Nobody ELSE clients[u]]
        /\ UNCHANGED <<sock, fd, cpc, name>>
    BY <1>7 DEF Leave
  <2>2. SocketsOwned' /\ HandlersOpen' /\ OneName' /\ NotStarted'
    BY <2>1, <1>i, <1>x DEF SocketsOwned, HandlersOpen, OneName, NotStarted, Open
  <2>3. EntriesLive' /\ KeysMatchSockets'
    <3>1. ASSUME NEW v \in User, clients'[v].fd # NoFd
          PROVE  /\ sock'[clients'[v].fd] = clients'[v].key
                 /\ clients'[v].key \in Conn /\ name'[clients'[v].key] = {v}
                 /\ pc'[clients'[v].key] \in {"loop", "leave"}
      <4>1. v \notin name[c] /\ clients'[v] = clients[v]
        BY <3>1, <2>1 DEF Nobody
      <4>2. clients[v].key # c
        BY <4>1, <3>1, <1>e
      <4> QED BY <4>1, <4>2, <3>1, <2>1, <1>e, <1>x
    <3>2. ASSUME NEW d \in Conn, pc'[d] \in {"loop", "leave"}, NEW v \in name'[d]
          PROVE  clients'[v] = [fd |-> fd'[d], key |-> d]
      <4>1. d # c /\ pc[d] \in {"loop", "leave"} /\ v \in name[d]
        BY <3>2, <2>1, <1>x
      <4>2. v \notin name[c]
        <5> SUFFICES ASSUME v \in name[c] PROVE FALSE
          OBVIOUS
        <5>1. clients[v].key = d /\ clients[v].key = c
          BY <4>1, <2>1, <1>h
        <5> QED BY <4>1, <5>1
      <4> QED BY <4>1, <4>2, <2>1, <1>h
    <3> QED BY <3>1, <3>2 DEF EntriesLive, KeysMatchSockets
  <2> QED BY <2>2, <2>3 DEF Owned
<1>8. CASE Close(c)
  <2>1. /\ pc[c] = "close" /\ pc' = [pc EXCEPT ![c] = "done"]
        /\ sock' = [sock EXCEPT ![fd[c]] = NoConn]
        /\ UNCHANGED <<clients, fd, cpc, name>>
    BY <1>8 DEF Close
  <2>2. fd[c] \in Fd /\ sock[fd[c]] = c
    BY <2>1, <1>i DEF HandlersOpen, Open
  <2>3. SocketsOwned' /\ HandlersOpen' /\ OneName' /\ NotStarted'
    BY <2>1, <2>2, <1>i, <1>x DEF SocketsOwned, HandlersOpen, OneName, NotStarted, Open
  <2>4. EntriesLive' /\ KeysMatchSockets'
    <3>1. ASSUME NEW v \in User, clients'[v].fd # NoFd
          PROVE  /\ sock'[clients'[v].fd] = clients'[v].key
                 /\ clients'[v].key \in Conn /\ name'[clients'[v].key] = {v}
                 /\ pc'[clients'[v].key] \in {"loop", "leave"}
      <4>1. clients[v].key # c /\ clients[v].fd # fd[c]
        BY <3>1, <2>1, <2>2, <1>e
      <4> QED BY <4>1, <3>1, <2>1, <2>2, <1>e, <1>x
    <3>2. ASSUME NEW d \in Conn, pc'[d] \in {"loop", "leave"}, NEW v \in name'[d]
          PROVE  clients'[v] = [fd |-> fd'[d], key |-> d]
      <4>1. d # c /\ pc[d] \in {"loop", "leave"}
        BY <3>2, <2>1, <1>x
      <4> QED BY <4>1, <3>2, <2>1, <1>h
    <3> QED BY <3>1, <3>2 DEF EntriesLive, KeysMatchSockets
  <2> QED BY <2>3, <2>4 DEF Owned
<1>9. CASE LoginReply(c) \/ ConnectionLost(c) \/ Display(c) \/ TypeWho(c) \/ TypeQuit(c)
           \/ Die(c) \/ \E u \in User : TypeLogin(c, u) \/ TypeMsg(c, u)
  <2>1. UNCHANGED <<sock, clients, pc, fd, name>>
    BY <1>9 DEF LoginReply, ConnectionLost, Display, TypeWho, TypeQuit, Die, TypeLogin, TypeMsg
  <2>2. cpc[c] # "none"
    BY <1>9, <1>i DEF LoginReply, ConnectionLost, Display, TypeWho, TypeQuit, Die, TypeLogin,
                      TypeMsg
  <2>3. \A d \in Conn : d # c => cpc'[d] = cpc[d]
    BY <1>9, <1>x DEF LoginReply, ConnectionLost, Display, TypeWho, TypeQuit, Die, TypeLogin,
                      TypeMsg
  <2>4. cpc'[c] # "none"
    BY <1>9, <1>x, <2>2 DEF LoginReply, ConnectionLost, Display, TypeWho, TypeQuit, Die,
                            TypeLogin, TypeMsg
  <2>5. \A d \in Conn : cpc'[d] = "none" => cpc[d] = "none"
    BY <2>3, <2>4
  <2> QED BY <2>1, <2>5, <1>o, OwnedUntouched
<1> QED BY <1>1, <1>2, <1>3, <1>4, <1>5, <1>6, <1>7, <1>8, <1>9 DEF Step

LEMMA NextIInv == IInv /\ [Next]_vars => IInv'
<1> SUFFICES ASSUME IInv, [Next]_vars PROVE IInv'
  OBVIOUS
<1>1. CASE Next
  <2>1. PICK c \in Conn : Step(c)
    BY <1>1, NextSteps
  <2> QED BY <2>1, StepTypeOK, StepOwned DEF IInv
<1>2. CASE UNCHANGED vars
  <2>1. TypeOK'
    BY <1>2 DEF vars, serverVars, clientVars, IInv, TypeOK
  <2>2. Owned' /\ KeysMatchSockets'
    BY <1>2, OwnedUntouched DEF vars, serverVars, clientVars, IInv
  <2> QED BY <2>1, <2>2 DEF IInv
<1> QED BY <1>1, <1>2

LEMMA Invariance == Spec => []IInv
  BY InitIInv, NextIInv, PTL DEF Spec

\* Every variable keeps its type: above all, a frame is only ever composed for
\* a descriptor and under a key, never for the empty answers of the registry.
THEOREM TypeCorrect == Spec => []TypeOK
  BY Invariance, PTL DEF IInv

\* The descriptor and the key that an entry of the registry holds are always
\* those of one connection, the one logged in under the entry's name.
THEOREM KeysStayMatched == Spec => []KeysMatchSockets
  BY Invariance, PTL DEF IInv

(***************************************************************************)
(* Messages reach their receiver.  Whatever descriptor a message goes to,  *)
(* the key it is under is that of a connection logged in, then or earlier, *)
(* under its receiver's name, because the key comes out of one entry; and  *)
(* a connection never changes its name.                                    *)
(***************************************************************************)
\* Given the names, a message under a key is for the user of the key's connection.
Addressed(o, names) == o.frame.type = "FROM" => o.frame.chat.to \in names[o.key]
OutAddressed == \A c \in Conn : \A o \in out[c] : Addressed(o, name)
DownAddressed == \A c \in Conn : \A i \in 1..Len(down[c]) : Addressed(down[c][i], name)
Sealed == OutAddressed /\ DownAddressed /\ ReachesReceiver
SealedInv == IInv /\ Sealed

\* A connection keeps its name.
LEMMA NameKept ==
  ASSUME IInv, NEW c \in Conn, Step(c)
  PROVE  \A d \in Conn : name[d] \subseteq name'[d]
<1>x. name \in [Conn -> SUBSET User]
  BY DEF IInv, TypeOK
<1> USE DEF serverVars, clientVars
<1>1. ASSUME NEW f, LoginAccepted(c, f) PROVE \A d \in Conn : name[d] \subseteq name'[d]
  <2>1. name[c] = {} /\ name' = [name EXCEPT ![c] = {f.user}]
    BY <1>1 DEF LoginAccepted, Takes, IInv, Owned, OneName
  <2> QED BY <2>1, <1>x
<1>2. CASE \/ Accept(c) \/ Handshake(c)
           \/ \E f \in First(up[c]) : LoginRefused(c, f) \/ HandleWho(c, f)
                \/ GetSocket(c, f) \/ HandleOther(c, f) \/ HandleQuit(c, f)
  BY <1>2 DEF Accept, Handshake, LoginRefused, HandleWho, GetSocket, HandleOther, HandleQuit
<1>3. CASE \/ GetKey(c) \/ ReceiveFails(c) \/ Send(c) \/ Leave(c) \/ Close(c)
           \/ LoginReply(c) \/ ConnectionLost(c) \/ Display(c)
           \/ \E u \in User : TypeLogin(c, u) \/ TypeMsg(c, u)
           \/ TypeWho(c) \/ TypeQuit(c) \/ Die(c)
  BY <1>3 DEF GetKey, ReceiveFails, Send, Leave, Close, LoginReply, ConnectionLost, Display,
              TypeLogin, TypeMsg, TypeWho, TypeQuit, Die
<1> QED BY <1>1, <1>2, <1>3 DEF Step

LEMMA StepSealed ==
  ASSUME SealedInv, NEW c \in Conn, Step(c)
  PROVE  Sealed'
<1>i. IInv /\ TypeOK /\ OutAddressed /\ DownAddressed /\ ReachesReceiver
  BY DEF SealedInv, Sealed, IInv
<1>n. \A d \in Conn : name[d] \subseteq name'[d]
  BY <1>i, NameKept
<1>x. /\ out \in [Conn -> SUBSET Outgoing] /\ down \in [Conn -> Seq(Incoming)]
      /\ got \in [Conn -> Seq(Chat)]
  BY <1>i DEF TypeOK, Outgoing, Incoming
\* What was addressed, sent or displayed before the step stays so.
<1>o. \A d \in Conn : \A o \in out[d] : Addressed(o, name')
  <2> SUFFICES ASSUME NEW d \in Conn, NEW o \in out[d]
               PROVE  Addressed(o, name')
    OBVIOUS
  <2>1. o.key \in Conn
    BY <1>x DEF Outgoing
  <2>2. Addressed(o, name)
    BY <1>i DEF OutAddressed
  <2> QED BY <2>1, <2>2, <1>n DEF Addressed
<1>d. \A d \in Conn : \A i \in 1..Len(down[d]) : Addressed(down[d][i], name')
  <2> SUFFICES ASSUME NEW d \in Conn, NEW i \in 1..Len(down[d])
               PROVE  Addressed(down[d][i], name')
    OBVIOUS
  <2>1. down[d][i] \in Incoming
    BY <1>x
  <2>2. Addressed(down[d][i], name)
    BY <1>i DEF DownAddressed
  <2> QED BY <2>1, <2>2, <1>n DEF Addressed, Incoming
<1>g. \A d \in Conn : \A i \in 1..Len(got[d]) : got[d][i].to \in name'[d]
  BY <1>i, <1>n DEF ReachesReceiver
\* So a step need be looked at only for what it adds.
<1>a. ASSUME \A d \in Conn : \A o \in out'[d] : o \in out[d] \/ Addressed(o, name')
      PROVE  OutAddressed'
  BY <1>a, <1>o DEF OutAddressed
<1>b. ASSUME down' = down PROVE DownAddressed'
  BY <1>b, <1>d DEF DownAddressed
<1>c. ASSUME got' = got PROVE ReachesReceiver'
  BY <1>c, <1>g DEF ReachesReceiver
<1>e. ASSUME NEW h \in First(down[c]), down' = [down EXCEPT ![c] = Tail(@)]
      PROVE  DownAddressed' /\ h \in Incoming /\ Addressed(h, name')
  <2>1. down[c] # <<>> /\ h = Head(down[c])
    BY <1>e DEF First
  <2>2. /\ Len(down[c]) \in Nat \ {0} /\ h = down[c][1] /\ h \in Incoming
        /\ Len(Tail(down[c])) = Len(down[c]) - 1
        /\ \A i \in 1..Len(Tail(down[c])) : Tail(down[c])[i] = down[c][i + 1]
    BY <2>1, <1>x
  <2>3. Addressed(h, name')
    BY <2>2, <1>d
  <2>4. \A i \in 1..Len(Tail(down[c])) : Addressed(Tail(down[c])[i], name')
    BY <2>2, <1>d
  <2>5. ASSUME NEW d \in Conn, NEW i \in 1..Len(down'[d])
        PROVE  Addressed(down'[d][i], name')
    BY <2>4, <2>5, <1>d, <1>e, <1>x
  <2> QED BY <2>2, <2>3, <2>5 DEF DownAddressed
<1> USE DEF serverVars, clientVars
<1>1. CASE Accept(c) \/ Handshake(c)
  <2>1. UNCHANGED <<out, down, got>>
    BY <1>1 DEF Accept, Handshake
  <2> QED BY <2>1, <1>a, <1>b, <1>c DEF Sealed
<1>2. ASSUME NEW f, \/ LoginAccepted(c, f) \/ LoginRefused(c, f) \/ HandleWho(c, f)
                    \/ GetSocket(c, f) \/ HandleOther(c, f) \/ HandleQuit(c, f)
      PROVE  Sealed'
  <2>1. UNCHANGED <<down, got>>
    BY <1>2 DEF LoginAccepted, LoginRefused, HandleWho, GetSocket, HandleOther, HandleQuit, Takes
  <2>2. out' = out \/ \E type \in {"OK", "ERROR", "USERS"} : Reply(c, type)
    BY <1>2 DEF LoginAccepted, LoginRefused, HandleWho, GetSocket, HandleOther, HandleQuit
  <2>3. \A d \in Conn : \A o \in out'[d] : o \in out[d] \/ Addressed(o, name')
    <3>1. ASSUME NEW type \in {"OK", "ERROR", "USERS"}, Reply(c, type),
                 NEW d \in Conn, NEW o \in out'[d]
          PROVE  o \in out[d] \/ Addressed(o, name')
      <4>1. o \in out[d] \/ o = [fd |-> fd[c], key |-> c, frame |-> [type |-> type]]
        BY <3>1, <1>x DEF Reply, WillSend
      <4> QED BY <4>1, <3>1 DEF Addressed
    <3> QED BY <2>2, <3>1
  <2> QED BY <2>1, <2>3, <1>a, <1>b, <1>c DEF Sealed
<1>3. CASE GetKey(c)
  <2>1. UNCHANGED <<down, got, name>>
    BY <1>3 DEF GetKey
  <2>2. PICK a \in asked[c] :
          \/ out' = out
          \/ /\ clients[a.chat.to].key # NoConn
             /\ WillSend(c, a.fd, clients[a.chat.to].key, [type |-> "FROM", chat |-> a.chat])
    BY <1>3 DEF GetKey
  <2>3. a.chat.to \in User
    BY <1>i DEF TypeOK, Chat
  <2>4. clients[a.chat.to].key # NoConn => name[clients[a.chat.to].key] = {a.chat.to}
    BY <2>3, <1>i, EntryTyped, EntryOwned
  <2>5. \A d \in Conn : \A o \in out'[d] : o \in out[d] \/ Addressed(o, name')
    <3> DEFINE k == clients[a.chat.to].key
               g == [fd |-> a.fd, key |-> k, frame |-> [type |-> "FROM", chat |-> a.chat]]
    <3>1. CASE out' = out
      BY <3>1
    <3>2. CASE k # NoConn /\ WillSend(c, a.fd, k, [type |-> "FROM", chat |-> a.chat])
      <4>1. Addressed(g, name')
        <5>1. g.frame.chat.to = a.chat.to /\ g.key = k
          OBVIOUS
        <5> QED BY <5>1, <3>2, <2>1, <2>4 DEF Addressed
      <4>2. out' = [out EXCEPT ![c] = {g}]
        BY <3>2 DEF WillSend
      <4> HIDE DEF g
      <4> QED BY <4>1, <4>2, <1>x
    <3> QED BY <3>1, <3>2, <2>2
  <2> QED BY <2>1, <2>5, <1>a, <1>b, <1>c DEF Sealed
<1>4. CASE Send(c)
  <2>1. got' = got /\ out' = [out EXCEPT ![c] = {}]
    BY <1>4 DEF Send
  <2>2. PICK o \in out[c] :
          LET d == sock[o.fd] IN
          \/ down' = down
          \/ d # NoConn
             /\ down' = [down EXCEPT ![d] = Append(@, [key |-> o.key, frame |-> o.frame])]
    BY <1>4 DEF Send
  <2>3. o \in Outgoing /\ sock[o.fd] \in Conn \cup {NoConn}
    BY <1>x, <1>i DEF Outgoing, TypeOK
  <2>4. DownAddressed'
    <3>1. CASE down' = down
      BY <3>1, <1>b
    <3>2. ASSUME NEW d \in Conn,
                 down' = [down EXCEPT ![d] = Append(@, [key |-> o.key, frame |-> o.frame])]
          PROVE  DownAddressed'
      <4> DEFINE g == [key |-> o.key, frame |-> o.frame]
      <4>1. g \in Incoming /\ Addressed(g, name')
        BY <2>2, <2>3, <1>o DEF Outgoing, Incoming, Addressed
      <4>2. /\ Len(Append(down[d], g)) = Len(down[d]) + 1
            /\ Append(down[d], g)[Len(down[d]) + 1] = g
            /\ \A i \in 1..Len(down[d]) : Append(down[d], g)[i] = down[d][i]
            /\ Len(down[d]) \in Nat
        BY <4>1, <1>x
      <4>3. \A i \in 1..Len(Append(down[d], g)) : Addressed(Append(down[d], g)[i], name')
        BY <4>1, <4>2, <1>d
      <4>4. ASSUME NEW e \in Conn, NEW i \in 1..Len(down'[e])
            PROVE  Addressed(down'[e][i], name')
        BY <4>3, <4>4, <3>2, <1>d, <1>x
      <4> QED BY <4>4 DEF DownAddressed
    <3> QED BY <3>1, <3>2, <2>2, <2>3
  <2>5. OutAddressed'
    BY <2>1, <1>a, <1>x
  <2> QED BY <2>1, <2>4, <2>5, <1>c DEF Sealed
<1>5. CASE \/ ReceiveFails(c) \/ Leave(c) \/ Close(c) \/ ConnectionLost(c)
           \/ TypeWho(c) \/ TypeQuit(c) \/ Die(c)
           \/ \E u \in User : TypeLogin(c, u) \/ TypeMsg(c, u)
  <2>1. UNCHANGED <<out, down, got>>
    BY <1>5 DEF ReceiveFails, Leave, Close, ConnectionLost, TypeWho, TypeQuit, Die,
                TypeLogin, TypeMsg
  <2> QED BY <2>1, <1>a, <1>b, <1>c DEF Sealed
<1>6. CASE LoginReply(c)
  <2>1. UNCHANGED <<out, got>> /\ down' = [down EXCEPT ![c] = Tail(@)]
    BY <1>6 DEF LoginReply
  <2>2. PICK h \in First(down[c]) : TRUE
    BY <1>6 DEF LoginReply
  <2> QED BY <2>1, <2>2, <1>a, <1>c, <1>e DEF Sealed
<1>7. CASE Display(c)
  <2>1. UNCHANGED out /\ down' = [down EXCEPT ![c] = Tail(@)]
    BY <1>7 DEF Display
  <2>2. PICK h \in First(down[c]) :
          got' = [got EXCEPT ![c] = IF Decrypts(c, h) /\ h.frame.type = "FROM"
                                      THEN Append(@, h.frame.chat) ELSE @]
    BY <1>7 DEF Display
  <2>3. DownAddressed' /\ h \in Incoming /\ Addressed(h, name')
    BY <2>1, <2>2, <1>e
  <2>4. ReachesReceiver'
    <3>1. CASE ~(Decrypts(c, h) /\ h.frame.type = "FROM")
      <4>1. got' = got
        BY <3>1, <2>2, <1>x
      <4> QED BY <4>1, <1>c
    <3>2. CASE h.key = c /\ h.frame.type = "FROM"
      <4> DEFINE m == h.frame.chat
      <4>1. m \in Chat /\ m.to \in name'[c]
        BY <3>2, <2>3 DEF Incoming, ServerFrame, Addressed
      <4>2. got' = [got EXCEPT ![c] = Append(@, m)]
        BY <3>2, <2>2 DEF Decrypts
      <4>3. /\ Len(Append(got[c], m)) = Len(got[c]) + 1
            /\ Append(got[c], m)[Len(got[c]) + 1] = m
            /\ \A i \in 1..Len(got[c]) : Append(got[c], m)[i] = got[c][i]
            /\ Len(got[c]) \in Nat
        BY <4>1, <1>x
      <4>4. \A i \in 1..Len(Append(got[c], m)) : Append(got[c], m)[i].to \in name'[c]
        BY <4>1, <4>3, <1>g
      <4>5. ASSUME NEW d \in Conn, NEW i \in 1..Len(got'[d])
            PROVE  got'[d][i].to \in name'[d]
        BY <4>2, <4>4, <4>5, <1>g, <1>x
      <4> QED BY <4>5 DEF ReachesReceiver
    <3> QED BY <3>1, <3>2 DEF Decrypts
  <2> QED BY <2>1, <2>3, <2>4, <1>a DEF Sealed
<1> QED BY <1>1, <1>2, <1>3, <1>4, <1>5, <1>6, <1>7 DEF Step

\* A client displays only messages sent to the name it is logged in under,
\* wherever a reused descriptor may have carried the others.
THEOREM MessagesReachReceiver == Spec => []ReachesReceiver
<1>1. Init => SealedInv
  <2>1. Init => Sealed
    BY DEF Init, Sealed, OutAddressed, DownAddressed, ReachesReceiver
  <2> QED BY <2>1, InitIInv DEF SealedInv
<1>2. SealedInv /\ [Next]_vars => SealedInv'
  <2> SUFFICES ASSUME SealedInv, [Next]_vars PROVE Sealed'
    BY NextIInv DEF SealedInv
  <2>1. CASE Next
    BY <2>1, NextSteps, StepSealed
  <2>2. CASE UNCHANGED vars
    BY <2>2 DEF SealedInv, Sealed, vars, serverVars, clientVars, OutAddressed, DownAddressed,
                ReachesReceiver
  <2> QED BY <2>1, <2>2
<1>3. SealedInv => ReachesReceiver
  BY DEF SealedInv, Sealed
<1> QED BY <1>1, <1>2, <1>3, PTL DEF Spec

(***************************************************************************)
(* Whoever is in is named.  An OK is only ever composed for a connection   *)
(* that has just been given its name, and a connection does not lose it;   *)
(* what else comes while a client waits for its OK does not let it in.     *)
(***************************************************************************)
LoggedIn == {d \in Conn : name[d] # {} /\ pc[d] \in {"loop", "leave", "close", "done"}}
Granted(o, logged) == o.frame.type = "OK" => o.key \in logged
OutGranted == \A c \in Conn : \A o \in out[c] : Granted(o, LoggedIn)
DownGranted == \A c \in Conn : \A i \in 1..Len(down[c]) : Granted(down[c][i], LoggedIn)
ClientsGranted == \A c \in Conn : cpc[c] \in {"in", "deaf"} => c \in LoggedIn
Place == {"none", "handshake", "prompt", "waiting", "in", "deaf", "closed"}
Grants == OutGranted /\ DownGranted /\ ClientsGranted
GrantsInv == IInv /\ Grants

\* A connection that is logged in stays so, to its end.
LEMMA LoggedInKept ==
  ASSUME IInv, NEW c \in Conn, Step(c)
  PROVE  LoggedIn \subseteq LoggedIn'
<1>x. /\ name \in [Conn -> SUBSET User]
      /\ pc \in [Conn -> {"none", "handshake", "first", "loop", "leave", "close", "done"}]
  BY DEF IInv, TypeOK
<1>n. \A d \in Conn : name[d] # {} => name'[d] # {}
  BY NameKept
<1>s. ASSUME NEW d \in LoggedIn,
             \/ pc' = pc
             \/ \E to : pc' = [pc EXCEPT ![c] = to]
                       /\ (c \in LoggedIn => to \in {"loop", "leave", "close", "done"})
      PROVE  d \in LoggedIn'
  BY <1>s, <1>n, <1>x DEF LoggedIn
<1> USE DEF serverVars, clientVars
<1>1. CASE Accept(c)
  <2>1. pc' = [pc EXCEPT ![c] = "handshake"] /\ pc[c] = "none"
    BY <1>1 DEF Accept, IInv, Owned, NotStarted
  <2> QED BY <2>1, <1>s DEF LoggedIn
<1>2. CASE Handshake(c)
  <2>1. pc[c] = "handshake" /\ \E to : pc' = [pc EXCEPT ![c] = to]
    BY <1>2 DEF Handshake
  <2> QED BY <2>1, <1>s DEF LoggedIn
<1>3. ASSUME NEW f, \/ LoginAccepted(c, f) \/ LoginRefused(c, f) \/ HandleWho(c, f)
                    \/ GetSocket(c, f) \/ HandleOther(c, f) \/ HandleQuit(c, f)
      PROVE  LoggedIn \subseteq LoggedIn'
  <2>1. pc' = pc \/ \E to \in {"loop", "leave", "close"} : pc' = [pc EXCEPT ![c] = to]
    BY <1>3 DEF LoginAccepted, LoginRefused, HandleWho, GetSocket, HandleOther, HandleQuit
  <2> QED BY <2>1, <1>s
<1>4. CASE GetKey(c) \/ Send(c) \/ LoginReply(c) \/ ConnectionLost(c) \/ Display(c)
           \/ (\E u \in User : TypeLogin(c, u) \/ TypeMsg(c, u))
           \/ TypeWho(c) \/ TypeQuit(c) \/ Die(c)
  <2>1. pc' = pc
    BY <1>4 DEF GetKey, Send, LoginReply, ConnectionLost, Display, TypeLogin, TypeMsg,
                TypeWho, TypeQuit, Die
  <2> QED BY <2>1, <1>s
<1>5. CASE ReceiveFails(c) \/ Leave(c) \/ Close(c)
  <2>1. \E to \in {"leave", "close", "done"} : pc' = [pc EXCEPT ![c] = to]
    BY <1>5 DEF ReceiveFails, Leave, Close
  <2> QED BY <2>1, <1>s
<1> QED BY <1>1, <1>2, <1>3, <1>4, <1>5 DEF Step

LEMMA StepGrants ==
  ASSUME GrantsInv, NEW c \in Conn, Step(c)
  PROVE  Grants'
<1>i. IInv /\ TypeOK /\ OutGranted /\ DownGranted /\ ClientsGranted
  BY DEF GrantsInv, Grants, IInv
<1>n. LoggedIn \subseteq LoggedIn'
  BY <1>i, LoggedInKept
<1>x. /\ out \in [Conn -> SUBSET Outgoing] /\ down \in [Conn -> Seq(Incoming)]
      /\ cpc \in [Conn -> Place]
  BY <1>i DEF TypeOK, Outgoing, Incoming, Place
<1> DEFINE logged == LoggedIn'
\* What was granted before the step stays so.
<1>o. \A d \in Conn : \A o \in out[d] : Granted(o, logged)
  BY <1>i, <1>n DEF OutGranted, Granted
<1>d. \A d \in Conn : \A i \in 1..Len(down[d]) : Granted(down[d][i], logged)
  BY <1>i, <1>n DEF DownGranted, Granted
<1>g. \A d \in Conn : cpc[d] \in {"in", "deaf"} => d \in logged
  BY <1>i, <1>n DEF ClientsGranted
<1> HIDE DEF logged
\* So a step need be looked at only for what it adds.
<1>a. ASSUME \A d \in Conn : \A o \in out'[d] : o \in out[d] \/ Granted(o, logged)
      PROVE  OutGranted'
  BY <1>a, <1>o DEF OutGranted, logged
<1>b. ASSUME down' = down PROVE DownGranted'
  BY <1>b, <1>d DEF DownGranted, logged
<1>c. ASSUME cpc' = cpc \/ \E to \in Place : /\ cpc' = [cpc EXCEPT ![c] = to]
                                             /\ to \in {"in", "deaf"} => c \in logged
      PROVE  ClientsGranted'
  <2>1. CASE cpc' = cpc
    BY <2>1, <1>g DEF ClientsGranted, logged
  <2>2. CASE cpc' # cpc
    <3>1. PICK to \in Place : /\ cpc' = [cpc EXCEPT ![c] = to]
                              /\ to \in {"in", "deaf"} => c \in logged
      BY <1>c, <2>2
    <3>2. \A d \in Conn : cpc'[d] = IF d = c THEN to ELSE cpc[d]
      BY <3>1, <1>x
    <3> QED BY <3>1, <3>2, <1>g DEF ClientsGranted, logged
  <2> QED BY <2>1, <2>2
<1>e. ASSUME NEW h \in First(down[c]), down' = [down EXCEPT ![c] = Tail(@)]
      PROVE  DownGranted' /\ h \in Incoming /\ Granted(h, logged)
  <2>1. down[c] # <<>> /\ h = Head(down[c])
    BY <1>e DEF First
  <2>2. /\ Len(down[c]) \in Nat \ {0} /\ h = down[c][1] /\ h \in Incoming
        /\ Len(Tail(down[c])) = Len(down[c]) - 1
        /\ \A i \in 1..Len(Tail(down[c])) : Tail(down[c])[i] = down[c][i + 1]
    BY <2>1, <1>x
  <2>3. Granted(h, logged)
    BY <2>2, <1>d
  <2>4. \A i \in 1..Len(Tail(down[c])) : Granted(Tail(down[c])[i], logged)
    BY <2>2, <1>d
  <2>5. ASSUME NEW d \in Conn, NEW i \in 1..Len(down'[d])
        PROVE  Granted(down'[d][i], logged)
    BY <2>4, <2>5, <1>d, <1>e, <1>x
  <2> QED BY <2>2, <2>3, <2>5 DEF DownGranted, logged
<1> USE DEF serverVars, clientVars
<1>1. CASE Accept(c) \/ Handshake(c)
  <2>1. UNCHANGED <<out, down>>
    BY <1>1 DEF Accept, Handshake
  <2>2. \E to \in Place \ {"in", "deaf"} : cpc' = [cpc EXCEPT ![c] = to]
    BY <1>1 DEF Accept, Handshake, ClientHandshake, Place
  <2> QED BY <2>1, <2>2, <1>a, <1>b, <1>c DEF Grants
<1>2. ASSUME NEW f, LoginAccepted(c, f)
      PROVE  Grants'
  <2>1. UNCHANGED <<down, cpc>> /\ Reply(c, "OK")
    BY <1>2 DEF LoginAccepted, Takes
  <2>2. c \in logged
    <3>1. name' = [name EXCEPT ![c] = {f.user}] /\ pc' = [pc EXCEPT ![c] = "loop"]
      BY <1>2 DEF LoginAccepted
    <3>2. name'[c] # {} /\ pc'[c] = "loop"
      BY <3>1, <1>i DEF TypeOK
    <3> QED BY <3>2 DEF logged, LoggedIn
  <2>3. ASSUME NEW d \in Conn, NEW o \in out'[d] PROVE o \in out[d] \/ Granted(o, logged)
    <3>1. o \in out[d] \/ o = [fd |-> fd[c], key |-> c, frame |-> [type |-> "OK"]]
      BY <2>1, <2>3, <1>x DEF Reply, WillSend
    <3> QED BY <3>1, <2>2 DEF Granted
  <2> QED BY <2>1, <2>3, <1>a, <1>b, <1>c DEF Grants
<1>3. ASSUME NEW f, \/ LoginRefused(c, f) \/ HandleWho(c, f) \/ GetSocket(c, f)
                    \/ HandleOther(c, f) \/ HandleQuit(c, f)
      PROVE  Grants'
  <2>1. UNCHANGED <<down, cpc>>
    BY <1>3 DEF LoginRefused, HandleWho, GetSocket, HandleOther, HandleQuit, Takes
  <2>2. out' = out \/ \E type \in {"ERROR", "USERS"} : Reply(c, type)
    BY <1>3 DEF LoginRefused, HandleWho, GetSocket, HandleOther, HandleQuit
  <2>3. ASSUME NEW type \in {"ERROR", "USERS"}, Reply(c, type),
               NEW d \in Conn, NEW o \in out'[d]
        PROVE  o \in out[d] \/ Granted(o, logged)
    <3>1. o \in out[d] \/ o = [fd |-> fd[c], key |-> c, frame |-> [type |-> type]]
      BY <2>3, <1>x DEF Reply, WillSend
    <3> QED BY <3>1, <2>3 DEF Granted
  <2> QED BY <2>1, <2>2, <2>3, <1>a, <1>b, <1>c DEF Grants
<1>4. CASE GetKey(c)
  <2>1. UNCHANGED <<down, cpc>>
    BY <1>4 DEF GetKey
  <2>2. PICK a, k : out' = out \/ WillSend(c, a.fd, k, [type |-> "FROM", chat |-> a.chat])
    BY <1>4 DEF GetKey
  <2>3. ASSUME NEW d \in Conn, NEW o \in out'[d] PROVE o \in out[d] \/ Granted(o, logged)
    <3>1. o \in out[d] \/ o = [fd |-> a.fd, key |-> k, frame |-> [type |-> "FROM", chat |-> a.chat]]
      BY <2>2, <2>3, <1>x DEF WillSend
    <3> QED BY <3>1 DEF Granted
  <2> QED BY <2>1, <2>3, <1>a, <1>b, <1>c DEF Grants
<1>5. CASE Send(c)
  <2>1. cpc' = cpc /\ out' = [out EXCEPT ![c] = {}]
    BY <1>5 DEF Send
  <2>2. PICK o \in out[c] :
          LET d == sock[o.fd] IN
          \/ down' = down
          \/ d # NoConn
             /\ down' = [down EXCEPT ![d] = Append(@, [key |-> o.key, frame |-> o.frame])]
    BY <1>5 DEF Send
  <2>3. o \in Outgoing /\ sock[o.fd] \in Conn \cup {NoConn}
    BY <1>x, <1>i DEF Outgoing, TypeOK
  <2>4. DownGranted'
    <3>1. CASE down' = down
      BY <3>1, <1>b
    <3>2. ASSUME NEW d \in Conn,
                 down' = [down EXCEPT ![d] = Append(@, [key |-> o.key, frame |-> o.frame])]
          PROVE  DownGranted'
      <4> DEFINE g == [key |-> o.key, frame |-> o.frame]
      <4>1. g \in Incoming /\ Granted(g, logged)
        BY <2>2, <2>3, <1>o DEF Outgoing, Incoming, Granted
      <4>2. /\ Len(Append(down[d], g)) = Len(down[d]) + 1
            /\ Append(down[d], g)[Len(down[d]) + 1] = g
            /\ \A i \in 1..Len(down[d]) : Append(down[d], g)[i] = down[d][i]
            /\ Len(down[d]) \in Nat
        BY <4>1, <1>x
      <4>3. \A i \in 1..Len(Append(down[d], g)) : Granted(Append(down[d], g)[i], logged)
        BY <4>1, <4>2, <1>d
      <4>4. ASSUME NEW e \in Conn, NEW i \in 1..Len(down'[e])
            PROVE  Granted(down'[e][i], logged)
        BY <4>3, <4>4, <3>2, <1>d, <1>x
      <4> QED BY <4>4 DEF DownGranted, logged
    <3> QED BY <3>1, <3>2, <2>2, <2>3
  <2>5. OutGranted'
    BY <2>1, <1>a, <1>x
  <2> QED BY <2>1, <2>4, <2>5, <1>c DEF Grants
<1>6. CASE ReceiveFails(c) \/ Leave(c) \/ Close(c) \/ TypeWho(c)
           \/ \E u \in User : TypeMsg(c, u)
  <2>1. UNCHANGED <<out, down, cpc>>
    BY <1>6 DEF ReceiveFails, Leave, Close, TypeWho, TypeMsg
  <2> QED BY <2>1, <1>a, <1>b, <1>c DEF Grants
<1>7. CASE ConnectionLost(c) \/ TypeQuit(c) \/ Die(c) \/ \E u \in User : TypeLogin(c, u)
  <2>1. UNCHANGED <<out, down>>
    BY <1>7 DEF ConnectionLost, TypeQuit, Die, TypeLogin
  <2>2. \E to \in Place : cpc' = [cpc EXCEPT ![c] = to]
                       /\ (to \in {"in", "deaf"} => cpc[c] \in {"in", "deaf"})
    BY <1>7 DEF ConnectionLost, TypeQuit, Die, TypeLogin, Place
  <2> QED BY <2>1, <2>2, <1>g, <1>a, <1>b, <1>c DEF Grants
<1>8. CASE LoginReply(c)
  <2>1. UNCHANGED out /\ down' = [down EXCEPT ![c] = Tail(@)]
    BY <1>8 DEF LoginReply
  <2>2. PICK h \in First(down[c]) : cpc' = [cpc EXCEPT ![c] =
          CASE ~Decrypts(c, h) -> "closed"
            [] Decrypts(c, h) /\ h.frame.type = "OK" -> "in"
            [] OTHER -> "prompt"]
    BY <1>8 DEF LoginReply
  <2>3. DownGranted' /\ Granted(h, logged)
    BY <2>1, <2>2, <1>e
  <2>4. \E to \in Place : cpc' = [cpc EXCEPT ![c] = to] /\ (to \in {"in", "deaf"} => c \in logged)
    <3>1. CASE Decrypts(c, h) /\ h.frame.type = "OK"
      <4>1. cpc' = [cpc EXCEPT ![c] = "in"] /\ c \in logged
        BY <3>1, <2>2, <2>3 DEF Granted, Decrypts
      <4> QED BY <4>1 DEF Place
    <3>2. CASE ~Decrypts(c, h)
      <4>1. cpc' = [cpc EXCEPT ![c] = "closed"]
        BY <3>2, <2>2
      <4> QED BY <4>1 DEF Place
    <3>3. CASE Decrypts(c, h) /\ h.frame.type # "OK"
      <4>1. cpc' = [cpc EXCEPT ![c] = "prompt"]
        BY <3>3, <2>2
      <4> QED BY <4>1 DEF Place
    <3> QED BY <3>1, <3>2, <3>3
  <2> QED BY <2>1, <2>3, <2>4, <1>a, <1>c DEF Grants
<1>9. CASE Display(c)
  <2>1. UNCHANGED out /\ down' = [down EXCEPT ![c] = Tail(@)]
    BY <1>9 DEF Display
  <2>2. PICK h \in First(down[c]) : cpc' = [cpc EXCEPT ![c] = IF Decrypts(c, h) THEN @ ELSE "deaf"]
    BY <1>9 DEF Display
  <2>3. DownGranted'
    BY <2>1, <2>2, <1>e
  <2>4. c \in logged
    BY <1>9, <1>g DEF Display
  <2>5. \E to \in Place : cpc' = [cpc EXCEPT ![c] = to] /\ (to \in {"in", "deaf"} => c \in logged)
    <3>1. cpc' = [cpc EXCEPT ![c] = cpc[c]] \/ cpc' = [cpc EXCEPT ![c] = "deaf"]
      BY <2>2
    <3> QED BY <3>1, <2>4, <1>x DEF Place
  <2> QED BY <2>1, <2>3, <2>5, <1>a, <1>c DEF Grants
<1> QED BY <1>1, <1>2, <1>3, <1>4, <1>5, <1>6, <1>7, <1>8, <1>9 DEF Step

\* A client whose login loop has ended has a name at the server, whatever was
\* relayed to it before the reply.
THEOREM WhoIsInIsNamed == Spec => []InMeansNamed
<1>1. Init => GrantsInv
  <2>1. Init => Grants
    BY DEF Init, Grants, OutGranted, DownGranted, ClientsGranted
  <2> QED BY <2>1, InitIInv DEF GrantsInv
<1>2. GrantsInv /\ [Next]_vars => GrantsInv'
  <2> SUFFICES ASSUME GrantsInv, [Next]_vars PROVE Grants'
    BY NextIInv DEF GrantsInv
  <2>1. CASE Next
    BY <2>1, NextSteps, StepGrants
  <2>2. CASE UNCHANGED vars
    BY <2>2 DEF GrantsInv, Grants, vars, serverVars, clientVars, OutGranted, DownGranted,
                ClientsGranted, LoggedIn
  <2> QED BY <2>1, <2>2
<1>3. GrantsInv => InMeansNamed
  BY DEF GrantsInv, Grants, ClientsGranted, LoggedIn, InMeansNamed
<1> QED BY <1>1, <1>2, <1>3, PTL DEF Spec

(***************************************************************************)
(* The server implements Directory.  A name is freed only for a client     *)
(* that is gone, because a handler leaves its loop only on a QUIT, which   *)
(* the client sends as it closes, or on a closed connection.               *)
(***************************************************************************)
Quitting(c) == \E i \in 1..Len(up[c]) : up[c][i].type = "QUIT"
LeaversGone == \A c \in Conn : pc[c] = "leave" \/ Quitting(c) => c \in Gone

LEMMA StepLeaversGone ==
  ASSUME IInv, LeaversGone, NEW c \in Conn, Step(c)
  PROVE  LeaversGone'
<1>t. TypeOK /\ TypeOK'
  BY StepTypeOK DEF IInv
<1>x. /\ up \in [Conn -> Seq(ClientFrame)] /\ DOMAIN pc = Conn /\ DOMAIN cpc = Conn
  BY <1>t DEF TypeOK
<1> USE DEF serverVars, clientVars
\* Nothing but what follows is needed of a step.
<1>a. ASSUME \A d \in Conn : d \in Gone => d \in Gone',
             \A d \in Conn : (pc'[d] = "leave" => pc[d] = "leave" \/ d \in Gone' \/ Quitting(d)),
             \A d \in Conn : Quitting(d)' => Quitting(d) \/ d \in Gone'
      PROVE  LeaversGone'
  BY <1>a DEF LeaversGone
<1>b. ASSUME NEW at, NEW f, Takes(c, at, f)
      PROVE  /\ \A d \in Conn : Quitting(d)' => Quitting(d)
             /\ f.type = "QUIT" => Quitting(c)
             /\ Gone' = Gone
  <2>1. up[c] # <<>> /\ f = Head(up[c]) /\ up' = [up EXCEPT ![c] = Tail(@)] /\ cpc' = cpc
    BY <1>b DEF Takes, First
  <2>2. /\ Len(up[c]) \in Nat \ {0} /\ f = up[c][1]
        /\ Len(Tail(up[c])) = Len(up[c]) - 1
        /\ \A i \in 1..Len(Tail(up[c])) : Tail(up[c])[i] = up[c][i + 1]
    BY <2>1, <1>x
  <2>3. Quitting(c)' => Quitting(c)
    <3>1. up'[c] = Tail(up[c])
      BY <2>1, <1>x
    <3> SUFFICES ASSUME NEW i \in 1..Len(Tail(up[c])), Tail(up[c])[i].type = "QUIT"
                 PROVE  Quitting(c)
      BY <3>1 DEF Quitting
    <3>2. i + 1 \in 1..Len(up[c]) /\ up[c][i + 1].type = "QUIT"
      BY <2>2
    <3> QED BY <3>2 DEF Quitting
  <2>4. \A d \in Conn : d # c => Quitting(d)' = Quitting(d)
    BY <2>1, <1>x DEF Quitting
  <2>5. f.type = "QUIT" => Quitting(c)
    BY <2>2 DEF Quitting
  <2> QED BY <2>1, <2>3, <2>4, <2>5 DEF Gone
<1>c. ASSUME NEW f \in ClientFrame, f.type # "QUIT" \/ c \in Gone', Says(c, f)
      PROVE  \A d \in Conn : Quitting(d)' => Quitting(d) \/ d \in Gone'
  <2> SUFFICES ASSUME NEW d \in Conn, NEW i \in 1..Len(up'[d]), up'[d][i].type = "QUIT",
                      d \notin Gone'
               PROVE  Quitting(d)
    BY DEF Quitting
  <2>1. CASE d # c
    BY <2>1, <1>c, <1>x DEF Says, Quitting
  <2>2. CASE d = c
    <3>1. up'[c] = Append(up[c], f) /\ up[c] \in Seq(ClientFrame)
      BY <1>c, <1>x DEF Says
    <3>2. /\ Len(up'[c]) = Len(up[c]) + 1 /\ up'[c][Len(up[c]) + 1] = f
          /\ \A j \in 1..Len(up[c]) : up'[c][j] = up[c][j]
      BY <3>1
    <3>3. i \in 1..Len(up[c]) /\ up[c][i].type = "QUIT"
      BY <2>2, <3>1, <3>2, <1>c
    <3> QED BY <2>2, <3>3 DEF Quitting
  <2> QED BY <2>1, <2>2
<1>1. CASE Accept(c) \/ Handshake(c)
  <2>1. up' = up /\ \A d \in Conn : d \in Gone => d \in Gone'
    BY <1>1, <1>x DEF Accept, Handshake, ClientHandshake, Gone
  <2>2. \A d \in Conn : pc'[d] = "leave" => pc[d] = "leave"
    BY <1>1, <1>x DEF Accept, Handshake
  <2> QED BY <2>1, <2>2, <1>a DEF Quitting
<1>2. ASSUME NEW f, LoginAccepted(c, f) \/ LoginRefused(c, f)
      PROVE  LeaversGone'
  BY <1>2, <1>x, <1>a, <1>b DEF LoginAccepted, LoginRefused
<1>3. ASSUME NEW f, HandleWho(c, f) \/ GetSocket(c, f) \/ HandleOther(c, f) \/ HandleQuit(c, f)
      PROVE  LeaversGone'
  BY <1>3, <1>x, <1>a, <1>b DEF HandleWho, GetSocket, HandleOther, HandleQuit
<1>4. CASE ReceiveFails(c)
  BY <1>4, <1>x, <1>a DEF ReceiveFails, Gone, Quitting
<1>5. CASE GetKey(c) \/ Send(c) \/ Leave(c) \/ Close(c)
  BY <1>5, <1>x, <1>a DEF GetKey, Send, Leave, Close, Gone, Quitting
<1>6. CASE LoginReply(c) \/ ConnectionLost(c) \/ Display(c) \/ Die(c)
  <2>1. UNCHANGED <<pc, up>>
    BY <1>6 DEF LoginReply, ConnectionLost, Display, Die
  <2>2. \A d \in Conn : d # c => cpc'[d] = cpc[d]
    BY <1>6, <1>x DEF LoginReply, ConnectionLost, Display, Die
  <2>3. cpc[c] = "closed" => cpc'[c] = "closed"
    BY <1>6, <1>x DEF LoginReply, ConnectionLost, Display, Die
  <2> QED BY <2>1, <2>2, <2>3, <1>a DEF Gone, Quitting
<1>7. CASE \/ TypeWho(c) \/ TypeQuit(c)
           \/ \E u \in User : TypeLogin(c, u) \/ TypeMsg(c, u)
  <2>1. /\ pc' = pc
        /\ \A d \in Conn : d \in Gone => d \in Gone'
    BY <1>7, <1>x DEF TypeWho, TypeQuit, TypeLogin, TypeMsg, Gone
  <2>2. \E f \in ClientFrame : (f.type # "QUIT" \/ c \in Gone') /\ Says(c, f)
    <3>1. CASE TypeQuit(c)
      BY <3>1, <1>x DEF TypeQuit, Gone, ClientFrame
    <3>2. CASE TypeWho(c)
      BY <3>2 DEF TypeWho, ClientFrame
    <3>3. ASSUME NEW u \in User, TypeLogin(c, u)
          PROVE  \E f \in ClientFrame : f.type # "QUIT" /\ Says(c, f)
      BY <3>3 DEF TypeLogin, ClientFrame
    <3>4. ASSUME NEW u \in User, TypeMsg(c, u)
          PROVE  \E f \in ClientFrame : f.type # "QUIT" /\ Says(c, f)
      <4>1. sent[c] + 1 \in Nat
        BY <1>t DEF TypeOK
      <4> QED BY <4>1, <3>4 DEF TypeMsg, ClientFrame
    <3> QED BY <1>7, <3>1, <3>2, <3>3, <3>4
  <2> QED BY <2>1, <2>2, <1>a, <1>c
<1> QED BY <1>1, <1>2, <1>3, <1>4, <1>5, <1>6, <1>7 DEF Step

NamesInv == IInv /\ LeaversGone

LEMMA NamesInvariance == Spec => []NamesInv
<1>1. Init => NamesInv
  <2>1. Init => LeaversGone
    BY DEF Init, LeaversGone, Quitting
  <2> QED BY <2>1, InitIInv DEF NamesInv
<1>2. NamesInv /\ [Next]_vars => NamesInv'
  <2> SUFFICES ASSUME NamesInv, [Next]_vars PROVE LeaversGone'
    BY NextIInv DEF NamesInv
  <2>1. CASE Next
    BY <2>1, NextSteps, StepLeaversGone DEF NamesInv
  <2>2. CASE UNCHANGED vars
    BY <2>2 DEF NamesInv, vars, serverVars, clientVars, LeaversGone, Quitting, Gone
  <2> QED BY <2>1, <2>2
<1> QED BY <1>1, <1>2, PTL DEF Spec

HolderMap == [u \in User |-> clients[u].key]

LEMMA StepNames ==
  ASSUME NamesInv, NamesInv', NEW c \in Conn, Step(c)
  PROVE  Names!Next \/ (HolderMap' = HolderMap /\ Gone' = Gone)
<1>t. TypeOK /\ HandlersOpen /\ OneName /\ NotStarted /\ KeysMatchSockets
  BY DEF NamesInv, IInv, Owned
<1>x. DOMAIN clients = User /\ DOMAIN cpc = Conn
  BY <1>t DEF TypeOK
<1> USE DEF serverVars, clientVars
<1>1. ASSUME NEW f, LoginAccepted(c, f) PROVE Names!Next
  <2>1. f \in ClientFrame /\ f.type = "LOGIN"
    BY <1>1, <1>t, TakesTyped DEF LoginAccepted
  <2>2. f.user \in User
    BY <2>1 DEF ClientFrame
  <2>3. /\ clients[f.user].fd = NoFd
        /\ clients' = [clients EXCEPT ![f.user] = [fd |-> fd[c], key |-> c]]
        /\ cpc' = cpc /\ pc[c] = "first"
    BY <1>1 DEF LoginAccepted, Takes
  <2>4. \A v \in User : clients[v].key # c
    <3> SUFFICES ASSUME NEW v \in User, clients[v].key = c PROVE FALSE
      OBVIOUS
    <3>1. clients[v].fd # NoFd
      BY <1>t, EntryTyped, NoConnAssumption
    <3>2. pc[c] \in {"loop", "leave"}
      BY <3>1, EntryOwned DEF NamesInv
    <3> QED BY <3>2, <2>3
  <2>5. HolderMap[f.user] = NoConn
    BY <2>2, <2>3, <1>t, EntryTyped DEF HolderMap
  <2>6. HolderMap' = [HolderMap EXCEPT ![f.user] = c]
    BY <2>2, <2>3, <1>x DEF HolderMap
  <2>7. Gone' = Gone
    BY <2>3 DEF Gone
  <2>8. Names!Take(f.user, c)
    BY <2>4, <2>5, <2>6, <2>7 DEF Names!Take, HolderMap
  <2> QED BY <2>2, <2>8 DEF Names!Next
<1>2. CASE Leave(c)
  <2>1. /\ pc[c] = "leave" /\ cpc' = cpc
        /\ clients' = [u \in User |-> IF u \in name[c] THEN Nobody ELSE clients[u]]
    BY <1>2 DEF Leave
  <2>2. PICK u \in User : name[c] = {u}
    BY <2>1, <1>t DEF OneName
  <2>3. HolderMap[u] = c
    <3>1. clients[u] = [fd |-> fd[c], key |-> c]
      BY <2>1, <2>2, <1>t DEF KeysMatchSockets
    <3> QED BY <3>1 DEF HolderMap
  <2>4. c \in Gone
    BY <2>1 DEF NamesInv, LeaversGone
  <2>5. HolderMap' = [HolderMap EXCEPT ![u] = NoConn] /\ Gone' = Gone
    BY <2>1, <2>2 DEF HolderMap, Nobody, Gone
  <2>6. Names!Free(u)
    BY <2>3, <2>4, <2>5 DEF Names!Free, HolderMap
  <2> QED BY <2>6 DEF Names!Next
\* The other steps leave the registry alone, and a client at most goes.
<1>3. ASSUME clients' = clients,
             cpc' = cpc \/ \E x : cpc' = [cpc EXCEPT ![c] = x],
             cpc[c] = "closed" => cpc'[c] = "closed"
      PROVE  Names!Next \/ (HolderMap' = HolderMap /\ Gone' = Gone)
  <2>1. HolderMap' = HolderMap
    BY <1>3 DEF HolderMap
  <2>2. \A d \in Conn : d # c => cpc'[d] = cpc[d]
    BY <1>3, <1>x
  <2>3. Gone' = Gone \/ (c \notin Gone /\ Gone' = Gone \cup {c})
    BY <2>2, <1>3 DEF Gone
  <2>4. c \notin Gone /\ Gone' = Gone \cup {c} => Names!Go(c)
    BY <2>1 DEF Names!Go, HolderMap
  <2> QED BY <2>1, <2>3, <2>4 DEF Names!Next
<1>4. CASE Accept(c) \/ Handshake(c)
  <2>1. clients' = clients /\ \E x : cpc' = [cpc EXCEPT ![c] = x]
    BY <1>4 DEF Accept, Handshake, ClientHandshake
  <2>2. cpc[c] # "closed"
    BY <1>4 DEF Accept, Handshake
  <2> QED BY <2>1, <2>2, <1>3
<1>5. CASE \/ \E f \in First(up[c]) : LoginRefused(c, f) \/ HandleWho(c, f)
                \/ GetSocket(c, f) \/ HandleOther(c, f) \/ HandleQuit(c, f)
           \/ GetKey(c) \/ ReceiveFails(c) \/ Send(c) \/ Close(c)
           \/ TypeWho(c) \/ \E u \in User : TypeMsg(c, u)
  <2>1. UNCHANGED <<clients, cpc>>
    BY <1>5 DEF LoginRefused, HandleWho, GetSocket, HandleOther, HandleQuit, Takes,
                GetKey, ReceiveFails, Send, Close, TypeWho, TypeMsg
  <2> QED BY <2>1, <1>3
<1>6. CASE \/ LoginReply(c) \/ ConnectionLost(c) \/ Display(c) \/ TypeQuit(c) \/ Die(c)
           \/ \E u \in User : TypeLogin(c, u)
  <2>1. clients' = clients /\ \E x : cpc' = [cpc EXCEPT ![c] = x]
    BY <1>6 DEF LoginReply, ConnectionLost, Display, TypeQuit, Die, TypeLogin
  <2>2. cpc[c] # "closed"
    BY <1>6 DEF LoginReply, ConnectionLost, Display, TypeQuit, Die, TypeLogin
  <2> QED BY <2>1, <2>2, <1>3
<1> QED BY <1>1, <1>2, <1>3, <1>4, <1>5, <1>6 DEF Step

\* The registry implements Directory, an entry's key telling whose name it is:
\* a name belongs to one connection, from the login that took it until that
\* connection's client is gone.
THEOREM ImplementsNames == Spec => NamesSpec
<1>1. Init => Names!Init
  BY DEF Init, Names!Init, Nobody, Gone
<1>2. NamesInv /\ NamesInv' /\ [Next]_vars => [Names!Next]_(Names!vars)
  <2> SUFFICES ASSUME NamesInv, NamesInv', [Next]_vars
               PROVE  [Names!Next]_(Names!vars)
    OBVIOUS
  <2>1. CASE Next
    BY <2>1, NextSteps, StepNames DEF Names!vars, HolderMap
  <2>2. CASE UNCHANGED vars
    BY <2>2 DEF vars, serverVars, clientVars, Names!vars, Gone
  <2> QED BY <2>1, <2>2
<1> QED BY <1>1, <1>2, NamesInvariance, PTL DEF Spec, NamesSpec, Names!Spec
=============================================================================
