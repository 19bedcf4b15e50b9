-------------------------- MODULE ChatServerProofs --------------------------
(***************************************************************************)
(* Proofs about ChatServer, for any users, connections, number of          *)
(* descriptors and bounds.                                                 *)
(***************************************************************************)
EXTENDS ChatServer, TLAPS

USE NoConnAssumption, BoundAssumption

(***************************************************************************)
(* The inductive invariant.  RegistryExact alone is not inductive: that an *)
(* entry's descriptor stays open for its connection follows from the       *)
(* handlers and the descriptor table owning each other.                    *)
(***************************************************************************)
Open(c) == pc[c] \notin {"none", "done"}

\* An open descriptor belongs to the handler that was started with it.
SocketsOwned ==
  \A f \in Fd : sock[f] # NoConn => Open(sock[f]) /\ fd[sock[f]] = f
\* A handler that has not closed its socket has it open.
HandlersOpen ==
  \A c \in Conn : Open(c) => fd[c] \in Fd /\ sock[fd[c]] = c
\* A handler in its loop has one name.
OneName ==
  \A c \in Conn : pc[c] \in {"loop", "leave"} => \E u \in User : name[c] = {u}
\* A client that has not connected has no handler.
NotStarted == \A c \in Conn : cpc[c] = "none" => pc[c] = "none"

Owned == SocketsOwned /\ HandlersOpen /\ OneName /\ NotStarted
IInv == TypeOK /\ Owned /\ RegistryExact

\* The actions of the system, by name.
Step(c) ==
  \/ Accept(c)
  \/ \E f \in First(up[c]) : LoginAccepted(c, f) \/ LoginRefused(c, f)
       \/ HandleWho(c, f) \/ HandleMsg(c, f) \/ HandleOther(c, f) \/ HandleQuit(c, f)
  \/ ReceiveFails(c) \/ Send(c) \/ Leave(c) \/ Close(c)
  \/ LoginReply(c) \/ LoginFails(c) \/ Display(c)
  \/ \E u \in User : TypeLogin(c, u) \/ TypeMsg(c, u)
  \/ TypeWho(c) \/ TypeQuit(c) \/ Die(c)

LEMMA NextSteps == Next => \E c \in Conn : Step(c)
  BY DEF Next, Step, Handler, User_

LEMMA FirstTyped ==
  ASSUME NEW S, NEW s \in Seq(S), NEW f \in First(s)
  PROVE  f \in S /\ Tail(s) \in Seq(S)
  BY DEF First

LEMMA TakesTyped ==
  ASSUME TypeOK, NEW c \in Conn, NEW at, NEW f, Takes(c, at, f)
  PROVE  f \in ClientFrame /\ up' \in [Conn -> Seq(ClientFrame)]
  <1>1. up[c] \in Seq(ClientFrame) /\ f \in First(up[c])
    BY DEF TypeOK, Takes
  <1>2. f \in ClientFrame /\ Tail(up[c]) \in Seq(ClientFrame)
    BY <1>1, FirstTyped
  <1> QED BY <1>2 DEF Takes, TypeOK

LEMMA WillSendTyped ==
  ASSUME TypeOK, NEW c \in Conn, NEW d \in Fd, NEW g \in ServerFrame, WillSend(c, d, g)
  PROVE  out' \in [Conn -> SUBSET [fd : Fd, frame : ServerFrame]]
  BY DEF TypeOK, WillSend

LEMMA CountTyped ==
  ASSUME TypeOK, NEW c \in Conn, Count(c)
  PROVE  sent' \in [Conn -> Nat]
  BY DEF TypeOK, Count

LEMMA SaysTyped ==
  ASSUME TypeOK, NEW c \in Conn, NEW f \in ClientFrame, Says(c, f)
  PROVE  up' \in [Conn -> Seq(ClientFrame)]
  BY DEF TypeOK, Says

(***************************************************************************)
(* Type correctness.  IInv is needed before the step, since a reply goes   *)
(* to the handler's own descriptor.                                        *)
(***************************************************************************)
LEMMA StepTypeOK ==
  ASSUME IInv, NEW c \in Conn, Step(c)
  PROVE  TypeOK'
<1>t. TypeOK
  BY DEF IInv
<1>o. pc[c] \in {"first", "loop"} => fd[c] \in Fd
  BY DEF IInv, Owned, HandlersOpen, Open
<1> USE DEF serverVars, clientVars
<1>1. CASE Accept(c)
  BY <1>1, <1>t DEF Accept, TypeOK
<1>2. ASSUME NEW f, LoginAccepted(c, f) PROVE TypeOK'
  <2>0. f \in ClientFrame /\ up' \in [Conn -> Seq(ClientFrame)]
    BY <1>2, <1>t, TakesTyped DEF LoginAccepted
  <2>1. f.user \in User
    BY <1>2, <2>0 DEF LoginAccepted, ClientFrame
  <2>2. [type |-> "OK"] \in ServerFrame /\ fd[c] \in Fd
    BY <1>2, <1>o DEF LoginAccepted, Takes, ServerFrame
  <2>3. out' \in [Conn -> SUBSET [fd : Fd, frame : ServerFrame]]
    BY <1>2, <1>t, <2>2, WillSendTyped DEF LoginAccepted
  <2> QED BY <1>2, <1>t, <2>0, <2>1, <2>3 DEF LoginAccepted, Takes, TypeOK
<1>3. ASSUME NEW f, LoginRefused(c, f) PROVE TypeOK'
  <2>1. up' \in [Conn -> Seq(ClientFrame)]
    BY <1>3, <1>t, TakesTyped DEF LoginRefused
  <2>2. [type |-> "ERROR"] \in ServerFrame /\ fd[c] \in Fd
    BY <1>3, <1>o DEF LoginRefused, Takes, ServerFrame
  <2>3. out' \in [Conn -> SUBSET [fd : Fd, frame : ServerFrame]]
    BY <1>3, <1>t, <2>2, WillSendTyped DEF LoginRefused
  <2> QED BY <1>3, <1>t, <2>1, <2>3 DEF LoginRefused, Takes, TypeOK
<1>4. ASSUME NEW f, HandleWho(c, f) PROVE TypeOK'
  <2>1. up' \in [Conn -> Seq(ClientFrame)]
    BY <1>4, <1>t, TakesTyped DEF HandleWho
  <2>2. [type |-> "USERS", users |-> {u \in User : clients[u] # NoFd}] \in ServerFrame
        /\ fd[c] \in Fd
    BY <1>4, <1>o DEF HandleWho, Takes, ServerFrame
  <2>3. out' \in [Conn -> SUBSET [fd : Fd, frame : ServerFrame]]
    BY <1>4, <1>t, <2>2, WillSendTyped DEF HandleWho
  <2> QED BY <1>4, <1>t, <2>1, <2>3 DEF HandleWho, Takes, TypeOK
<1>5. ASSUME NEW f, HandleMsg(c, f) PROVE TypeOK'
  <2>1. up' \in [Conn -> Seq(ClientFrame)] /\ f.to \in User /\ f.n \in Nat
    BY <1>5, <1>t, TakesTyped DEF HandleMsg, ClientFrame
  <2>2. PICK u \in name[c] :
          IF clients[f.to] = NoFd
            THEN WillSend(c, fd[c], [type |-> "ERROR"])
            ELSE WillSend(c, clients[f.to], [type |-> "FROM",
                   chat |-> [by |-> c, from |-> u, to |-> f.to, n |-> f.n]])
    BY <1>5 DEF HandleMsg
  <2>3. /\ [type |-> "ERROR"] \in ServerFrame
        /\ [type |-> "FROM",
            chat |-> [by |-> c, from |-> u, to |-> f.to, n |-> f.n]] \in ServerFrame
    BY <2>1, <2>2, <1>t DEF ServerFrame, Chat, TypeOK
  <2>4. fd[c] \in Fd /\ (clients[f.to] # NoFd => clients[f.to] \in Fd)
    BY <1>5, <1>o, <1>t, <2>1 DEF HandleMsg, Takes, TypeOK
  <2>5. out' \in [Conn -> SUBSET [fd : Fd, frame : ServerFrame]]
    BY <2>2, <2>3, <2>4, <1>t, WillSendTyped
  <2> QED BY <1>5, <1>t, <2>1, <2>5 DEF HandleMsg, Takes, TypeOK
<1>6. ASSUME NEW f, HandleOther(c, f) \/ HandleQuit(c, f) PROVE TypeOK'
  <2>1. up' \in [Conn -> Seq(ClientFrame)]
    BY <1>6, <1>t, TakesTyped DEF HandleOther, HandleQuit
  <2> QED BY <1>6, <1>t, <2>1 DEF HandleOther, HandleQuit, Takes, TypeOK
<1>7. CASE ReceiveFails(c) \/ Leave(c) \/ Close(c) \/ LoginFails(c) \/ Die(c)
  BY <1>7, <1>t DEF ReceiveFails, Leave, Close, LoginFails, Die, TypeOK
<1>8. CASE Send(c)
  <2>1. PICK o \in out[c] :
          LET d == sock[o.fd] IN
          \/ d = NoConn /\ UNCHANGED <<alive, down>>
          \/ d # NoConn /\ d \notin Gone /\ UNCHANGED alive
             /\ down' = [down EXCEPT ![d] = Append(@, o.frame)]
          \/ d \in Gone /\ alive' \in BOOLEAN /\ UNCHANGED down
    BY <1>8 DEF Send
  <2>2. o.frame \in ServerFrame /\ down \in [Conn -> Seq(ServerFrame)]
    BY <1>t DEF TypeOK
  <2>3. sock[o.fd] \in Conn \cup {NoConn}
    BY <1>t DEF TypeOK
  <2>4. down' \in [Conn -> Seq(ServerFrame)]
    <3>1. CASE down' = down
      BY <3>1, <2>2
    <3>2. CASE sock[o.fd] # NoConn
               /\ down' = [down EXCEPT ![sock[o.fd]] = Append(@, o.frame)]
      <4>1. Append(down[sock[o.fd]], o.frame) \in Seq(ServerFrame)
        BY <3>2, <2>2, <2>3
      <4> QED BY <4>1, <3>2, <2>2
    <3> QED BY <3>1, <3>2, <2>1
  <2>5. alive' \in BOOLEAN
    BY <2>1, <1>t DEF TypeOK
  <2> QED BY <1>8, <1>t, <2>4, <2>5 DEF Send, TypeOK
<1>9. CASE LoginReply(c) \/ Display(c)
  <2>1. PICK g \in First(down[c]) : TRUE
    BY <1>9 DEF LoginReply, Display
  <2>2. Tail(down[c]) \in Seq(ServerFrame)
    BY <2>1, <1>t, FirstTyped DEF TypeOK
  <2>3. down' \in [Conn -> Seq(ServerFrame)]
    BY <1>9, <1>t, <2>2 DEF LoginReply, Display, TypeOK
  <2>4. cpc' \in [Conn -> {"none", "prompt", "waiting", "in", "closed"}]
    BY <1>9, <1>t DEF LoginReply, Display, TypeOK
  <2>5. got' \in [Conn -> Seq(Chat)]
    <3>1. CASE LoginReply(c)
      BY <3>1, <1>t DEF LoginReply, TypeOK
    <3>2. CASE Display(c)
      <4>1. PICK h \in First(down[c]) :
              got' = [got EXCEPT ![c] = IF h.type = "FROM" THEN Append(@, h.chat) ELSE @]
        BY <3>2 DEF Display
      <4>2. h \in ServerFrame
        BY <4>1, <1>t, FirstTyped DEF TypeOK
      <4>3. h.type = "FROM" => h.chat \in Chat
        BY <4>2 DEF ServerFrame
      <4> QED BY <4>1, <4>3, <1>t DEF TypeOK
    <3> QED BY <1>9, <3>1, <3>2
  <2> QED BY <1>9, <1>t, <2>3, <2>4, <2>5 DEF LoginReply, Display, TypeOK
<1>10. ASSUME NEW u \in User, TypeLogin(c, u) PROVE TypeOK'
  <2>1. [type |-> "LOGIN", user |-> u] \in ClientFrame
    BY DEF ClientFrame
  <2> QED BY <1>10, <1>t, <2>1, SaysTyped DEF TypeLogin, TypeOK
<1>11. ASSUME NEW u \in User, TypeMsg(c, u) PROVE TypeOK'
  <2>1. sent[c] + 1 \in Nat
    BY <1>t DEF TypeOK
  <2>2. [type |-> "MSG", to |-> u, n |-> sent[c] + 1] \in ClientFrame
    BY <2>1 DEF ClientFrame
  <2> QED BY <1>11, <1>t, <2>2, SaysTyped, CountTyped DEF TypeMsg, TypeOK
<1>12. CASE TypeWho(c) \/ TypeQuit(c)
  <2>1. [type |-> "WHO"] \in ClientFrame /\ [type |-> "QUIT"] \in ClientFrame
    BY DEF ClientFrame
  <2>2. up' \in [Conn -> Seq(ClientFrame)]
    BY <1>12, <1>t, <2>1, SaysTyped DEF TypeWho, TypeQuit
  <2>3. sent' \in [Conn -> Nat]
    BY <1>12, <1>t, CountTyped DEF TypeWho, TypeQuit, TypeOK
  <2> QED BY <1>12, <1>t, <2>2, <2>3 DEF TypeWho, TypeQuit, TypeOK
<1> QED BY <1>1, <1>2, <1>3, <1>4, <1>5, <1>6, <1>7, <1>8, <1>9, <1>10, <1>11, <1>12
        DEF Step

LEMMA InitIInv == Init => IInv
<1> SUFFICES ASSUME Init PROVE IInv
  OBVIOUS
<1>1. TypeOK
  BY DEF Init, TypeOK
<1>2. Owned /\ RegistryExact
  BY DEF Init, Owned, SocketsOwned, HandlersOpen, OneName, NotStarted, Open,
         RegistryExact
<1> QED BY <1>1, <1>2 DEF IInv

\* The steps that touch neither the descriptors nor the names.
LEMMA OwnedUntouched ==
  ASSUME Owned, RegistryExact, UNCHANGED <<sock, clients, pc, fd, name>>,
         \A c \in Conn : cpc'[c] = "none" => cpc[c] = "none"
  PROVE  Owned' /\ RegistryExact'
  BY DEF Owned, SocketsOwned, HandlersOpen, OneName, NotStarted, Open, RegistryExact

LEMMA StepOwned ==
  ASSUME IInv, NEW c \in Conn, Step(c)
  PROVE  Owned' /\ RegistryExact'
<1>t. TypeOK /\ TypeOK'
  BY StepTypeOK DEF IInv
<1>i. SocketsOwned /\ HandlersOpen /\ OneName /\ NotStarted /\ RegistryExact
  BY DEF IInv, Owned
<1>o. Owned /\ RegistryExact
  BY DEF IInv
<1>x. /\ sock \in [Fd -> Conn \cup {NoConn}] /\ clients \in [User -> Fd \cup {NoFd}]
      /\ fd \in [Conn -> Fd \cup {NoFd}] /\ name \in [Conn -> SUBSET User]
      /\ DOMAIN pc = Conn /\ DOMAIN cpc = Conn
  BY <1>t DEF TypeOK
<1>n. NoFd \notin Fd
  BY DEF NoFd, Fd
<1> USE DEF serverVars, clientVars
<1>1. CASE Accept(c)
  <2>1. PICK f \in Fd : /\ sock[f] = NoConn /\ sock' = [sock EXCEPT ![f] = c]
                        /\ fd' = [fd EXCEPT ![c] = f]
    BY <1>1 DEF Accept
  <2>2. /\ cpc[c] = "none" /\ pc[c] = "none"
        /\ pc' = [pc EXCEPT ![c] = "first"] /\ cpc' = [cpc EXCEPT ![c] = "prompt"]
        /\ UNCHANGED <<clients, name>>
    BY <1>1, <1>i DEF Accept, NotStarted
  <2>3. SocketsOwned' /\ HandlersOpen' /\ OneName' /\ NotStarted'
    BY <2>1, <2>2, <1>i, <1>x, NoConnAssumption
       DEF SocketsOwned, HandlersOpen, OneName, NotStarted, Open
  <2>4. RegistryExact'
    <3>1. ASSUME NEW u \in User, clients'[u] # NoFd
          PROVE  LET d == sock'[clients'[u]] IN
                 d # NoConn /\ name'[d] = {u} /\ pc'[d] \in {"loop", "leave"}
      <4>1. sock[clients[u]] # NoConn /\ pc[sock[clients[u]]] \in {"loop", "leave"}
            /\ clients[u] \in Fd /\ name[sock[clients[u]]] = {u}
        BY <3>1, <2>2, <1>i, <1>x DEF RegistryExact
      <4>2. clients[u] # f /\ sock[clients[u]] # c
        BY <4>1, <2>1, <2>2
      <4> QED BY <4>1, <4>2, <2>1, <2>2, <1>x
    <3>2. ASSUME NEW d \in Conn, pc'[d] \in {"loop", "leave"}, NEW u \in name'[d]
          PROVE  clients'[u] = fd'[d]
      BY <3>2, <2>1, <2>2, <1>i, <1>x DEF RegistryExact
    <3> QED BY <3>1, <3>2 DEF RegistryExact
  <2> QED BY <2>3, <2>4 DEF Owned
<1>2. ASSUME NEW f, LoginAccepted(c, f) PROVE Owned' /\ RegistryExact'
  <2>1. PICK u \in User : /\ u = f.user /\ clients[u] = NoFd
                          /\ clients' = [clients EXCEPT ![u] = fd[c]]
                          /\ name' = [name EXCEPT ![c] = {u}]
    <3>1. f \in ClientFrame /\ f.type = "LOGIN"
      BY <1>2, <1>t, TakesTyped DEF LoginAccepted
    <3>2. f.user \in User
      BY <3>1 DEF ClientFrame
    <3>3. /\ clients[f.user] = NoFd /\ clients' = [clients EXCEPT ![f.user] = fd[c]]
          /\ name' = [name EXCEPT ![c] = {f.user}]
      BY <1>2 DEF LoginAccepted
    <3> QED BY <3>2, <3>3
  <2>2. /\ pc[c] = "first" /\ pc' = [pc EXCEPT ![c] = "loop"]
        /\ UNCHANGED <<sock, fd, cpc>>
    BY <1>2 DEF LoginAccepted, Takes
  <2>3. fd[c] \in Fd /\ sock[fd[c]] = c
    BY <2>2, <1>i DEF HandlersOpen, Open
  <2>4. SocketsOwned' /\ HandlersOpen' /\ OneName' /\ NotStarted'
    BY <2>1, <2>2, <1>i, <1>x DEF SocketsOwned, HandlersOpen, OneName, NotStarted, Open
  <2>5. RegistryExact'
    <3>1. ASSUME NEW v \in User, clients'[v] # NoFd
          PROVE  LET d == sock'[clients'[v]] IN
                 d # NoConn /\ name'[d] = {v} /\ pc'[d] \in {"loop", "leave"}
      <4>1. CASE v = u
        BY <4>1, <2>1, <2>2, <2>3, <1>x, NoConnAssumption
      <4>2. CASE v # u
        <5>1. clients'[v] = clients[v]
          BY <4>2, <2>1, <1>x
        <5>2. /\ sock[clients[v]] # NoConn /\ name[sock[clients[v]]] = {v}
              /\ pc[sock[clients[v]]] \in {"loop", "leave"}
          BY <5>1, <3>1, <1>i DEF RegistryExact
        <5>3. sock[clients[v]] # c
          BY <5>2, <2>2
        <5> QED BY <5>1, <5>2, <5>3, <2>1, <2>2, <1>x
      <4> QED BY <4>1, <4>2
    <3>2. ASSUME NEW d \in Conn, pc'[d] \in {"loop", "leave"}, NEW v \in name'[d]
          PROVE  clients'[v] = fd'[d]
      <4>1. CASE d = c
        BY <4>1, <3>2, <2>1, <2>2, <1>x
      <4>2. CASE d # c
        <5>1. v \in name[d] /\ pc[d] \in {"loop", "leave"} /\ v \in User
          BY <4>2, <3>2, <2>1, <2>2, <1>x
        <5>2. clients[v] = fd[d] /\ fd[d] \in Fd
          BY <5>1, <1>i DEF RegistryExact, HandlersOpen, Open
        <5>3. v # u
          BY <5>2, <2>1, <1>n
        <5> QED BY <5>1, <5>2, <5>3, <2>1, <2>2, <1>x
      <4> QED BY <4>1, <4>2
    <3> QED BY <3>1, <3>2 DEF RegistryExact
  <2> QED BY <2>4, <2>5 DEF Owned
<1>3. ASSUME NEW f, LoginRefused(c, f) PROVE Owned' /\ RegistryExact'
  <2>1. /\ pc[c] = "first" /\ pc' = [pc EXCEPT ![c] = "close"]
        /\ UNCHANGED <<sock, fd, cpc, clients, name>>
    BY <1>3 DEF LoginRefused, Takes
  <2>2. SocketsOwned' /\ HandlersOpen' /\ OneName' /\ NotStarted'
    BY <2>1, <1>i, <1>x DEF SocketsOwned, HandlersOpen, OneName, NotStarted, Open
  <2>3. RegistryExact'
    BY <2>1, <1>i, <1>x DEF RegistryExact
  <2> QED BY <2>2, <2>3 DEF Owned
<1>4. ASSUME NEW f, HandleWho(c, f) \/ HandleMsg(c, f) \/ HandleOther(c, f)
      PROVE  Owned' /\ RegistryExact'
  BY <1>4, <1>o, OwnedUntouched DEF HandleWho, HandleMsg, HandleOther, Takes
<1>5. ASSUME NEW f, HandleQuit(c, f) \/ ReceiveFails(c) PROVE Owned' /\ RegistryExact'
  <2>1. /\ \/ pc[c] = "loop" /\ pc' = [pc EXCEPT ![c] = "leave"]
           \/ pc[c] = "first" /\ pc' = [pc EXCEPT ![c] = "close"]
        /\ UNCHANGED <<sock, fd, cpc, clients, name>>
    BY <1>5 DEF HandleQuit, ReceiveFails, Takes
  <2>2. SocketsOwned' /\ HandlersOpen' /\ OneName' /\ NotStarted'
    BY <2>1, <1>i, <1>x DEF SocketsOwned, HandlersOpen, OneName, NotStarted, Open
  <2>3. RegistryExact'
    BY <2>1, <1>i, <1>x DEF RegistryExact
  <2> QED BY <2>2, <2>3 DEF Owned
<1>6. CASE Send(c)
  BY <1>6, <1>o, OwnedUntouched DEF Send
<1>7. CASE Leave(c)
  <2>1. /\ pc[c] = "leave" /\ pc' = [pc EXCEPT ![c] = "close"]
        /\ clients' = [u \in User |-> IF u \in name[c] THEN NoFd ELSE clients[u]]
        /\ UNCHANGED <<sock, fd, cpc, name>>
    BY <1>7 DEF Leave
  <2>2. SocketsOwned' /\ HandlersOpen' /\ OneName' /\ NotStarted'
    BY <2>1, <1>i, <1>x DEF SocketsOwned, HandlersOpen, OneName, NotStarted, Open
  <2>3. RegistryExact'
    <3>1. ASSUME NEW v \in User, clients'[v] # NoFd
          PROVE  LET d == sock'[clients'[v]] IN
                 d # NoConn /\ name'[d] = {v} /\ pc'[d] \in {"loop", "leave"}
      <4>1. v \notin name[c] /\ clients'[v] = clients[v]
        BY <3>1, <2>1
      <4>2. /\ sock[clients[v]] # NoConn /\ name[sock[clients[v]]] = {v}
            /\ pc[sock[clients[v]]] \in {"loop", "leave"}
        BY <4>1, <3>1, <1>i DEF RegistryExact
      <4>3. sock[clients[v]] # c
        BY <4>1, <4>2
      <4> QED BY <4>1, <4>2, <4>3, <2>1, <1>x
    <3>2. ASSUME NEW d \in Conn, pc'[d] \in {"loop", "leave"}, NEW v \in name'[d]
          PROVE  clients'[v] = fd'[d]
      <4>1. d # c /\ pc[d] \in {"loop", "leave"} /\ v \in name[d] /\ v \in User
        BY <3>2, <2>1, <1>x
      <4>2. clients[v] = fd[d]
        BY <4>1, <1>i DEF RegistryExact
      <4>3. v \notin name[c]
        <5> SUFFICES ASSUME v \in name[c] PROVE FALSE
          OBVIOUS
        <5>1. clients[v] = fd[c]
          BY <2>1, <1>i DEF RegistryExact
        <5>2. sock[fd[d]] = d /\ sock[fd[c]] = c
          BY <4>1, <2>1, <1>i DEF HandlersOpen, Open
        <5> QED BY <4>1, <4>2, <5>1, <5>2
      <4> QED BY <4>1, <4>2, <4>3, <2>1
    <3> QED BY <3>1, <3>2 DEF RegistryExact
  <2> QED BY <2>2, <2>3 DEF Owned
<1>8. CASE Close(c)
  <2>1. /\ pc[c] = "close" /\ pc' = [pc EXCEPT ![c] = "done"]
        /\ sock' = [sock EXCEPT ![fd[c]] = NoConn]
        /\ UNCHANGED <<clients, fd, cpc, name>>
    BY <1>8 DEF Close
  <2>2. fd[c] \in Fd /\ sock[fd[c]] = c
    BY <2>1, <1>i DEF HandlersOpen, Open
  <2>3. SocketsOwned' /\ HandlersOpen' /\ OneName' /\ NotStarted'
    BY <2>1, <2>2, <1>i, <1>x DEF SocketsOwned, HandlersOpen, OneName, NotStarted, Open
  <2>4. RegistryExact'
    <3>1. ASSUME NEW v \in User, clients'[v] # NoFd
          PROVE  LET d == sock'[clients'[v]] IN
                 d # NoConn /\ name'[d] = {v} /\ pc'[d] \in {"loop", "leave"}
      <4>1. /\ sock[clients[v]] # NoConn /\ name[sock[clients[v]]] = {v}
            /\ pc[sock[clients[v]]] \in {"loop", "leave"} /\ clients[v] \in Fd
        BY <3>1, <2>1, <1>i, <1>x DEF RegistryExact
      <4>2. sock[clients[v]] # c /\ clients[v] # fd[c]
        BY <4>1, <2>1, <2>2
      <4> QED BY <4>1, <4>2, <2>1, <1>x
    <3>2. ASSUME NEW d \in Conn, pc'[d] \in {"loop", "leave"}, NEW v \in name'[d]
          PROVE  clients'[v] = fd'[d]
      BY <3>2, <2>1, <1>i, <1>x DEF RegistryExact
    <3> QED BY <3>1, <3>2 DEF RegistryExact
  <2> QED BY <2>3, <2>4 DEF Owned
<1>9. CASE LoginReply(c) \/ LoginFails(c) \/ Display(c) \/ TypeWho(c) \/ TypeQuit(c) \/ Die(c)
           \/ \E u \in User : TypeLogin(c, u) \/ TypeMsg(c, u)
  <2>1. UNCHANGED <<sock, clients, pc, fd, name>>
    BY <1>9 DEF LoginReply, LoginFails, Display, TypeWho, TypeQuit, Die, TypeLogin, TypeMsg
  <2>2. cpc' = cpc \/ \E x \in {"in", "prompt", "waiting", "closed"} :
                        cpc' = [cpc EXCEPT ![c] = x]
    BY <1>9 DEF LoginReply, LoginFails, Display, TypeWho, TypeQuit, Die, TypeLogin, TypeMsg
  <2>3. \A d \in Conn : cpc'[d] = "none" => cpc[d] = "none"
    BY <2>2, <1>x
  <2> QED BY <2>1, <2>3, <1>o, OwnedUntouched
<1> QED BY <1>1, <1>2, <1>3, <1>4, <1>5, <1>6, <1>7, <1>8, <1>9 DEF Step

LEMMA NextIInv == IInv /\ [Next]_vars => IInv'
<1> SUFFICES ASSUME IInv, [Next]_vars PROVE IInv'
  OBVIOUS
<1>1. CASE Next
  <2>1. PICK c \in Conn : Step(c)
    BY <1>1, NextSteps
  <2> QED BY <2>1, StepTypeOK, StepOwned DEF IInv
<1>2. CASE UNCHANGED vars
  BY <1>2 DEF vars, IInv, TypeOK, Owned, SocketsOwned, HandlersOpen, OneName,
              NotStarted, Open, RegistryExact, Gone
<1> QED BY <1>1, <1>2

LEMMA Invariance == Spec => []IInv
  BY InitIInv, NextIInv, PTL DEF Spec

\* Every variable keeps its type: above all, a frame is only ever composed for
\* a descriptor, never for the NoFd that get_socket answers for no entry.
THEOREM TypeCorrect == Spec => []TypeOK
  BY Invariance, PTL DEF IInv

\* The registry never holds a descriptor that was closed or reused, and never
\* lacks a user that is logged in.
THEOREM RegistryIsExact == Spec => []RegistryExact
  BY Invariance, PTL DEF IInv

\* No two running handlers have the same descriptor.
THEOREM DescriptorsStayDistinct == Spec => []DescriptorsDistinct
<1>1. IInv => DescriptorsDistinct
  BY DEF IInv, Owned, HandlersOpen, Open, DescriptorsDistinct
<1> QED BY <1>1, Invariance, PTL

(***************************************************************************)
(* A list of users on its way.  The asker's handler makes it from the      *)
(* registry and sends it on its own descriptor, which is open for the      *)
(* asker as long as the handler is in its loop.                            *)
(***************************************************************************)
Listed(c, f) ==
  f.type = "USERS" => pc[c] \notin {"none", "first"} /\ name[c] \subseteq f.users
DownListed == \A c \in Conn : \A i \in 1..Len(down[c]) : Listed(c, down[c][i])
OutListed ==
  \A c \in Conn : \A o \in out[c] :
    o.frame.type = "USERS" =>
      pc[c] = "loop" /\ o.fd = fd[c] /\ name[c] \subseteq o.frame.users
WhoInv == DownListed /\ OutListed

LEMMA StepWho ==
  ASSUME IInv, WhoInv, NEW c \in Conn, Step(c)
  PROVE  WhoInv'
<1>t. TypeOK /\ HandlersOpen /\ OneName /\ NotStarted /\ RegistryExact
  BY DEF IInv, Owned
<1>x. /\ DOMAIN pc = Conn /\ DOMAIN name = Conn /\ DOMAIN out = Conn /\ DOMAIN fd = Conn
      /\ down \in [Conn -> Seq(ServerFrame)] /\ DownListed /\ OutListed
  BY <1>t DEF TypeOK, WhoInv
<1> USE DEF serverVars, clientVars
\* A handler past its login does not go back, and keeps its name.
<1>a. ASSUME \A d \in Conn :
               /\ pc[d] \notin {"none", "first"} => pc'[d] \notin {"none", "first"}
               /\ pc[d] \notin {"none", "first"} => name'[d] = name[d]
      PROVE  \A d \in Conn : \A f : Listed(d, f) => Listed(d, f)'
  BY <1>a DEF Listed
<1>b. ASSUME \A d \in Conn : \A f : Listed(d, f) => Listed(d, f)', down' = down
      PROVE  DownListed'
  BY <1>b, <1>x DEF DownListed
\* A thread that has not composed a frame has none that is a list.
<1>c. ASSUME \A d \in Conn : d # c => /\ out'[d] = out[d] /\ pc'[d] = pc[d]
                                      /\ name'[d] = name[d] /\ fd'[d] = fd[d],
             \A o \in out'[c] : o.frame.type # "USERS"
      PROVE  OutListed'
  BY <1>c, <1>x DEF OutListed
<1>1. CASE Accept(c)
  <2>1. /\ pc[c] = "none" /\ out' = out /\ name' = name /\ down' = down
        /\ pc' = [pc EXCEPT ![c] = "first"]
        /\ \E f \in Fd : fd' = [fd EXCEPT ![c] = f]
    BY <1>1, <1>t DEF Accept, NotStarted
  <2>2. \A d \in Conn : d # c => pc'[d] = pc[d] /\ fd'[d] = fd[d]
    BY <2>1, <1>x
  <2>3. \A o \in out[c] : o.frame.type # "USERS"
    BY <2>1, <1>x DEF OutListed
  <2>4. OutListed'
    BY <2>1, <2>2, <2>3, <1>c
  <2>5. DownListed'
    BY <2>1, <2>2, <1>a, <1>b
  <2> QED BY <2>4, <2>5 DEF WhoInv
<1>2. ASSUME NEW f, LoginAccepted(c, f) \/ LoginRefused(c, f) PROVE WhoInv'
  <2>1. pc[c] = "first" /\ down' = down /\ fd' = fd
    BY <1>2 DEF LoginAccepted, LoginRefused, Takes
  <2>2. \A o \in out'[c] : o.frame.type # "USERS"
    BY <1>2, <1>x DEF LoginAccepted, LoginRefused, WillSend
  <2>3. /\ \A d \in Conn : d # c => out'[d] = out[d] /\ pc'[d] = pc[d] /\ name'[d] = name[d]
        /\ pc'[c] \in {"loop", "close"}
    BY <1>2, <1>x DEF LoginAccepted, LoginRefused, WillSend
  <2>4. OutListed'
    BY <2>1, <2>2, <2>3, <1>c
  <2>5. DownListed'
    BY <2>1, <2>3, <1>a, <1>b
  <2> QED BY <2>4, <2>5 DEF WhoInv
<1>3. ASSUME NEW f, HandleWho(c, f) PROVE WhoInv'
  <2> DEFINE users == {u \in User : clients[u] # NoFd}
             g == [type |-> "USERS", users |-> users]
  <2>1. /\ pc[c] = "loop" /\ UNCHANGED <<down, fd, pc, name>>
        /\ out' = [out EXCEPT ![c] = {[fd |-> fd[c], frame |-> g]}]
    BY <1>3 DEF HandleWho, Takes, WillSend
  <2>2. name[c] \subseteq users
    <3>1. PICK u \in User : name[c] = {u}
      BY <2>1, <1>t DEF OneName
    <3>2. clients[u] = fd[c] /\ fd[c] \in Fd
      BY <2>1, <3>1, <1>t DEF RegistryExact, HandlersOpen, Open
    <3> QED BY <3>1, <3>2 DEF Fd, NoFd
  <2> HIDE DEF users
  <2>3. OutListed'
    BY <2>1, <2>2, <1>x DEF OutListed
  <2>4. DownListed'
    BY <2>1, <1>a, <1>b
  <2> QED BY <2>3, <2>4 DEF WhoInv
<1>4. ASSUME NEW f, HandleMsg(c, f) \/ HandleOther(c, f) \/ HandleQuit(c, f) PROVE WhoInv'
  <2>1. /\ pc[c] = "loop" /\ out[c] = {} /\ UNCHANGED <<down, fd, name>>
        /\ pc'[c] \in {"loop", "leave"} /\ \A d \in Conn : d # c => pc'[d] = pc[d]
    BY <1>4, <1>x DEF HandleMsg, HandleOther, HandleQuit, Takes
  <2>2. /\ \A o \in out'[c] : o.frame.type # "USERS"
        /\ \A d \in Conn : d # c => out'[d] = out[d]
    BY <1>4, <2>1, <1>x DEF HandleMsg, HandleOther, HandleQuit, WillSend
  <2>3. OutListed'
    BY <2>1, <2>2, <1>c
  <2>4. DownListed'
    BY <2>1, <1>a, <1>b
  <2> QED BY <2>3, <2>4 DEF WhoInv
<1>5. CASE ReceiveFails(c) \/ Leave(c) \/ Close(c)
  <2>1. /\ out[c] = {} /\ UNCHANGED <<down, fd, name, out>>
        /\ pc'[c] \in {"leave", "close", "done"} /\ \A d \in Conn : d # c => pc'[d] = pc[d]
    BY <1>5, <1>x DEF ReceiveFails, Leave, Close
  <2>2. OutListed'
    BY <2>1, <1>c
  <2>3. DownListed'
    BY <2>1, <1>a, <1>b
  <2> QED BY <2>2, <2>3 DEF WhoInv
\* A list goes on the asker's own descriptor, and so to the asker.
<1>6. CASE Send(c)
  <2>1. UNCHANGED <<fd, pc, name>> /\ out' = [out EXCEPT ![c] = {}]
    BY <1>6 DEF Send
  <2>2. \A d \in Conn : \A f : Listed(d, f) => Listed(d, f)'
    BY <2>1, <1>a
  <2>3. OutListed'
    BY <2>1, <1>x, <1>c
  <2>4. CASE down' = down
    BY <2>2, <2>3, <2>4, <1>b DEF WhoInv
  <2>5. CASE down' # down
    <3>1. PICK o \in out[c] :
            /\ sock[o.fd] # NoConn
            /\ down' = [down EXCEPT ![sock[o.fd]] = Append(@, o.frame)]
      BY <1>6, <2>5 DEF Send
    <3> DEFINE d == sock[o.fd]
    <3>2. o.fd \in Fd /\ o.frame \in ServerFrame /\ d \in Conn
      BY <3>1, <1>t DEF TypeOK
    <3>3. Listed(d, o.frame)
      <4>1. CASE o.frame.type = "USERS"
        <5>1. pc[c] = "loop" /\ o.fd = fd[c] /\ name[c] \subseteq o.frame.users
          BY <4>1, <1>x DEF OutListed
        <5>2. d = c
          BY <5>1, <1>t DEF HandlersOpen, Open
        <5> QED BY <5>1, <5>2 DEF Listed
      <4>2. CASE o.frame.type # "USERS"
        BY <4>2 DEF Listed
      <4> QED BY <4>1, <4>2
    <3> HIDE DEF d
    <3>4. ASSUME NEW e \in Conn, NEW i \in 1..Len(down'[e]), NEW g, g = down'[e][i]
          PROVE  Listed(e, g)'
      <4>1. CASE e # d
        <5>1. down'[e] = down[e]
          BY <4>1, <3>1, <1>x DEF d
        <5>2. Listed(e, g)
          BY <5>1, <3>4, <1>x DEF DownListed
        <5> QED BY <5>2, <2>2
      <4>2. CASE e = d
        <5>1. down'[d] = Append(down[d], o.frame) /\ down[d] \in Seq(ServerFrame)
          BY <3>1, <3>2, <1>x DEF d
        <5>2. \/ i \in 1..Len(down[d]) /\ down'[d][i] = down[d][i]
              \/ down'[d][i] = o.frame
          BY <5>1, <4>2, <3>2
        <5>3. Listed(d, g)
          BY <5>2, <4>2, <3>2, <3>3, <3>4, <1>x DEF DownListed
        <5> QED BY <5>3, <4>2, <2>2, <3>2
      <4> QED BY <4>1, <4>2
    <3> QED BY <3>4, <2>3 DEF WhoInv, DownListed, Listed
  <2> QED BY <2>4, <2>5
<1>7. CASE LoginReply(c) \/ Display(c)
  <2>1. /\ UNCHANGED <<fd, pc, name, out>> /\ down' = [down EXCEPT ![c] = Tail(@)]
        /\ down[c] # <<>>
    BY <1>7 DEF LoginReply, Display, First
  <2>2. \A d \in Conn : \A f : Listed(d, f) => Listed(d, f)'
    BY <2>1, <1>a
  <2>3. ASSUME NEW e \in Conn, NEW i \in 1..Len(down'[e]), NEW g, g = down'[e][i]
        PROVE  Listed(e, g)'
    <3>1. \E j \in 1..Len(down[e]) : g = down[e][j]
      <4>1. CASE e # c
        <5>1. down'[e] = down[e]
          BY <4>1, <2>1, <1>x
        <5> QED BY <5>1, <2>3
      <4>2. CASE e = c
        <5>1. down'[c] = Tail(down[c]) /\ down[c] \in Seq(ServerFrame) /\ down[c] # <<>>
          BY <2>1, <1>x
        <5>2. /\ Len(down[c]) \in Nat /\ Len(Tail(down[c])) = Len(down[c]) - 1
              /\ \A j \in 1..Len(Tail(down[c])) : Tail(down[c])[j] = down[c][j + 1]
          BY <5>1
        <5>3. i + 1 \in 1..Len(down[c]) /\ g = down[c][i + 1]
          <6>1. i \in 1..Len(Tail(down[c])) /\ g = Tail(down[c])[i]
            BY <5>1, <4>2, <2>3
          <6> QED BY <5>2, <6>1
        <5> QED BY <5>3, <4>2
      <4> QED BY <4>1, <4>2
    <3>2. Listed(e, g)
      BY <3>1, <1>x DEF DownListed
    <3> QED BY <3>2, <2>2
  <2>4. OutListed'
    BY <2>1, <1>x DEF OutListed
  <2> QED BY <2>3, <2>4 DEF WhoInv, DownListed, Listed
<1>8. CASE \/ LoginFails(c) \/ TypeWho(c) \/ TypeQuit(c) \/ Die(c)
           \/ \E u \in User : TypeLogin(c, u) \/ TypeMsg(c, u)
  <2>1. UNCHANGED <<fd, pc, name, out, down>>
    BY <1>8 DEF LoginFails, TypeWho, TypeQuit, Die, TypeLogin, TypeMsg
  <2> QED BY <2>1, <1>x DEF WhoInv, DownListed, OutListed, Listed
<1> QED BY <1>1, <1>2, <1>3, <1>4, <1>5, <1>6, <1>7, <1>8 DEF Step

\* A list of users that is on its way to the one who asked for it, or that its
\* handler is about to send, has the asker in it, whoever leaves meanwhile and
\* whatever becomes of the other descriptors.
THEOREM WhoShowsAsker == Spec => []WhoListsAsker
<1>1. Init => WhoInv
  BY DEF Init, WhoInv, DownListed, OutListed
<1>2. IInv /\ WhoInv /\ [Next]_vars => WhoInv'
  <2> SUFFICES ASSUME IInv, WhoInv, [Next]_vars PROVE WhoInv'
    OBVIOUS
  <2>1. CASE Next
    BY <2>1, NextSteps, StepWho
  <2>2. CASE UNCHANGED vars
    BY <2>2 DEF vars, WhoInv, DownListed, OutListed, Listed
  <2> QED BY <2>1, <2>2
<1>3. WhoInv => WhoListsAsker
  BY DEF WhoInv, DownListed, Listed, WhoListsAsker
<1> QED BY <1>1, <1>2, <1>3, Invariance, PTL DEF Spec

(***************************************************************************)
(* The server implements Directory.  A name is freed only for a client     *)
(* that is gone, because a handler leaves its loop only on a QUIT, which   *)
(* the client sends as it closes, or on a closed connection.               *)
(***************************************************************************)
Quitting(c) == \E i \in 1..Len(up[c]) : up[c][i].type = "QUIT"
LeaversGone == \A c \in Conn : pc[c] = "leave" \/ Quitting(c) => c \in Gone

LEMMA StepLeaversGone ==
  ASSUME IInv, LeaversGone, NEW c \in Conn, Step(c)
  PROVE  LeaversGone'
<1>t. TypeOK /\ TypeOK'
  BY StepTypeOK DEF IInv
<1>x. /\ up \in [Conn -> Seq(ClientFrame)] /\ DOMAIN pc = Conn /\ DOMAIN cpc = Conn
  BY <1>t DEF TypeOK
<1> USE DEF serverVars, clientVars
\* Nothing but what follows is needed of a step.
<1>a. ASSUME \A d \in Conn : d \in Gone => d \in Gone',
             \A d \in Conn : (pc'[d] = "leave" => pc[d] = "leave" \/ d \in Gone' \/ Quitting(d)),
             \A d \in Conn : Quitting(d)' => Quitting(d) \/ d \in Gone'
      PROVE  LeaversGone'
  BY <1>a DEF LeaversGone
<1>b. ASSUME NEW at, NEW f, Takes(c, at, f)
      PROVE  /\ \A d \in Conn : Quitting(d)' => Quitting(d)
             /\ f.type = "QUIT" => Quitting(c)
             /\ Gone' = Gone
  <2>1. up[c] # <<>> /\ f = Head(up[c]) /\ up' = [up EXCEPT ![c] = Tail(@)] /\ cpc' = cpc
    BY <1>b DEF Takes, First
  <2>2. /\ Len(up[c]) \in Nat \ {0} /\ f = up[c][1]
        /\ Len(Tail(up[c])) = Len(up[c]) - 1
        /\ \A i \in 1..Len(Tail(up[c])) : Tail(up[c])[i] = up[c][i + 1]
    BY <2>1, <1>x
  <2>3. Quitting(c)' => Quitting(c)
    <3>1. up'[c] = Tail(up[c])
      BY <2>1, <1>x
    <3> SUFFICES ASSUME NEW i \in 1..Len(Tail(up[c])), Tail(up[c])[i].type = "QUIT"
                 PROVE  Quitting(c)
      BY <3>1 DEF Quitting
    <3>2. i + 1 \in 1..Len(up[c]) /\ up[c][i + 1].type = "QUIT"
      BY <2>2
    <3> QED BY <3>2 DEF Quitting
  <2>4. \A d \in Conn : d # c => Quitting(d)' = Quitting(d)
    BY <2>1, <1>x DEF Quitting
  <2>5. f.type = "QUIT" => Quitting(c)
    BY <2>2 DEF Quitting
  <2> QED BY <2>1, <2>3, <2>4, <2>5 DEF Gone
<1>c. ASSUME NEW f \in ClientFrame, f.type # "QUIT" \/ c \in Gone', Says(c, f)
      PROVE  \A d \in Conn : Quitting(d)' => Quitting(d) \/ d \in Gone'
  <2> SUFFICES ASSUME NEW d \in Conn, NEW i \in 1..Len(up'[d]), up'[d][i].type = "QUIT",
                      d \notin Gone'
               PROVE  Quitting(d)
    BY DEF Quitting
  <2>1. CASE d # c
    BY <2>1, <1>c, <1>x DEF Says, Quitting
  <2>2. CASE d = c
    <3>1. up'[c] = Append(up[c], f) /\ up[c] \in Seq(ClientFrame)
      BY <1>c, <1>x DEF Says
    <3>2. /\ Len(up'[c]) = Len(up[c]) + 1 /\ up'[c][Len(up[c]) + 1] = f
          /\ \A j \in 1..Len(up[c]) : up'[c][j] = up[c][j]
      BY <3>1
    <3>3. i \in 1..Len(up[c]) /\ up[c][i].type = "QUIT"
      BY <2>2, <3>1, <3>2, <1>c
    <3> QED BY <2>2, <3>3 DEF Quitting
  <2> QED BY <2>1, <2>2
<1>1. CASE Accept(c)
  BY <1>1, <1>x, <1>a DEF Accept, Gone, Quitting
<1>2. ASSUME NEW f, LoginAccepted(c, f) \/ LoginRefused(c, f)
      PROVE  LeaversGone'
  BY <1>2, <1>x, <1>a, <1>b DEF LoginAccepted, LoginRefused
<1>3. ASSUME NEW f, HandleWho(c, f) \/ HandleMsg(c, f) \/ HandleOther(c, f) \/ HandleQuit(c, f)
      PROVE  LeaversGone'
  BY <1>3, <1>x, <1>a, <1>b DEF HandleWho, HandleMsg, HandleOther, HandleQuit
<1>4. CASE ReceiveFails(c)
  BY <1>4, <1>x, <1>a DEF ReceiveFails, Gone, Quitting
<1>5. CASE Send(c) \/ Leave(c) \/ Close(c)
  BY <1>5, <1>x, <1>a DEF Send, Leave, Close, Gone, Quitting
<1>6. CASE LoginReply(c) \/ LoginFails(c) \/ Display(c) \/ Die(c)
  BY <1>6, <1>x, <1>a DEF LoginReply, LoginFails, Display, Die, Gone, Quitting
<1>7. CASE \/ TypeWho(c) \/ TypeQuit(c)
           \/ \E u \in User : TypeLogin(c, u) \/ TypeMsg(c, u)
  <2>1. /\ pc' = pc
        /\ \A d \in Conn : d \in Gone => d \in Gone'
    BY <1>7, <1>x DEF TypeWho, TypeQuit, TypeLogin, TypeMsg, Gone
  <2>2. \E f \in ClientFrame : (f.type # "QUIT" \/ c \in Gone') /\ Says(c, f)
    <3>1. CASE TypeQuit(c)
      BY <3>1, <1>x DEF TypeQuit, Gone, ClientFrame
    <3>2. CASE TypeWho(c)
      BY <3>2 DEF TypeWho, ClientFrame
    <3>3. ASSUME NEW u \in User, TypeLogin(c, u)
          PROVE  \E f \in ClientFrame : f.type # "QUIT" /\ Says(c, f)
      BY <3>3 DEF TypeLogin, ClientFrame
    <3>4. ASSUME NEW u \in User, TypeMsg(c, u)
          PROVE  \E f \in ClientFrame : f.type # "QUIT" /\ Says(c, f)
      <4>1. sent[c] + 1 \in Nat
        BY <1>t DEF TypeOK
      <4> QED BY <4>1, <3>4 DEF TypeMsg, ClientFrame
    <3> QED BY <1>7, <3>1, <3>2, <3>3, <3>4
  <2> QED BY <2>1, <2>2, <1>a, <1>c
<1> QED BY <1>1, <1>2, <1>3, <1>4, <1>5, <1>6, <1>7 DEF Step

NamesInv == IInv /\ LeaversGone

LEMMA NamesInvariance == Spec => []NamesInv
<1>1. Init => NamesInv
  <2>1. Init => LeaversGone
    BY DEF Init, LeaversGone, Quitting
  <2> QED BY <2>1, InitIInv DEF NamesInv
<1>2. NamesInv /\ [Next]_vars => NamesInv'
  <2> SUFFICES ASSUME NamesInv, [Next]_vars PROVE LeaversGone'
    BY NextIInv DEF NamesInv
  <2>1. CASE Next
    BY <2>1, NextSteps, StepLeaversGone DEF NamesInv
  <2>2. CASE UNCHANGED vars
    BY <2>2 DEF NamesInv, vars, LeaversGone, Quitting, Gone
  <2> QED BY <2>1, <2>2
<1> QED BY <1>1, <1>2, PTL DEF Spec

HolderMap == [u \in User |-> Holder(u)]

\* Where no descriptor, name entry or client comes or goes, Directory stutters.
LEMMA StutterNames ==
  ASSUME UNCHANGED <<sock, clients>>, Gone' = Gone
  PROVE  HolderMap' = HolderMap /\ Gone' = Gone
  BY DEF HolderMap, Holder

LEMMA StepNames ==
  ASSUME NamesInv, NamesInv', NEW c \in Conn, Step(c)
  PROVE  Names!Next \/ (HolderMap' = HolderMap /\ Gone' = Gone)
<1>t. TypeOK /\ SocketsOwned /\ HandlersOpen /\ OneName /\ NotStarted /\ RegistryExact
  BY DEF NamesInv, IInv, Owned
<1>x. /\ sock \in [Fd -> Conn \cup {NoConn}] /\ clients \in [User -> Fd \cup {NoFd}]
      /\ DOMAIN cpc = Conn
  BY <1>t DEF TypeOK
<1>n. NoFd \notin Fd
  BY DEF NoFd, Fd
<1> USE DEF serverVars, clientVars
<1>1. CASE Accept(c)
  <2>1. PICK f \in Fd : sock[f] = NoConn /\ sock' = [sock EXCEPT ![f] = c]
    BY <1>1 DEF Accept
  <2>2. clients' = clients /\ Gone' = Gone
    BY <1>1, <1>x DEF Accept, Gone
  <2>3. \A u \in User : Holder(u)' = Holder(u)
    BY <2>1, <2>2, <1>t, <1>x DEF Holder, RegistryExact
  <2> QED BY <2>2, <2>3 DEF HolderMap
<1>2. ASSUME NEW f, LoginAccepted(c, f) PROVE Names!Next
  <2>1. f \in ClientFrame /\ f.type = "LOGIN"
    BY <1>2, <1>t, TakesTyped DEF LoginAccepted
  <2>2. f.user \in User
    BY <2>1 DEF ClientFrame
  <2>3. /\ clients[f.user] = NoFd /\ clients' = [clients EXCEPT ![f.user] = fd[c]]
        /\ UNCHANGED <<sock, cpc>> /\ pc[c] = "first"
    BY <1>2 DEF LoginAccepted, Takes
  <2>4. fd[c] \in Fd /\ sock[fd[c]] = c
    BY <2>3, <1>t DEF HandlersOpen, Open
  <2>5. \A v \in User : Holder(v) # c
    BY <2>3, <1>t, NoConnAssumption DEF Holder, RegistryExact
  <2>6. HolderMap' = [HolderMap EXCEPT ![f.user] = c]
    BY <2>2, <2>3, <2>4, <1>x, <1>n DEF HolderMap, Holder
  <2>7. HolderMap[f.user] = NoConn /\ Gone' = Gone
    BY <2>2, <2>3 DEF HolderMap, Holder, Gone
  <2>8. Names!Take(f.user, c)
    BY <2>5, <2>6, <2>7 DEF Names!Take, HolderMap
  <2> QED BY <2>2, <2>8 DEF Names!Next
<1>3. CASE Leave(c)
  <2>1. /\ pc[c] = "leave" /\ UNCHANGED <<sock, cpc>>
        /\ clients' = [u \in User |-> IF u \in name[c] THEN NoFd ELSE clients[u]]
    BY <1>3 DEF Leave
  <2>2. PICK u \in User : name[c] = {u}
    BY <2>1, <1>t DEF OneName
  <2>3. clients[u] = fd[c] /\ fd[c] \in Fd /\ sock[fd[c]] = c
    BY <2>1, <2>2, <1>t DEF RegistryExact, HandlersOpen, Open
  <2>4. HolderMap[u] = c /\ c \in Gone
    BY <2>1, <2>3, <1>n DEF HolderMap, Holder, NamesInv, LeaversGone
  <2>5. HolderMap' = [HolderMap EXCEPT ![u] = NoConn] /\ Gone' = Gone
    BY <2>1, <2>2 DEF HolderMap, Holder, Gone
  <2>6. Names!Free(u)
    BY <2>4, <2>5 DEF Names!Free, HolderMap
  <2> QED BY <2>6 DEF Names!Next
<1>4. CASE Close(c)
  <2>1. /\ pc[c] = "close" /\ UNCHANGED <<clients, cpc>>
        /\ sock' = [sock EXCEPT ![fd[c]] = NoConn]
    BY <1>4 DEF Close
  <2>2. sock[fd[c]] = c
    BY <2>1, <1>t DEF HandlersOpen, Open
  <2>3. \A u \in User : Holder(u)' = Holder(u)
    BY <2>1, <2>2, <1>t, <1>x DEF Holder, RegistryExact
  <2> QED BY <2>1, <2>3 DEF HolderMap, Gone
<1>5. CASE TypeQuit(c) \/ Die(c) \/ LoginFails(c)
  <2>1. /\ cpc[c] # "closed" /\ cpc' = [cpc EXCEPT ![c] = "closed"]
        /\ UNCHANGED <<sock, clients>>
    BY <1>5 DEF TypeQuit, Die, LoginFails
  <2>2. c \notin Gone /\ Gone' = Gone \cup {c}
    BY <2>1, <1>x DEF Gone
  <2>3. HolderMap' = HolderMap
    BY <2>1 DEF HolderMap, Holder
  <2>4. Names!Go(c)
    BY <2>2, <2>3 DEF Names!Go, HolderMap
  <2> QED BY <2>4 DEF Names!Next
<1>6. CASE \/ \E f \in First(up[c]) : LoginRefused(c, f) \/ HandleWho(c, f)
                \/ HandleMsg(c, f) \/ HandleOther(c, f) \/ HandleQuit(c, f)
           \/ ReceiveFails(c) \/ Send(c) \/ Display(c) \/ TypeWho(c)
           \/ \E u \in User : TypeMsg(c, u)
  <2>1. UNCHANGED <<sock, clients, cpc>>
    BY <1>6 DEF LoginRefused, HandleWho, HandleMsg, HandleOther, HandleQuit, Takes,
                ReceiveFails, Send, Display, TypeWho, TypeMsg
  <2>2. Gone' = Gone
    BY <2>1 DEF Gone
  <2> QED BY <2>1, <2>2, StutterNames
<1>7. CASE LoginReply(c) \/ \E u \in User : TypeLogin(c, u)
  <2>1. UNCHANGED <<sock, clients>> /\ cpc[c] # "closed"
    BY <1>7 DEF LoginReply, TypeLogin
  <2>2. \E x \in {"in", "prompt", "waiting"} : cpc' = [cpc EXCEPT ![c] = x]
    BY <1>7 DEF LoginReply, TypeLogin
  <2>3. Gone' = Gone
    BY <2>1, <2>2, <1>x DEF Gone
  <2> QED BY <2>1, <2>3, StutterNames
<1> QED BY <1>1, <1>2, <1>3, <1>4, <1>5, <1>6, <1>7 DEF Step

\* The registry implements Directory: a name belongs to one connection, from
\* the login that took it until that connection's client is gone.
THEOREM ImplementsNames == Spec => NamesSpec
<1>1. Init => Names!Init
  BY DEF Init, Names!Init, Holder, Gone
<1>2. NamesInv /\ NamesInv' /\ [Next]_vars => [Names!Next]_(Names!vars)
  <2> SUFFICES ASSUME NamesInv, NamesInv', [Next]_vars
               PROVE  [Names!Next]_(Names!vars)
    OBVIOUS
  <2>1. CASE Next
    BY <2>1, NextSteps, StepNames DEF Names!vars, HolderMap
  <2>2. CASE UNCHANGED vars
    BY <2>2 DEF vars, Names!vars, Holder, Gone
  <2> QED BY <2>1, <2>2
<1> QED BY <1>1, <1>2, NamesInvariance, PTL DEF Spec, NamesSpec, Names!Spec
=============================================================================
