----------------------------- MODULE ChatServer -----------------------------
(***************************************************************************)
(* The phase 1 chat server (phase1/src/server.cpp, client_registry.cpp)    *)
(* with the clients it serves (phase1/src/client.cpp).                     *)
(*                                                                         *)
(* main accepts connections and starts a detached thread, handle_client,   *)
(* for each.  The threads share the registry, a map from usernames to      *)
(* socket descriptors under a mutex, and the descriptor table of the       *)
(* process: a descriptor is a number, and close makes it free for the next *)
(* accept while another thread may still hold it.  A registry call is one  *)
(* step and a send another; a thread that has composed a frame holds it,   *)
(* with the descriptor it will go to, in out[c].                           *)
(*                                                                         *)
(* A client process has one connection: it logs in, possibly after being   *)
(* refused, then sends WHO and MSG frames until it quits or dies.  The     *)
(* frames of the client always parse, so the server's "Invalid message"    *)
(* replies, and "Login required", do not occur here.                       *)
(***************************************************************************)
EXTENDS Naturals, Sequences, FiniteSets

CONSTANTS
  User,      \* usernames
  Conn,      \* connections, each of a client process of its own
  NoConn,    \* no connection
  MaxFd,     \* bound: descriptors the server process can have open
  MaxSends   \* bound: WHO and MSG frames a client sends

ASSUME NoConnAssumption == NoConn \notin Conn
ASSUME BoundAssumption == MaxFd \in Nat /\ MaxSends \in Nat

VARIABLES
  alive,    \* whether the server process runs
  sock,     \* sock[f]: the connection that descriptor f is open for
  clients,  \* the registry: clients[u] is a descriptor, NoFd for no entry
  pc,       \* pc[c]: where the handler of c is
  fd,       \* fd[c]: its client_fd
  name,     \* name[c]: its username, {} before the login
  out,      \* out[c]: the frame it is about to send, and on which descriptor
  cpc,      \* cpc[c]: where the client is
  up,       \* up[c]: frames from the client
  down,     \* down[c]: frames to the client
  got,      \* got[c]: messages the client displayed
  sent      \* sent[c]: how many WHOs and messages the client has sent

vars == <<alive, sock, clients, pc, fd, name, out, cpc, up, down, got, sent>>

NoFd == 0                       \* get_socket answers -1
Fd == 1..MaxFd

\* A message: the n-th of the client of connection by, for the user to.
Chat == [by : Conn, from : User, to : User, n : Nat]
ClientFrame == [type : {"LOGIN"}, user : User] \cup [type : {"WHO", "QUIT"}]
               \cup [type : {"MSG"}, to : User, n : Nat]
ServerFrame == [type : {"OK", "ERROR"}] \cup [type : {"USERS"}, users : SUBSET User]
               \cup [type : {"FROM"}, chat : Chat]

First(s) == IF s = <<>> THEN {} ELSE {Head(s)}
Gone == {c \in Conn : cpc[c] = "closed"}

-----------------------------------------------------------------------------
Init ==
  /\ alive = TRUE
  /\ sock = [f \in Fd |-> NoConn]
  /\ clients = [u \in User |-> NoFd]
  /\ pc = [c \in Conn |-> "none"]
  /\ fd = [c \in Conn |-> NoFd]
  /\ name = [c \in Conn |-> {}]
  /\ out = [c \in Conn |-> {}]
  /\ cpc = [c \in Conn |-> "none"]
  /\ up = [c \in Conn |-> <<>>]
  /\ down = [c \in Conn |-> <<>>]
  /\ got = [c \in Conn |-> <<>>]
  /\ sent = [c \in Conn |-> 0]

serverVars == <<alive, sock, clients, pc, fd, name, out>>
clientVars == <<cpc, up, got, sent>>

-----------------------------------------------------------------------------
(* The server: main.                                                       *)

\* accept returns the lowest free descriptor, and a handler starts.
Accept(c) ==
  /\ alive /\ cpc[c] = "none"
  /\ \E f \in Fd :
       /\ sock[f] = NoConn /\ \A g \in Fd : g < f => sock[g] # NoConn
       /\ sock' = [sock EXCEPT ![f] = c]
       /\ fd' = [fd EXCEPT ![c] = f]
  /\ pc' = [pc EXCEPT ![c] = "first"]
  /\ cpc' = [cpc EXCEPT ![c] = "prompt"]
  /\ UNCHANGED <<alive, clients, name, out, up, down, got, sent>>

-----------------------------------------------------------------------------
(* The server: handle_client of c.                                         *)

\* The handler, at a receive_frame, takes the frame f of its client.
Takes(c, at, f) ==
  /\ alive /\ pc[c] = at /\ out[c] = {} /\ f \in First(up[c])
  /\ up' = [up EXCEPT ![c] = Tail(@)]
  /\ UNCHANGED <<alive, sock, fd, cpc, down, got, sent>>

\* It will send the frame g on the descriptor d.
WillSend(c, d, g) == out' = [out EXCEPT ![c] = {[fd |-> d, frame |-> g]}]

\* Faulty variant: a name in use is overwritten.
LoginOverwrites(c, f) ==
  /\ Takes(c, "first", f) /\ f.type = "LOGIN"
  /\ clients' = [clients EXCEPT ![f.user] = fd[c]]
  /\ name' = [name EXCEPT ![c] = {f.user}]
  /\ WillSend(c, fd[c], [type |-> "OK"])
  /\ pc' = [pc EXCEPT ![c] = "loop"]

\* LOGIN with a free name: add_client, then OK.
LoginAccepted(c, f) ==
  /\ Takes(c, "first", f) /\ f.type = "LOGIN"
  /\ clients[f.user] = NoFd
  /\ clients' = [clients EXCEPT ![f.user] = fd[c]]
  /\ name' = [name EXCEPT ![c] = {f.user}]
  /\ WillSend(c, fd[c], [type |-> "OK"])
  /\ pc' = [pc EXCEPT ![c] = "loop"]

\* Faulty variant: the refused connection takes the path that removes the name.
LoginRefusedCleansUp(c, f) ==
  /\ Takes(c, "first", f) /\ f.type = "LOGIN"
  /\ clients[f.user] # NoFd
  /\ name' = [name EXCEPT ![c] = {f.user}]
  /\ WillSend(c, fd[c], [type |-> "ERROR"])
  /\ pc' = [pc EXCEPT ![c] = "leave"]
  /\ UNCHANGED clients

\* LOGIN with a name in use: ERROR, then close; the registry stays as it is.
LoginRefused(c, f) ==
  /\ Takes(c, "first", f) /\ f.type = "LOGIN"
  /\ clients[f.user] # NoFd
  /\ WillSend(c, fd[c], [type |-> "ERROR"])
  /\ pc' = [pc EXCEPT ![c] = "close"]
  /\ UNCHANGED <<clients, name>>

\* Faulty variant: the asker is left out of the list.
HandleWhoOthers(c, f) ==
  /\ Takes(c, "loop", f) /\ f.type = "WHO"
  /\ WillSend(c, fd[c],
       [type |-> "USERS", users |-> {u \in User \ name[c] : clients[u] # NoFd}])
  /\ UNCHANGED <<clients, name, pc>>

\* WHO: the names registered now.
HandleWho(c, f) ==
  /\ Takes(c, "loop", f) /\ f.type = "WHO"
  /\ WillSend(c, fd[c],
       [type |-> "USERS", users |-> {u \in User : clients[u] # NoFd}])
  /\ UNCHANGED <<clients, name, pc>>

\* Faulty variant: the answer of get_socket is not tested.
HandleMsgUntested(c, f) ==
  /\ Takes(c, "loop", f) /\ f.type = "MSG"
  /\ \E u \in name[c] : WillSend(c, clients[f.to], [type |-> "FROM",
                chat |-> [by |-> c, from |-> u, to |-> f.to, n |-> f.n]])
  /\ UNCHANGED <<clients, name, pc>>

\* MSG: get_socket, then FROM on that descriptor, or ERROR when there is none.
HandleMsg(c, f) ==
  /\ Takes(c, "loop", f) /\ f.type = "MSG"
  /\ \E u \in name[c] :
       IF clients[f.to] = NoFd
         THEN WillSend(c, fd[c], [type |-> "ERROR"])
         ELSE WillSend(c, clients[f.to], [type |-> "FROM",
                chat |-> [by |-> c, from |-> u, to |-> f.to, n |-> f.n]])
  /\ UNCHANGED <<clients, name, pc>>

\* A LOGIN inside the loop is ignored.
HandleOther(c, f) ==
  /\ Takes(c, "loop", f) /\ f.type = "LOGIN"
  /\ UNCHANGED <<clients, name, pc, out>>

HandleQuit(c, f) ==
  /\ Takes(c, "loop", f) /\ f.type = "QUIT"
  /\ pc' = [pc EXCEPT ![c] = "leave"]
  /\ UNCHANGED <<clients, name, out>>

\* receive_frame fails once the client's end is closed (a reset may discard
\* frames the handler has not read).
ReceiveFails(c) ==
  /\ alive /\ out[c] = {} /\ c \in Gone
  /\ \/ pc[c] = "first" /\ pc' = [pc EXCEPT ![c] = "close"]
     \/ pc[c] = "loop" /\ pc' = [pc EXCEPT ![c] = "leave"]
  /\ UNCHANGED <<alive, sock, clients, fd, name, out, clientVars, down>>

\* send_frame on a descriptor: to whatever connection it is open for at this
\* moment.  A closed descriptor makes it fail, and so does a peer that has
\* gone, unless SIGPIPE ends the whole server.
Send(c) ==
  /\ alive
  /\ \E o \in out[c] :
       LET d == sock[o.fd] IN
       \/ d = NoConn /\ UNCHANGED <<alive, down>>
       \/ d # NoConn /\ d \notin Gone /\ UNCHANGED alive
          /\ down' = [down EXCEPT ![d] = Append(@, o.frame)]
       \/ d \in Gone /\ alive' \in BOOLEAN /\ UNCHANGED down
  /\ out' = [out EXCEPT ![c] = {}]
  /\ UNCHANGED <<sock, clients, pc, fd, name, clientVars>>

\* Faulty variant: the socket is closed here too.
LeaveCloses(c) ==
  /\ alive /\ pc[c] = "leave" /\ out[c] = {}
  /\ clients' = [u \in User |-> IF u \in name[c] THEN NoFd ELSE clients[u]]
  /\ pc' = [pc EXCEPT ![c] = "close"]
  /\ sock' = [sock EXCEPT ![fd[c]] = NoConn]
  /\ UNCHANGED <<alive, fd, name, out, clientVars, down>>

\* remove_client, after the loop.
Leave(c) ==
  /\ alive /\ pc[c] = "leave" /\ out[c] = {}
  /\ clients' = [u \in User |-> IF u \in name[c] THEN NoFd ELSE clients[u]]
  /\ pc' = [pc EXCEPT ![c] = "close"]
  /\ UNCHANGED <<alive, sock, fd, name, out, clientVars, down>>

\* close: the descriptor is free for the next accept.
Close(c) ==
  /\ alive /\ pc[c] = "close" /\ out[c] = {}
  /\ sock' = [sock EXCEPT ![fd[c]] = NoConn]
  /\ pc' = [pc EXCEPT ![c] = "done"]
  /\ UNCHANGED <<alive, clients, fd, name, out, clientVars, down>>

Handler(c) ==
  \/ \E f \in First(up[c]) : LoginAccepted(c, f) \/ LoginRefused(c, f)
       \/ HandleWho(c, f) \/ HandleMsg(c, f) \/ HandleOther(c, f) \/ HandleQuit(c, f)
  \/ ReceiveFails(c) \/ Send(c) \/ Leave(c) \/ Close(c)

-----------------------------------------------------------------------------
(* The client of c.                                                        *)

Says(c, f) == up' = [up EXCEPT ![c] = Append(@, f)]
Count(c) == sent[c] < MaxSends /\ sent' = [sent EXCEPT ![c] = @ + 1]

\* The login loop: send LOGIN, then wait for one frame.
TypeLogin(c, u) ==
  /\ cpc[c] = "prompt"
  /\ Says(c, [type |-> "LOGIN", user |-> u])
  /\ cpc' = [cpc EXCEPT ![c] = "waiting"]
  /\ UNCHANGED <<serverVars, down, got, sent>>

\* OK ends the loop; after any other frame the user is prompted again.
LoginReply(c) ==
  /\ cpc[c] = "waiting"
  /\ \E g \in First(down[c]) :
       cpc' = [cpc EXCEPT ![c] = IF g.type = "OK" THEN "in" ELSE "prompt"]
  /\ down' = [down EXCEPT ![c] = Tail(@)]
  /\ UNCHANGED <<serverVars, up, got, sent>>

\* "Server disconnected": the handler has closed, or the server has ended.
LoginFails(c) ==
  /\ cpc[c] = "waiting" /\ down[c] = <<>> /\ (pc[c] = "done" \/ ~alive)
  /\ cpc' = [cpc EXCEPT ![c] = "closed"]
  /\ UNCHANGED <<serverVars, up, down, got, sent>>

TypeWho(c) ==
  /\ cpc[c] = "in"
  /\ Says(c, [type |-> "WHO"]) /\ Count(c)
  /\ UNCHANGED <<serverVars, cpc, down, got>>

TypeMsg(c, u) ==
  /\ cpc[c] = "in"
  /\ Says(c, [type |-> "MSG", to |-> u, n |-> sent[c] + 1]) /\ Count(c)
  /\ UNCHANGED <<serverVars, cpc, down, got>>

\* /quit sends QUIT and closes the socket.
TypeQuit(c) ==
  /\ cpc[c] = "in"
  /\ Says(c, [type |-> "QUIT"])
  /\ cpc' = [cpc EXCEPT ![c] = "closed"]
  /\ UNCHANGED <<serverVars, down, got, sent>>

Die(c) ==
  /\ cpc[c] \in {"prompt", "waiting", "in"}
  /\ cpc' = [cpc EXCEPT ![c] = "closed"]
  /\ UNCHANGED <<serverVars, up, down, got, sent>>

\* receive_messages displays what comes.
Display(c) ==
  /\ cpc[c] = "in"
  /\ \E g \in First(down[c]) :
       got' = [got EXCEPT ![c] = IF g.type = "FROM" THEN Append(@, g.chat) ELSE @]
  /\ down' = [down EXCEPT ![c] = Tail(@)]
  /\ UNCHANGED <<serverVars, cpc, up, sent>>

User_(c) ==
  \/ \E u \in User : TypeLogin(c, u) \/ TypeMsg(c, u)
  \/ TypeWho(c) \/ TypeQuit(c) \/ Die(c)

Next == \E c \in Conn :
  \/ Accept(c) \/ Handler(c)
  \/ LoginReply(c) \/ LoginFails(c) \/ Display(c)
  \/ User_(c)

Spec == Init /\ [][Next]_vars

-----------------------------------------------------------------------------
(* Properties.                                                             *)

TypeOK ==
  /\ alive \in BOOLEAN
  /\ sock \in [Fd -> Conn \cup {NoConn}]
  /\ clients \in [User -> Fd \cup {NoFd}]
  /\ pc \in [Conn -> {"none", "first", "loop", "leave", "close", "done"}]
  /\ fd \in [Conn -> Fd \cup {NoFd}]
  /\ name \in [Conn -> SUBSET User]
  /\ out \in [Conn -> SUBSET [fd : Fd, frame : ServerFrame]]
  /\ cpc \in [Conn -> {"none", "prompt", "waiting", "in", "closed"}]
  /\ up \in [Conn -> Seq(ClientFrame)]
  /\ down \in [Conn -> Seq(ServerFrame)]
  /\ got \in [Conn -> Seq(Chat)]
  /\ sent \in [Conn -> Nat]

\* The registry is exact: an entry leads to an open descriptor of the
\* connection that is logged in under that name, and a handler between
\* add_client and remove_client is registered under its name.
RegistryExact ==
  /\ \A u \in User : clients[u] # NoFd =>
       LET c == sock[clients[u]] IN
       c # NoConn /\ name[c] = {u} /\ pc[c] \in {"loop", "leave"}
  /\ \A c \in Conn : pc[c] \in {"loop", "leave"} =>
       \A u \in name[c] : clients[u] = fd[c]

\* Two handlers that have not closed their sockets have different ones.
DescriptorsDistinct ==
  \A c, d \in Conn :
    pc[c] \notin {"none", "done"} /\ pc[d] \notin {"none", "done"} /\ fd[c] = fd[d]
      => c = d

\* A list of users that answers WHO has the asker in it.
WhoListsAsker ==
  \A c \in Conn : \A i \in 1..Len(down[c]) :
    down[c][i].type = "USERS" => name[c] \subseteq down[c][i].users

\* The holder of a name, as the registry and the open descriptors give it.
Holder(u) == IF clients[u] = NoFd THEN NoConn ELSE sock[clients[u]]

\* The registry implements the directory of names: the holder of a name is
\* the connection its descriptor is open for.
Names == INSTANCE Directory WITH
  holder <- [u \in User |-> Holder(u)],
  gone <- Gone
NamesSpec == Names!Spec

\* "Server delivers message to the receiver" (phase1/include/protocol.hpp:92):
\* a client displays only what was sent to the name it logged in with.
ReachesReceiver ==
  \A c \in Conn : \A i \in 1..Len(got[c]) : got[c][i].to \in name[c]
=============================================================================
