---------------------------- MODULE SecureServer ----------------------------
(***************************************************************************)
(* The chat server of phases 2 to 5 with its clients, as of phase 3        *)
(* (phase3/src/server/server.cpp, client_registry.cpp, client/client.cpp). *)
(*                                                                         *)
(* Routing is that of phase 1 (ChatServer), except that every connection   *)
(* has a key of its own, agreed on in a handshake, under which each frame  *)
(* is encrypted: the key of connection c is c itself here, and NoConn is   *)
(* the empty key.  The registry stores the key beside the descriptor, and  *)
(* handle_message asks for them one after the other, each under the lock:  *)
(* the receiver may leave, and come back, in between.  A frame that does   *)
(* not decrypt ends the thread that received it.  A connection holds Room  *)
(* frames each way, and a send blocks while there is no room.              *)
(*                                                                         *)
(* The handshake is one step here: it ends with both sides holding the key *)
(* or with the connection closed.                                          *)
(***************************************************************************)
EXTENDS Naturals, Sequences, FiniteSets

CONSTANTS
  User,      \* usernames
  Conn,      \* connections, each of a client process of its own
  NoConn,    \* no connection
  Room,      \* frames a connection holds each way
  MaxFd,     \* bound: descriptors the server process can have open
  MaxSends   \* bound: MaxSends[c], WHO and MSG frames the client of c sends

ASSUME NoConnAssumption == NoConn \notin Conn
ASSUME RoomAssumption == Room \in Nat \ {0}
ASSUME BoundAssumption == MaxFd \in Nat /\ MaxSends \in [Conn -> Nat]

VARIABLES
  server,   \* "running", "killed" by SIGPIPE, or "aborted" by an exception
  sock,     \* sock[f]: the connection that descriptor f is open for
  clients,  \* the registry: clients[u].fd and clients[u].key
  pc,       \* pc[c]: where the handler of c is
  fd,       \* fd[c]: its client_fd
  name,     \* name[c]: its username, {} before the login
  asked,    \* asked[c]: what get_socket answered, before get_key is called
  out,      \* out[c]: the frame it is about to send, key and descriptor
  cpc,      \* cpc[c]: where the client is
  up,       \* up[c]: frames from the client
  down,     \* down[c]: frames to the client
  got,      \* got[c]: messages the client displayed
  sent      \* sent[c]: how many WHOs and messages the client has sent

serverVars == <<server, sock, clients, pc, fd, name, asked, out>>
clientVars == <<cpc, up, got, sent>>
vars == <<serverVars, clientVars, down>>

NoFd == 0
Fd == 1..MaxFd
Nobody == [fd |-> NoFd, key |-> NoConn]

Chat == [by : Conn, from : User, to : User, n : Nat]
ClientFrame == [type : {"LOGIN"}, user : User] \cup [type : {"WHO", "QUIT"}]
               \cup [type : {"MSG"}, to : User, n : Nat]
ServerFrame == [type : {"OK", "ERROR", "USERS"}] \cup [type : {"FROM"}, chat : Chat]

First(s) == IF s = <<>> THEN {} ELSE {Head(s)}
Running == server = "running"
Gone == {c \in Conn : cpc[c] = "closed"}

-----------------------------------------------------------------------------
Init ==
  /\ server = "running"
  /\ sock = [f \in Fd |-> NoConn]
  /\ clients = [u \in User |-> Nobody]
  /\ pc = [c \in Conn |-> "none"]
  /\ fd = [c \in Conn |-> NoFd]
  /\ name = [c \in Conn |-> {}]
  /\ asked = [c \in Conn |-> {}]
  /\ out = [c \in Conn |-> {}]
  /\ cpc = [c \in Conn |-> "none"]
  /\ up = [c \in Conn |-> <<>>]
  /\ down = [c \in Conn |-> <<>>]
  /\ got = [c \in Conn |-> <<>>]
  /\ sent = [c \in Conn |-> 0]

-----------------------------------------------------------------------------
(* The server.                                                             *)

\* accept returns the lowest free descriptor, and a handler starts.
Accept(c) ==
  /\ Running /\ cpc[c] = "none"
  /\ \E f \in Fd :
       /\ sock[f] = NoConn /\ \A g \in Fd : g < f => sock[g] # NoConn
       /\ sock' = [sock EXCEPT ![f] = c]
       /\ fd' = [fd EXCEPT ![c] = f]
  /\ pc' = [pc EXCEPT ![c] = "handshake"]
  /\ cpc' = [cpc EXCEPT ![c] = "handshake"]
  /\ UNCHANGED <<server, clients, name, asked, out, up, down, got, sent>>

\* The handshake of c, which Handshake.tla has step by step.  A frame that
\* reaches the client meanwhile is taken for one of the handshake's, does not
\* parse, and the client gives up.
Interrupted(c) == down[c] # <<>>
ClientHandshake(c) ==
  cpc' = [cpc EXCEPT ![c] = IF Interrupted(c) THEN "closed" ELSE "prompt"]
Handshake(c) ==
  /\ Running /\ pc[c] = "handshake" /\ cpc[c] = "handshake"
  /\ ClientHandshake(c)
  /\ pc' = [pc EXCEPT ![c] = IF Interrupted(c) THEN @ ELSE "first"]
  /\ UNCHANGED <<server, sock, clients, fd, name, asked, out, up, down, got, sent>>

\* The handler, at a receive_frame_enc, takes the frame f of its client.
Takes(c, at, f) ==
  /\ Running /\ pc[c] = at /\ asked[c] = {} /\ out[c] = {} /\ f \in First(up[c])
  /\ up' = [up EXCEPT ![c] = Tail(@)]
  /\ UNCHANGED <<server, sock, fd, cpc, down, got, sent>>

\* It will send the frame g under the key k on the descriptor d.
WillSend(c, d, k, g) ==
  out' = [out EXCEPT ![c] = {[fd |-> d, key |-> k, frame |-> g]}]
Reply(c, type) == WillSend(c, fd[c], c, [type |-> type])

\* Faulty variants: the key of an earlier login under the name is kept; a
\* name in use is overwritten; OK is not sent.
LoginKeepsKey(c, f) ==
  /\ Takes(c, "first", f) /\ f.type = "LOGIN"
  /\ clients[f.user].fd = NoFd
  /\ clients' = [clients EXCEPT ![f.user] =
       [fd |-> fd[c], key |-> IF \E d \in Conn : name[d] = {f.user}
                                THEN CHOOSE d \in Conn : name[d] = {f.user} ELSE c]]
  /\ name' = [name EXCEPT ![c] = {f.user}]
  /\ Reply(c, "OK")
  /\ pc' = [pc EXCEPT ![c] = "loop"]
  /\ UNCHANGED asked
LoginOverwrites(c, f) ==
  /\ Takes(c, "first", f) /\ f.type = "LOGIN"
  /\ clients' = [clients EXCEPT ![f.user] = [fd |-> fd[c], key |-> c]]
  /\ name' = [name EXCEPT ![c] = {f.user}]
  /\ Reply(c, "OK")
  /\ pc' = [pc EXCEPT ![c] = "loop"]
  /\ UNCHANGED asked

LoginAcceptedSilent(c, f) ==
  /\ Takes(c, "first", f) /\ f.type = "LOGIN"
  /\ clients[f.user].fd = NoFd
  /\ clients' = [clients EXCEPT ![f.user] = [fd |-> fd[c], key |-> c]]
  /\ name' = [name EXCEPT ![c] = {f.user}]
  /\ pc' = [pc EXCEPT ![c] = "loop"]
  /\ UNCHANGED <<asked, out>>

\* LOGIN with a free name: add_client with the key, then OK.
LoginAccepted(c, f) ==
  /\ Takes(c, "first", f) /\ f.type = "LOGIN"
  /\ clients[f.user].fd = NoFd
  /\ clients' = [clients EXCEPT ![f.user] = [fd |-> fd[c], key |-> c]]
  /\ name' = [name EXCEPT ![c] = {f.user}]
  /\ Reply(c, "OK")
  /\ pc' = [pc EXCEPT ![c] = "loop"]
  /\ UNCHANGED asked

\* LOGIN with a name in use: ERROR, then close.
LoginRefused(c, f) ==
  /\ Takes(c, "first", f) /\ f.type = "LOGIN"
  /\ clients[f.user].fd # NoFd
  /\ Reply(c, "ERROR")
  /\ pc' = [pc EXCEPT ![c] = "close"]
  /\ UNCHANGED <<clients, name, asked>>

HandleWho(c, f) ==
  /\ Takes(c, "loop", f) /\ f.type = "WHO"
  /\ Reply(c, "USERS")
  /\ UNCHANGED <<clients, name, pc, asked>>

\* MSG: first get_socket; with no answer an ERROR goes back.
GetSocket(c, f) ==
  /\ Takes(c, "loop", f) /\ f.type = "MSG"
  /\ IF clients[f.to].fd = NoFd
       THEN Reply(c, "ERROR") /\ UNCHANGED asked
       ELSE /\ \E u \in name[c] : asked' = [asked EXCEPT ![c] =
                 {[fd |-> clients[f.to].fd,
                   chat |-> [by |-> c, from |-> u, to |-> f.to, n |-> f.n]]}]
            /\ UNCHANGED out
  /\ UNCHANGED <<clients, name, pc>>

\* Faulty variant: the key is that of whoever has the descriptor now.
GetKeyOfDescriptor(c) ==
  /\ Running
  /\ \E a \in asked[c] :
       /\ sock[a.fd] # NoConn
       /\ WillSend(c, a.fd, sock[a.fd], [type |-> "FROM", chat |-> a.chat])
  /\ asked' = [asked EXCEPT ![c] = {}]
  /\ UNCHANGED <<server, sock, clients, pc, fd, name, clientVars, down>>

\* Then get_key.  If the user has left, the key is empty and encrypting with
\* it throws; nothing in the thread catches it, and the server ends.
GetKey(c) ==
  /\ Running
  /\ \E a \in asked[c] :
       LET k == clients[a.chat.to].key IN
       IF k = NoConn
         THEN server' = "aborted" /\ UNCHANGED out
         ELSE /\ WillSend(c, a.fd, k, [type |-> "FROM", chat |-> a.chat])
              /\ UNCHANGED server
  /\ asked' = [asked EXCEPT ![c] = {}]
  /\ UNCHANGED <<sock, clients, pc, fd, name, clientVars, down>>

\* A LOGIN inside the loop is ignored.
HandleOther(c, f) ==
  /\ Takes(c, "loop", f) /\ f.type = "LOGIN"
  /\ UNCHANGED <<clients, name, pc, asked, out>>

HandleQuit(c, f) ==
  /\ Takes(c, "loop", f) /\ f.type = "QUIT"
  /\ pc' = [pc EXCEPT ![c] = "leave"]
  /\ UNCHANGED <<clients, name, asked, out>>

\* Faulty variant: a connection that breaks is closed but not removed.
ReceiveFailsCloses(c) ==
  /\ Running /\ asked[c] = {} /\ out[c] = {} /\ c \in Gone
  /\ pc[c] \in {"handshake", "first", "loop"} /\ pc' = [pc EXCEPT ![c] = "close"]
  /\ UNCHANGED <<server, sock, clients, fd, name, asked, out, clientVars, down>>

\* A receive fails once the client's end is closed.
ReceiveFails(c) ==
  /\ Running /\ asked[c] = {} /\ out[c] = {} /\ c \in Gone
  /\ \/ pc[c] \in {"handshake", "first"} /\ pc' = [pc EXCEPT ![c] = "close"]
     \/ pc[c] = "loop" /\ pc' = [pc EXCEPT ![c] = "leave"]
  /\ UNCHANGED <<server, sock, clients, fd, name, asked, out, clientVars, down>>

\* Faulty variant: a frame for a client with frames waiting is dropped.
SendIfEmpty(c) ==
  /\ Running
  /\ \E o \in out[c] :
       LET d == sock[o.fd] IN
       \/ (d = NoConn \/ d \in Gone) /\ UNCHANGED down
       \/ d # NoConn /\ d \notin Gone
          /\ down' = [down EXCEPT ![d] =
               IF @ = <<>> THEN <<[key |-> o.key, frame |-> o.frame]>> ELSE @]
  /\ out' = [out EXCEPT ![c] = {}]
  /\ UNCHANGED <<server, sock, clients, pc, fd, name, asked, clientVars>>

\* send_frame_enc on a descriptor, to whatever connection it is open for now,
\* once there is room.
Send(c) ==
  /\ Running
  /\ \E o \in out[c] :
       LET d == sock[o.fd] IN
       \/ d = NoConn /\ UNCHANGED <<server, down>>
       \/ d # NoConn /\ d \notin Gone /\ Len(down[d]) < Room /\ UNCHANGED server
          /\ down' = [down EXCEPT ![d] = Append(@, [key |-> o.key, frame |-> o.frame])]
       \/ d \in Gone /\ server' \in {"running", "killed"} /\ UNCHANGED down
  /\ out' = [out EXCEPT ![c] = {}]
  /\ UNCHANGED <<sock, clients, pc, fd, name, asked, clientVars>>

\* Faulty variant: the entry's key stays behind.
LeaveKeepsKey(c) ==
  /\ Running /\ pc[c] = "leave"
  /\ clients' = [u \in User |-> IF u \in name[c]
                                  THEN [clients[u] EXCEPT !.key = NoConn] ELSE clients[u]]
  /\ pc' = [pc EXCEPT ![c] = "close"]
  /\ UNCHANGED <<server, sock, fd, name, asked, out, clientVars, down>>

\* remove_client, after the loop.
Leave(c) ==
  /\ Running /\ pc[c] = "leave"
  /\ clients' = [u \in User |-> IF u \in name[c] THEN Nobody ELSE clients[u]]
  /\ pc' = [pc EXCEPT ![c] = "close"]
  /\ UNCHANGED <<server, sock, fd, name, asked, out, clientVars, down>>

\* close: the descriptor is free for the next accept.
Close(c) ==
  /\ Running /\ pc[c] = "close" /\ out[c] = {}
  /\ sock' = [sock EXCEPT ![fd[c]] = NoConn]
  /\ pc' = [pc EXCEPT ![c] = "done"]
  /\ UNCHANGED <<server, clients, fd, name, asked, out, clientVars, down>>

Handler(c) ==
  \/ \E f \in First(up[c]) : LoginAccepted(c, f) \/ LoginRefused(c, f)
       \/ HandleWho(c, f) \/ GetSocket(c, f) \/ HandleOther(c, f) \/ HandleQuit(c, f)
  \/ GetKey(c) \/ ReceiveFails(c) \/ Send(c) \/ Leave(c) \/ Close(c)

-----------------------------------------------------------------------------
(* The client of c.                                                        *)

\* A send, once there is room or nobody who would read it any more.
HandlerGone(c) == pc[c] = "done" \/ ~Running
Says(c, f) ==
  /\ Len(up[c]) < Room \/ HandlerGone(c)
  /\ up' = [up EXCEPT ![c] = Append(@, f)]
Count(c) == sent[c] < MaxSends[c] /\ sent' = [sent EXCEPT ![c] = @ + 1]
\* Does the frame h decrypt at c?
Decrypts(c, h) == h.key = c

TypeLogin(c, u) ==
  /\ cpc[c] = "prompt"
  /\ Says(c, [type |-> "LOGIN", user |-> u])
  /\ cpc' = [cpc EXCEPT ![c] = "waiting"]
  /\ UNCHANGED <<serverVars, down, got, sent>>

\* Faulty variant: any frame that decrypts ends the login loop.
LoginReplyAny(c) ==
  /\ cpc[c] = "waiting"
  /\ \E h \in First(down[c]) : cpc' = [cpc EXCEPT ![c] =
       IF Decrypts(c, h) THEN "in" ELSE "closed"]
  /\ down' = [down EXCEPT ![c] = Tail(@)]
  /\ UNCHANGED <<serverVars, up, got, sent>>

\* The login loop takes one frame.  OK ends it; a frame that does not decrypt
\* is a lost connection ("Server disconnected"); after any other the user is
\* prompted again.
LoginReply(c) ==
  /\ cpc[c] = "waiting"
  /\ \E h \in First(down[c]) : cpc' = [cpc EXCEPT ![c] =
       CASE ~Decrypts(c, h) -> "closed"
         [] Decrypts(c, h) /\ h.frame.type = "OK" -> "in"
         [] OTHER -> "prompt"]
  /\ down' = [down EXCEPT ![c] = Tail(@)]
  /\ UNCHANGED <<serverVars, up, got, sent>>

Disconnected(c) == down[c] = <<>> /\ HandlerGone(c)

\* The server has closed: main gives up in the handshake and the login loop;
\* later only the receiver thread ends.
ConnectionLost(c) ==
  /\ Disconnected(c)
  /\ \/ cpc[c] \in {"handshake", "waiting"} /\ cpc' = [cpc EXCEPT ![c] = "closed"]
     \/ cpc[c] = "in" /\ cpc' = [cpc EXCEPT ![c] = "deaf"]
  /\ UNCHANGED <<serverVars, up, down, got, sent>>

TypeWho(c) ==
  /\ cpc[c] \in {"in", "deaf"}
  /\ Says(c, [type |-> "WHO"]) /\ Count(c)
  /\ UNCHANGED <<serverVars, cpc, down, got>>

TypeMsg(c, u) ==
  /\ cpc[c] \in {"in", "deaf"}
  /\ Says(c, [type |-> "MSG", to |-> u, n |-> sent[c] + 1]) /\ Count(c)
  /\ UNCHANGED <<serverVars, cpc, down, got>>

\* /quit sends QUIT and closes the socket.
TypeQuit(c) ==
  /\ cpc[c] \in {"in", "deaf"}
  /\ Says(c, [type |-> "QUIT"])
  /\ cpc' = [cpc EXCEPT ![c] = "closed"]
  /\ UNCHANGED <<serverVars, down, got, sent>>

Die(c) ==
  /\ cpc[c] \notin {"none", "closed"}
  /\ cpc' = [cpc EXCEPT ![c] = "closed"]
  /\ UNCHANGED <<serverVars, up, down, got, sent>>

\* receive_messages displays what decrypts, and ends at what does not.
Display(c) ==
  /\ cpc[c] = "in"
  /\ \E h \in First(down[c]) :
       /\ got' = [got EXCEPT ![c] = IF Decrypts(c, h) /\ h.frame.type = "FROM"
                                      THEN Append(@, h.frame.chat) ELSE @]
       /\ cpc' = [cpc EXCEPT ![c] = IF Decrypts(c, h) THEN @ ELSE "deaf"]
  /\ down' = [down EXCEPT ![c] = Tail(@)]
  /\ UNCHANGED <<serverVars, up, sent>>

Client(c) == LoginReply(c) \/ ConnectionLost(c) \/ Display(c)
Typing(c) ==
  \/ \E u \in User : TypeLogin(c, u) \/ TypeMsg(c, u)
  \/ TypeWho(c) \/ TypeQuit(c) \/ Die(c)

Next == \E c \in Conn :
  Accept(c) \/ Handshake(c) \/ Handler(c) \/ Client(c) \/ Typing(c)

\* The threads of the server and of the clients run; users need not act.
Fairness == \A c \in Conn :
  WF_vars(Handshake(c)) /\ WF_vars(Handler(c)) /\ WF_vars(Client(c))

Spec == Init /\ [][Next]_vars
FairSpec == Spec /\ Fairness

-----------------------------------------------------------------------------
(* Properties.                                                             *)

TypeOK ==
  /\ server \in {"running", "killed", "aborted"}
  /\ sock \in [Fd -> Conn \cup {NoConn}]
  /\ clients \in [User -> [fd : Fd, key : Conn] \cup {Nobody}]
  /\ pc \in [Conn -> {"none", "handshake", "first", "loop", "leave", "close", "done"}]
  /\ fd \in [Conn -> Fd \cup {NoFd}]
  /\ name \in [Conn -> SUBSET User]
  /\ asked \in [Conn -> SUBSET [fd : Fd, chat : Chat]]
  /\ out \in [Conn -> SUBSET [fd : Fd, key : Conn, frame : ServerFrame]]
  /\ cpc \in [Conn -> {"none", "handshake", "prompt", "waiting", "in", "deaf", "closed"}]
  /\ up \in [Conn -> Seq(ClientFrame)]
  /\ down \in [Conn -> Seq([key : Conn, frame : ServerFrame])]
  /\ got \in [Conn -> Seq(Chat)]
  /\ sent \in [Conn -> Nat]

\* A client displays only what was sent to the name it logged in with, even
\* when a descriptor was closed and reused between the lookups and the send:
\* what goes to the wrong connection is under another key.  (ChatServer, the
\* server of phase 1, does not have this property.)
ReachesReceiver ==
  \A c \in Conn : \A i \in 1..Len(got[c]) : got[c][i].to \in name[c]

\* A client whose login loop has ended is logged in: the server has a name for
\* it and its handler is in the loop or past it, whatever other handlers sent
\* while the reply was awaited.
InMeansNamed ==
  \A c \in Conn : cpc[c] \in {"in", "deaf"} =>
    name[c] # {} /\ pc[c] \in {"loop", "leave", "close", "done"}

\* The descriptor and the key of an entry belong to one connection, the one
\* logged in under the name, and every handler in its loop has its entry.
KeysMatchSockets ==
  /\ \A u \in User : clients[u].fd # NoFd =>
       /\ sock[clients[u].fd] = clients[u].key
       /\ clients[u].key \in Conn /\ name[clients[u].key] = {u}
  /\ \A c \in Conn : pc[c] \in {"loop", "leave"} =>
       \A u \in name[c] : clients[u] = [fd |-> fd[c], key |-> c]

\* The registry implements the directory of names, the keys telling whose
\* name it is.
Names == INSTANCE Directory WITH
  holder <- [u \in User |-> clients[u].key],
  gone <- Gone
NamesSpec == Names!Spec

\* A login that was sent is answered, whichever messages of others come before
\* the answer and are taken for it.
LoginAnswered == \A c \in Conn : cpc[c] = "waiting" ~> cpc[c] # "waiting"

\* The handler of c is in a send for which there is no room, to a client that
\* reads nothing: its user is asked for a name, or its receiver has ended.
HeldUp(c) ==
  \E o \in out[c] :
    LET d == sock[o.fd] IN
    d \in Conn /\ cpc[d] \in {"prompt", "deaf"} /\ Len(down[d]) = Room

\* A message that its sender's handler has yet to take, for a user who is
\* logged in, is displayed there, unless that client stops listening or the
\* server ends (the message is looked up once: it is lost with a connection
\* that goes, whoever comes back under the name).  The one thing that can hold
\* it up for ever is an earlier one, for a client that does not read.
Listening(d, u) == cpc[d] = "in" /\ name[d] = {u} /\ pc[d] = "loop"
Routed ==
  \A c, d \in Conn, u \in User : \A n \in 1..MaxSends[c] :
    /\ pc[c] = "loop" /\ cpc[c] # "closed" /\ Listening(d, u)
    /\ \E i \in 1..Len(up[c]) : up[c][i] = [type |-> "MSG", to |-> u, n |-> n]
    ~> \/ \E i \in 1..Len(got[d]) : got[d][i].by = c /\ got[d][i].n = n
       \/ cpc[d] # "in" \/ cpc[c] = "closed" \/ ~Running \/ []HeldUp(c)

\* When the client of a connection has gone, the name it holds becomes free,
\* or another connection's, unless the server ends, or the handler is held up
\* for ever by a client that does not read: no way out of the handler loses a
\* name to a connection that is no more.
NameFreed ==
  \A u \in User, c \in Conn :
    clients[u].key = c /\ c \in Gone ~> ~Running \/ clients[u].key # c \/ []HeldUp(c)

\* "The server keeps routing by username" (phase4/README.md:4): no message
\* makes it end with an exception that nothing catches.
KeepsRouting == server # "aborted"
=============================================================================
