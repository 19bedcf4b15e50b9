----------------------------- MODULE E2ESession -----------------------------
(***************************************************************************)
(* The end-to-end sessions of the phase 5 chat client                      *)
(* (phase5/src/client/client.cpp).  A client process has three threads:    *)
(*                                                                         *)
(*   main       reads the user's commands (/e2e, chat lines, /quit)        *)
(*   receiver   receive_messages: handles every frame the server relays    *)
(*   refresher  refresher_func: every 60 s renegotiates the session keys   *)
(*                                                                         *)
(* They share one E2EState (aes_keys, pending, stop) under one mutex and   *)
(* one socket.  A critical section is one step here, and so is a send; the *)
(* thread composes a frame in one step (it is then in held[u][t]) and      *)
(* sends it in a later one, so every interleaving between the unlock and   *)
(* the send is explored.  The server's handler of a client relays the      *)
(* client's frames in order.  A connection holds Room frames each way: a   *)
(* send blocks while there is no room, and with it the thread, or the      *)
(* handler, that is in it.                                                 *)
(*                                                                         *)
(* Before main starts the other threads it is in the login loop, which     *)
(* takes one frame per LOGIN sent and drops every frame but OK.  The name  *)
(* is in the registry before OK is sent, so that other frames may overtake *)
(* it.                                                                     *)
(*                                                                         *)
(* A Diffie-Hellman keypair is <<u, n>>: the n-th keypair the client u     *)
(* generated.  The secret of two keypairs is the set of the two, which is  *)
(* what dhGetSecret gives both ends; {} is the absent key.                 *)
(***************************************************************************)
EXTENDS Naturals, Sequences, FiniteSets

CONSTANTS
  User,       \* the usernames
  Rank,       \* their alphabetical order, as a number for each of them
  Initiates,  \* <<u, p>>: the user u may type  /e2e p
  Talks,      \* <<u, p>>: the user u may type a chat line for p
  Orderly,    \* TRUE: /e2e p is typed only for a p that /who lists, and once
  SlowTick,   \* TRUE: the 60 s of a tick outlast any key exchange under way
  Room,       \* frames a connection holds each way
  MaxPairs,   \* bound: keypairs of a client after which it starts no exchange
  MaxChats,   \* bound: chat lines a user types
  MaxExits    \* bound: times that clients quit or are killed

ASSUME RankAssumption ==
  /\ Rank \in [User -> Nat]
  /\ \A u, p \in User : Rank[u] = Rank[p] => u = p
ASSUME CommandAssumption == Initiates \cup Talks \subseteq User \X User
ASSUME ModeAssumption == Orderly \in BOOLEAN /\ SlowTick \in BOOLEAN
ASSUME RoomAssumption == Room \in Nat \ {0}
ASSUME BoundAssumption == MaxPairs \in Nat /\ MaxChats \in Nat /\ MaxExits \in Nat

VARIABLES
  online,    \* names in the server's registry
  greeting,  \* names whose handler has yet to send OK
  asking,    \* users whose client is in the login loop, waiting for an answer
  prompted,  \* users whose client is in the login loop, at its prompt again
  up,        \* users whose client is past the login loop: its threads run
  aes_keys,  \* aes_keys[u][p]: the session key u has for p, {} for none
  pending,   \* pending[u][p]: u's keypair awaiting p's answer, 0 for none
  gen,       \* gen[u]: how many keypairs the clients of u generated
  stop,      \* clients whose e2e.stop is set
  held,      \* held[u][t]: the frame the thread t of u is about to send
  todo,      \* todo[u]: peers u's refresher has yet to visit this tick
  uplink,    \* uplink[u]: frames from u the server has not handled
  inbox,     \* inbox[u]: frames for u that u has not handled
  typed,     \* typed[u][n]: whom the n-th chat line of u was for
  shown,     \* shown[u]: the chat lines u received, and how each came out
  exits      \* number of exits so far

keyVars == <<aes_keys, pending, gen>>
loginVars == <<greeting, asking, prompted>>
serverVars == <<online, loginVars, up, exits>>
chatVars == <<typed, shown>>
vars == <<serverVars, keyVars, stop, held, todo, uplink, inbox, chatVars>>

Thread == {"main", "receiver", "refresher"}
Pair == User \X (Nat \ {0})
Secret(a, b) == {a, b}

(***************************************************************************)
(* Frames.  peer is the receiver on an uplink and the sender in an inbox.  *)
(***************************************************************************)
FrameType == {"INIT", "ACK", "CHAT", "QUIT", "ERROR", "LOGIN", "OK"}
Frame == [type : FrameType, peer : User, pub : SUBSET Pair, key : SUBSET Pair,
          n : Nat]

InitFrame(p, a) == [type |-> "INIT", peer |-> p, pub |-> {a}, key |-> {}, n |-> 0]
AckFrame(p, a) == [type |-> "ACK", peer |-> p, pub |-> {a}, key |-> {}, n |-> 0]
ChatFrame(p, k, i) == [type |-> "CHAT", peer |-> p, pub |-> {}, key |-> k, n |-> i]
QuitFrame(u) == [type |-> "QUIT", peer |-> u, pub |-> {}, key |-> {}, n |-> 0]
ErrorFrame(p) == [type |-> "ERROR", peer |-> p, pub |-> {}, key |-> {}, n |-> 0]
LoginFrame(u) == [type |-> "LOGIN", peer |-> u, pub |-> {}, key |-> {}, n |-> 0]
OKFrame(u) == [type |-> "OK", peer |-> u, pub |-> {}, key |-> {}, n |-> 0]

InSeq(f, s) == \E i \in 1..Len(s) : s[i] = f
IsExchange(f) == f.type \in {"INIT", "ACK"}

\* The first frame of a queue, if there is one.
First(s) == IF s = <<>> THEN {} ELSE {Head(s)}
\* The client process of u runs.
Runs(u) == u \in asking \cup prompted \cup up

Idle(u, t) == held[u][t] = {}
\* The keypair u generates now.
NewPair(u) == <<u, gen[u] + 1>>
Generate(u) == gen' = [gen EXCEPT ![u] = @ + 1]
Hold(u, t, f) == held' = [held EXCEPT ![u][t] = {f}]

\* An exchange frame from u to p that a thread holds, the server has yet to
\* relay, or p has yet to handle.
ExchangeFromTo(u, p) ==
  \/ \E t \in Thread : \E f \in held[u][t] : IsExchange(f) /\ f.peer = p
  \/ \E i \in 1..Len(uplink[u]) : IsExchange(uplink[u][i]) /\ uplink[u][i].peer = p
  \/ \E i \in 1..Len(inbox[p]) : IsExchange(inbox[p][i]) /\ inbox[p][i].peer = u
\* No key exchange between u and p is under way.
Quiet(u, p) ==
  /\ pending[u][p] = 0 /\ pending[p][u] = 0
  /\ ~ExchangeFromTo(u, p) /\ ~ExchangeFromTo(p, u)

-----------------------------------------------------------------------------
Init ==
  /\ online = {} /\ up = {} /\ stop = {}
  /\ greeting = {} /\ asking = {} /\ prompted = {}
  /\ aes_keys = [u \in User |-> [p \in User |-> {}]]
  /\ pending = [u \in User |-> [p \in User |-> 0]]
  /\ gen = [u \in User |-> 0]
  /\ held = [u \in User |-> [t \in Thread |-> {}]]
  /\ todo = [u \in User |-> {}]
  /\ uplink = [u \in User |-> <<>>]
  /\ inbox = [u \in User |-> <<>>]
  /\ typed = [u \in User |-> <<>>]
  /\ shown = [u \in User |-> <<>>]
  /\ exits = 0

-----------------------------------------------------------------------------
(* The login.                                                              *)

\* What u sends finds room.
UplinkRoom(u) == u \in online => Len(uplink[u]) < Room

\* A client process starts and sends LOGIN for a name the registry has not; the
\* handler enters it.  (A name that is taken leaves no trace here.)
Login(u) ==
  /\ ~Runs(u) /\ u \notin online
  /\ online' = online \cup {u}
  /\ greeting' = greeting \cup {u} /\ asking' = asking \cup {u}
  /\ UNCHANGED <<prompted, up, keyVars, stop, held, todo, uplink, inbox,
                 chatVars, exits>>

\* u takes f, the first frame that has come for it.
Takes(u, f) ==
  /\ f \in First(inbox[u])
  /\ inbox' = [inbox EXCEPT ![u] = Tail(@)]

\* The login loop takes f for the answer.
TakesReply(u, f) ==
  /\ u \in asking /\ Takes(u, f)
  /\ asking' = asking \ {u}
  /\ UNCHANGED <<online, greeting, keyVars, stop, held, todo, uplink, chatVars, exits>>

\* OK: the loop ends, E2EState is set up empty and the threads start.
LoginDone(u, f) ==
  /\ TakesReply(u, f) /\ f.type = "OK"
  /\ up' = up \cup {u}
  /\ UNCHANGED prompted

\* Any other frame, which was relayed to u before its OK was sent, is lost:
\* an ERROR is printed, a FROM is not, and the user is asked again.
LoginDrops(u, f) ==
  /\ TakesReply(u, f) /\ f.type # "OK"
  /\ prompted' = prompted \cup {u}
  /\ UNCHANGED up

LoginReply(u) == \E f \in First(inbox[u]) : LoginDone(u, f) \/ LoginDrops(u, f)

\* The user types the login again, with the same name, and it is sent again.
LoginAgain(u) ==
  /\ u \in prompted /\ UplinkRoom(u)
  /\ uplink' = [uplink EXCEPT ![u] = IF u \in online
                                       THEN Append(@, LoginFrame(u)) ELSE @]
  /\ prompted' = prompted \ {u} /\ asking' = asking \cup {u}
  /\ UNCHANGED <<online, greeting, up, keyVars, stop, held, todo, inbox, chatVars, exits>>

-----------------------------------------------------------------------------
(* The main thread.                                                        *)

\* /e2e p: generate a keypair, keep it as pending unless one is (emplace does
\* not overwrite), and send its public key, whichever keypair was kept.
StartE2E(u, p) ==
  /\ u \in up \ stop /\ Idle(u, "main") /\ <<u, p>> \in Initiates
  /\ gen[u] < MaxPairs
  /\ Orderly => p \in online /\ aes_keys[u][p] = {} /\ pending[u][p] = 0
  /\ Generate(u)
  /\ pending' = [pending EXCEPT ![u][p] = IF @ = 0 THEN gen[u] + 1 ELSE @]
  /\ Hold(u, "main", InitFrame(p, NewPair(u)))
  /\ UNCHANGED <<serverVars, chatVars, aes_keys, stop, todo, uplink, inbox>>

\* A chat line for p: under the lock the key is copied, none meaning that the
\* line goes out in the clear; it is encrypted and sent after the unlock.
Chat(u, p) ==
  /\ u \in up \ stop /\ Idle(u, "main") /\ <<u, p>> \in Talks
  /\ Len(typed[u]) < MaxChats
  /\ typed' = [typed EXCEPT ![u] = Append(@, p)]
  /\ Hold(u, "main", ChatFrame(p, aes_keys[u][p], Len(typed[u]) + 1))
  /\ UNCHANGED <<serverVars, keyVars, stop, todo, uplink, inbox, shown>>

\* /quit: send QUIT and raise the stop flag; the process then ends (Exit).
Quit(u) ==
  /\ u \in up \ stop /\ Idle(u, "main") /\ exits < MaxExits
  /\ UplinkRoom(u)
  /\ uplink' = [uplink EXCEPT ![u] = IF u \in online
                                       THEN Append(@, QuitFrame(u)) ELSE @]
  /\ stop' = stop \cup {u}
  /\ exits' = exits + 1
  /\ UNCHANGED <<online, loginVars, up, keyVars, chatVars, held, todo, inbox>>

\* What the end of a process takes with it: its E2EState, its threads and the
\* frames that no thread has received.
ProcessEnds(u) ==
  /\ up' = up \ {u} /\ stop' = stop \ {u}
  /\ asking' = asking \ {u} /\ prompted' = prompted \ {u}
  /\ aes_keys' = [aes_keys EXCEPT ![u] = [p \in User |-> {}]]
  /\ pending' = [pending EXCEPT ![u] = [p \in User |-> 0]]
  /\ held' = [held EXCEPT ![u] = [t \in Thread |-> {}]]
  /\ todo' = [todo EXCEPT ![u] = {}]
  /\ inbox' = [inbox EXCEPT ![u] = <<>>]
  /\ UNCHANGED <<online, greeting, gen, uplink, chatVars>>

\* main closes the socket and returns.
Exit(u) == u \in stop /\ ProcessEnds(u) /\ UNCHANGED exits

\* The process is killed, in its login loop perhaps.
Kill(u) ==
  /\ Runs(u) /\ u \notin stop /\ exits < MaxExits
  /\ ProcessEnds(u) /\ exits' = exits + 1

\* A thread sends the frame it composed, once there is room; when the server
\* has closed the connection the frame goes nowhere.
SendFrame(u, t) ==
  /\ UplinkRoom(u)
  /\ \E f \in held[u][t] :
       uplink' = [uplink EXCEPT ![u] = IF u \in online THEN Append(@, f) ELSE @]
  /\ held' = [held EXCEPT ![u][t] = {}]
  /\ UNCHANGED <<serverVars, keyVars, chatVars, stop, todo, inbox>>

-----------------------------------------------------------------------------
(* The refresher thread.                                                   *)

\* Faulty variant: both ends of a session refresh it.
RefreshTickBothEnds(u) ==
  /\ u \in up \ stop /\ todo[u] = {} /\ Idle(u, "refresher")
  /\ todo' = [todo EXCEPT ![u] =
       {p \in User : /\ aes_keys[u][p] # {}
                     /\ SlowTick => Quiet(u, p)
                     /\ gen[u] < MaxPairs}]
  /\ UNCHANGED <<serverVars, keyVars, chatVars, stop, held, uplink, inbox>>

\* 60 s have passed: collect the peers with a session whose name comes after
\* u's.  (SlowTick and MaxPairs thin out the peers, not the code.)
RefreshTick(u) ==
  /\ u \in up \ stop /\ todo[u] = {} /\ Idle(u, "refresher")
  /\ todo' = [todo EXCEPT ![u] =
       {p \in User : /\ aes_keys[u][p] # {} /\ Rank[u] < Rank[p]
                     /\ SlowTick => Quiet(u, p)
                     /\ gen[u] < MaxPairs}]
  /\ UNCHANGED <<serverVars, keyVars, chatVars, stop, held, uplink, inbox>>

\* Visit the next peer in the order of the map: a new keypair replaces the
\* pending one, and its public key is sent after the unlock.
RefreshPeer(u) ==
  /\ Idle(u, "refresher")
  /\ \E p \in todo[u] :
       /\ \A q \in todo[u] : Rank[p] <= Rank[q]
       /\ todo' = [todo EXCEPT ![u] = @ \ {p}]
       /\ Generate(u)
       /\ pending' = [pending EXCEPT ![u][p] = gen[u] + 1]
       /\ Hold(u, "refresher", InitFrame(p, NewPair(u)))
  /\ UNCHANGED <<serverVars, chatVars, aes_keys, stop, uplink, inbox>>

-----------------------------------------------------------------------------
(* The receiver thread: one action per kind of frame.                      *)

\* The receiver of u takes the frame f.
Receives(u, f) == u \in up /\ Idle(u, "receiver") /\ Takes(u, f)

\* Faulty variant: emplace, which keeps the key of an earlier exchange.
RecvInitKeepsKey(u, f) ==
  /\ Receives(u, f) /\ f.type = "INIT"
  /\ \E b \in f.pub : aes_keys' = [aes_keys EXCEPT ![u][f.peer] =
                                     IF @ = {} THEN Secret(NewPair(u), b) ELSE @]
  /\ Generate(u)
  /\ Hold(u, "receiver", AckFrame(f.peer, NewPair(u)))
  /\ UNCHANGED <<serverVars, chatVars, pending, stop, todo, uplink>>

\* A peer asks for a session: generate a keypair, store the key of the two
\* keypairs at once, and answer with the public key after the unlock.
RecvInit(u, f) ==
  /\ Receives(u, f) /\ f.type = "INIT"
  /\ \E b \in f.pub :
       aes_keys' = [aes_keys EXCEPT ![u][f.peer] = Secret(NewPair(u), b)]
  /\ Generate(u)
  /\ Hold(u, "receiver", AckFrame(f.peer, NewPair(u)))
  /\ UNCHANGED <<serverVars, chatVars, pending, stop, todo, uplink>>

\* Faulty variants: the keypair stays pending; the key of an earlier exchange
\* stays; the answer is taken with nothing pending.
RecvAckKeepsPending(u, f) ==
  /\ Receives(u, f) /\ f.type = "ACK"
  /\ pending[u][f.peer] # 0
  /\ \E b \in f.pub : aes_keys' =
       [aes_keys EXCEPT ![u][f.peer] = Secret(<<u, pending[u][f.peer]>>, b)]
  /\ UNCHANGED <<serverVars, chatVars, pending, gen, stop, held, todo, uplink>>
RecvAckKeepsKey(u, f) ==
  /\ Receives(u, f) /\ f.type = "ACK"
  /\ pending[u][f.peer] # 0
  /\ \E b \in f.pub : aes_keys' = [aes_keys EXCEPT ![u][f.peer] =
       IF @ = {} THEN Secret(<<u, pending[u][f.peer]>>, b) ELSE @]
  /\ pending' = [pending EXCEPT ![u][f.peer] = 0]
  /\ UNCHANGED <<serverVars, chatVars, gen, stop, held, todo, uplink>>
RecvAckUnasked(u, f) ==
  /\ Receives(u, f) /\ f.type = "ACK"
  /\ \E b \in f.pub : aes_keys' =
       [aes_keys EXCEPT ![u][f.peer] = Secret(<<u, pending[u][f.peer]>>, b)]
  /\ pending' = [pending EXCEPT ![u][f.peer] = 0]
  /\ UNCHANGED <<serverVars, chatVars, gen, stop, held, todo, uplink>>

\* The answer to our INIT: the key is that of the pending keypair, whichever
\* INIT the answer is to, and the keypair is pending no more.
RecvAck(u, f) ==
  /\ Receives(u, f) /\ f.type = "ACK"
  /\ pending[u][f.peer] # 0
  /\ \E b \in f.pub : aes_keys' =
       [aes_keys EXCEPT ![u][f.peer] = Secret(<<u, pending[u][f.peer]>>, b)]
  /\ pending' = [pending EXCEPT ![u][f.peer] = 0]
  /\ UNCHANGED <<serverVars, chatVars, gen, stop, held, todo, uplink>>

\* "Unexpected E2E_REPLY": an answer with nothing pending is ignored.
RecvUnexpectedAck(u, f) ==
  /\ Receives(u, f) /\ f.type = "ACK"
  /\ pending[u][f.peer] = 0
  /\ UNCHANGED <<serverVars, keyVars, chatVars, stop, held, todo, uplink>>

\* How a chat line sent under key k comes out at a receiver whose key is k2.
Outcome(k, k2) == CASE k = {} -> "plain"
                    [] k # {} /\ k2 = {} -> "ignored"
                    [] k # {} /\ k2 = k -> "decrypted"
                    [] OTHER -> "failed"

\* A chat line: shown as it is when it is plain, else decrypted with the key
\* held for the sender, which fails under any other key than the sender's.
RecvChat(u, f) ==
  /\ Receives(u, f) /\ f.type = "CHAT"
  /\ shown' = [shown EXCEPT ![u] = Append(@,
       [from |-> f.peer, n |-> f.n, how |-> Outcome(f.key, aes_keys[u][f.peer])])]
  /\ UNCHANGED <<serverVars, keyVars, typed, stop, held, todo, uplink>>

\* "User not found" is printed; a keypair pending for that user stays.
RecvError(u, f) ==
  /\ Receives(u, f) /\ f.type = "ERROR"
  /\ UNCHANGED <<serverVars, keyVars, chatVars, stop, held, todo, uplink>>

Receiver(u) == \E f \in First(inbox[u]) :
  \/ RecvInit(u, f) \/ RecvAck(u, f) \/ RecvUnexpectedAck(u, f)
  \/ RecvChat(u, f) \/ RecvError(u, f)

-----------------------------------------------------------------------------
(* The server's handler of u (phase5/src/server/server.cpp).               *)

\* Faulty variant: a frame for a receiver with frames waiting is lost, where it
\* should wait for room.
DeliverIfEmpty(p, f) ==
  inbox' = [inbox EXCEPT ![p] = IF Runs(p) /\ @ = <<>> THEN Append(@, f) ELSE @]
\* Faulty variant: a frame overtakes those that wait.
DeliverAhead(p, f) ==
  /\ Runs(p) => Len(inbox[p]) < Room
  /\ inbox' = [inbox EXCEPT ![p] = IF Runs(p) THEN <<f>> \o @ ELSE @]

\* Forward a frame to its receiver under the sender's name, once there is room
\* for it; what goes to a process that is gone is lost.
Deliver(p, f) ==
  /\ Runs(p) => Len(inbox[p]) < Room
  /\ inbox' = [inbox EXCEPT ![p] = IF Runs(p) THEN Append(@, f) ELSE @]

\* The handler answers the LOGIN; its loop begins after that.
SendOK(u) ==
  /\ u \in greeting
  /\ Deliver(u, OKFrame(u))
  /\ greeting' = greeting \ {u}
  /\ UNCHANGED <<online, asking, prompted, up, exits, keyVars, chatVars, stop, held,
                 todo, uplink>>

\* The handler takes f, the first frame of u.
Handles(u, f) ==
  /\ u \in online \ greeting /\ f \in First(uplink[u])
  /\ UNCHANGED <<loginVars, up, exits, keyVars, chatVars, stop, held, todo>>

\* Faulty variant: the sender's name is not filled in.
RelayUnsigned(u, f) ==
  /\ Handles(u, f) /\ f.type \notin {"QUIT", "LOGIN"} /\ f.peer \in online
  /\ Deliver(f.peer, f)
  /\ uplink' = [uplink EXCEPT ![u] = Tail(@)]
  /\ UNCHANGED online

Relay(u, f) ==
  /\ Handles(u, f) /\ f.type \notin {"QUIT", "LOGIN"} /\ f.peer \in online
  /\ Deliver(f.peer, [f EXCEPT !.peer = u])
  /\ uplink' = [uplink EXCEPT ![u] = Tail(@)]
  /\ UNCHANGED online

RelayNotFound(u, f) ==
  /\ Handles(u, f) /\ f.type \notin {"QUIT", "LOGIN"} /\ f.peer \notin online
  /\ Deliver(u, ErrorFrame(f.peer))
  /\ uplink' = [uplink EXCEPT ![u] = Tail(@)]
  /\ UNCHANGED online

\* QUIT ends the handler's loop: the name leaves the registry, the socket is
\* closed and later frames of u are never read.
HandleQuit(u, f) ==
  /\ Handles(u, f) /\ f.type = "QUIT"
  /\ online' = online \ {u}
  /\ uplink' = [uplink EXCEPT ![u] = <<>>]
  /\ UNCHANGED inbox

\* A LOGIN that comes again is none of the messages the loop knows: no answer.
HandleLogin(u, f) ==
  /\ Handles(u, f) /\ f.type = "LOGIN"
  /\ uplink' = [uplink EXCEPT ![u] = Tail(@)]
  /\ UNCHANGED <<online, inbox>>

\* The connection of a process that is gone ends, at the latest when its
\* frames are handled and perhaps before (a reset).
HandlerEnds(u) ==
  /\ u \in online \ greeting /\ ~Runs(u)
  /\ online' = online \ {u}
  /\ uplink' = [uplink EXCEPT ![u] = <<>>]
  /\ UNCHANGED <<loginVars, up, exits, keyVars, chatVars, stop, held, todo, inbox>>

Handler(u) == \E f \in First(uplink[u]) :
  Relay(u, f) \/ RelayNotFound(u, f) \/ HandleQuit(u, f) \/ HandleLogin(u, f)

-----------------------------------------------------------------------------
UserStep(u) ==
  \/ Login(u) \/ LoginAgain(u) \/ Quit(u) \/ Kill(u)
  \/ \E p \in User : StartE2E(u, p) \/ Chat(u, p)
SystemStep(u) ==
  \/ \E t \in Thread : SendFrame(u, t)
  \/ LoginReply(u) \/ Receiver(u) \/ RefreshPeer(u) \/ Exit(u)
  \/ SendOK(u) \/ Handler(u) \/ HandlerEnds(u)

Next == \E u \in User : UserStep(u) \/ SystemStep(u) \/ RefreshTick(u)

\* Users do as they please, but for one who is asked to log in again and does
\* so; every thread that can run does, and the refresher's timer fires.
Fairness == \A u \in User :
  /\ \A t \in Thread : WF_vars(SendFrame(u, t))
  /\ WF_vars(Receiver(u)) /\ WF_vars(Handler(u)) /\ WF_vars(RefreshPeer(u))
  /\ WF_vars(RefreshTick(u)) /\ WF_vars(Exit(u)) /\ WF_vars(HandlerEnds(u))
  /\ WF_vars(LoginReply(u)) /\ WF_vars(LoginAgain(u)) /\ WF_vars(SendOK(u))

Spec == Init /\ [][Next]_vars
FairSpec == Spec /\ Fairness

-----------------------------------------------------------------------------
(* Properties.                                                             *)

\* Every variable has its type: in particular a key is absent or a secret of
\* generated keypairs, and a pending keypair is one the client generated.
Line == [from : User, n : Nat,
         how : {"plain", "ignored", "decrypted", "failed"}]
TypeOK ==
  /\ online \subseteq User /\ up \subseteq User /\ stop \subseteq up
  /\ greeting \subseteq online /\ asking \subseteq User /\ prompted \subseteq User
  /\ aes_keys \in [User -> [User -> SUBSET Pair]]
  /\ pending \in [User -> [User -> Nat]]
  /\ gen \in [User -> Nat]
  /\ held \in [User -> [Thread -> SUBSET Frame]]
  /\ todo \in [User -> SUBSET User]
  /\ uplink \in [User -> Seq(Frame)]
  /\ inbox \in [User -> Seq(Frame)]
  /\ typed \in [User -> Seq(User)]
  /\ shown \in [User -> Seq(Line)]
  /\ exits \in Nat

\* A keypair of u, one that u has generated.
OwnPair(u) == {<<u, i>> : i \in 1..gen[u]}
\* A key of u and p is the secret of a keypair of u and a keypair of p.
KeyOf(u, p) == {Secret(a, b) : a \in OwnPair(u), b \in OwnPair(p)}

\* Why KeyOwnership holds: every public key under way is one its sender
\* generated, and every pending keypair one its client generated.
PendingOwned == \A u, p \in User : pending[u][p] <= gen[u]
HeldOwned ==
  \A u \in User : \A t \in Thread : \A f \in held[u][t] : f.pub \subseteq OwnPair(u)
UplinkOwned ==
  \A u \in User : \A i \in 1..Len(uplink[u]) : uplink[u][i].pub \subseteq OwnPair(u)
InboxOwned ==
  \A u \in User : \A i \in 1..Len(inbox[u]) :
    inbox[u][i].pub \subseteq OwnPair(inbox[u][i].peer)
PublicKeysOwned == PendingOwned /\ HeldOwned /\ UplinkOwned /\ InboxOwned

\* However commands, rekeys, answers, restarts and refusals interleave, the
\* key a client holds under the name p mixes a keypair of its own with one
\* that p itself generated (receive_messages files the secret under
\* message.sender, handle_message of the server writes that name).
KeyOwnership ==
  \A u, p \in User : aes_keys[u][p] # {} => aes_keys[u][p] \in KeyOf(u, p)

\* A client displays the lines of a peer in the order they were typed, each
\* at most once and only those typed for it, across the sender's threads, the
\* relay and restarts of either side.
ShownInOrder ==
  \A u \in User : \A i, j \in 1..Len(shown[u]) :
    /\ LET l == shown[u][i] IN l.n \in 1..Len(typed[l.from]) /\ typed[l.from][l.n] = u
    /\ i < j /\ shown[u][i].from = shown[u][j].from => shown[u][i].n < shown[u][j].n

\* When no key exchange is under way between two running clients they hold the
\* same key for each other, "these should match" (phase4/README.md:69-70).
FingerprintsMatch ==
  \A u, p \in up : Quiet(u, p) => aes_keys[u][p] = aes_keys[p][u]

\* An answer on its way meets the very keypair it answers: combining it with
\* what is pending gives the key the answerer holds.
AckAnswersPending ==
  \A u, p \in User : \A i \in 1..Len(inbox[u]) :
    LET f == inbox[u][i] IN
    f.type = "ACK" /\ f.peer = p =>
      \A b \in f.pub : Secret(<<u, pending[u][p]>>, b) = aes_keys[p][u]

\* A session never falls back to a keypair older than one it was using, on
\* either end of it (an old key comes back when an answer is taken for
\* another's).
NoRollback ==
  [][\A u, p \in User : \A x \in aes_keys[u][p], y \in aes_keys'[u][p] :
       x[1] = y[1] => x[2] <= y[2]]_vars

\* A receiver thread is in the send of an answer for which there is no room, and
\* so much has come for it meanwhile that handlers wait to send more.  As the
\* thread reads nothing before its send returns, and the handler that would
\* make room may be among those that wait, this can be the end of it.  So can a
\* login loop in the send of one more LOGIN, where the handler that would read
\* it waits to send OK.
Jam ==
  \E u \in online :
    /\ Len(uplink[u]) = Room /\ Len(inbox[u]) = Room
    /\ (u \in up /\ ~Idle(u, "receiver")) \/ u \in prompted \cap greeting

\* Once p is past its login loop, a key exchange that u has asked it for and
\* that is under way comes to its end, however little the connections hold,
\* but for a jam: nothing but a login loop ever drops a frame of an exchange
\* between clients that stay, and every one that arrives is acted on.
ExchangeCompletes ==
  \A u, p \in User :
    p \in up /\ pending[u][p] # 0 /\ (ExchangeFromTo(u, p) \/ ExchangeFromTo(p, u))
      ~> pending[u][p] = 0 \/ []Jam

\* A line that main is about to send to a peer past its login loop reaches its
\* screen, readable or not: no thread, queue or handler keeps it for ever, though
\* each waits for others to make room, but for a jam.
LineArrives ==
  \A u, p \in User : \A n \in 1..MaxChats :
    p \in up /\ (\E f \in held[u]["main"] : f.type = "CHAT" /\ f.peer = p /\ f.n = n)
      ~> \/ \E i \in 1..Len(shown[p]) : shown[p][i].from = u /\ shown[p][i].n = n
         \/ []Jam

\* p has answered u's request with a new key, and u has not had the answer.
AckFromTo(p, u) ==
  \/ \E f \in held[p]["receiver"] : f.type = "ACK" /\ f.peer = u
  \/ \E i \in 1..Len(uplink[p]) : uplink[p][i].type = "ACK" /\ uplink[p][i].peer = u
  \/ \E i \in 1..Len(inbox[u]) : inbox[u][i].type = "ACK" /\ inbox[u][i].peer = p

\* Used as intended, the key exchange of the three threads and the relay
\* implements the rotation of KeyRotation: p is ahead of u while its answer is
\* on its way.
Rotation == INSTANCE KeyRotation WITH
  keys <- aes_keys,
  ahead <- {e \in User \X User : AckFromTo(e[1], e[2])}
RotationSafety == Rotation!Safety
RotationSpec == RotationSafety /\ (Rotation!Fairness \/ <>[]Jam)
=============================================================================
