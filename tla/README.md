# A TLA+ model of the secure chat application

The repository is one program in five phases: a chat server that routes by
username and console clients for it (phase 1), to which the later phases add a
Diffie-Hellman channel between client and server (phase 2), a certificate and a
challenge before it (phase 3), end-to-end sessions between clients (phase 4) and
the renegotiation of their keys every 60 seconds (phase 5). Each phase is a
full copy of the program.

The modules here model every phase's logic once, at the phase where it is
complete: the server without keys from phase 1, the server with keys and its
clients from phase 3, the commands and the messages of a session from phase 4, the
connection handshake (phases 2 to 5), the message format, the framing and the
end-to-end sessions with their rekeys from phase 5. TLC checks them on small
instances, and TLAPS proves for every value of the constants each invariant and
each safety refinement of the runs, with the hypotheses that section 5 names.

Line references are `phaseN/...` below `src/`, where the sources of phase `N` are
in `src/phaseN/src`.

## 1. The system

### Components, their state and their operations

| Component | State | Operations | What makes it correct |
|---|---|---|---|
| Server `main` | listening socket | accept, start a detached thread per connection | a descriptor is handed out only when it is free |
| Handler `handle_client`, one thread per client | `client_fd`, `username`, key of the connection, phase of the conversation | prelude, LOGIN, WHO, MSG, QUIT, failing receive, `remove_client`, `close` | one way out removes the name and one does not; each must be taken exactly when it should |
| `ClientRegistry` | map from names to descriptors (phase 1) or descriptors and keys, one mutex | `add_client`, `remove_client`, `get_socket`, `get_key`, `user_exists`, `get_all_users` | each call is atomic; *sequences* of calls are not, and that is where the questions are |
| Client `main` thread | login state, current addressee | prelude, login loop, `/who`, `/chat`, `/e2e`, `/quit`, chat lines | |
| Client receiver thread | none of its own | displays frames; phases 4, 5: answers `__E2E_INIT__`, takes `__E2E_ACK__`, decrypts `__E2E_MSG__` | keys are filed under the right name, and both ends agree |
| Client refresher thread (phase 5) | the peers of this tick | every 60 s: a new keypair for each session whose peer's name is the later one | does not cross with an exchange under way |
| `E2EState` | `aes_keys`, `pending`, `stop`, one mutex | map operations of the three threads | pending keypair and answer belong together |
| Framing | partial buffers | `send_frame`, `receive_frame` over loops of `send`/`recv` | frames survive partial sends and receives |
| Message format | none | `parse_message`, `serialize_message` | round trip for every text the users type |
| Diffie-Hellman, AES-GCM | none | `dh_generate_keypair`, `dhGetSecret`, `deriveAesKey`, `aes_gcm_encrypt`, `aes_gcm_decrypt` | both ends derive one key; what one seals the other opens |
| Certificate code | none | OpenSSL calls | verdicts, as their callers use them |
| Proxies of phases 2 and 3, tests, certificates | | | not part of the running chat system (section 8) |

### Interaction

Clients and handlers exchange frames over one TCP connection per client: a
bounded FIFO of bytes in each direction. Handlers share the registry and the
descriptor table of the process, and a handler writes to *other* handlers'
sockets when it relays. The threads of a client share `E2EState` and the socket.
There is no lock on a socket, no timeout on a receive, and nothing persistent.

### What is hard about it

* A descriptor or a key is looked up under the registry's lock and used after it.
  The receiver may leave meanwhile, its descriptor be closed and given to the next
  client.
* `add_client` comes before the OK reply, so relayed messages can overtake it.
* `get_socket` and `get_key` are two critical sections (phase 2 on).
* A key exchange between clients spans two clients with three threads each, four
  queues and two handlers. The answering end has the new key before its answer is
  on the way, and may use it.
* `send` blocks when the other end does not read, and the threads that send are
  often the ones that read: a client's receiver answers key exchanges itself, and a
  handler writes to other clients.
* Any thread may stop anywhere: a user quits, a process is killed, a connection is
  reset. A write to a closed connection raises SIGPIPE, which nothing handles.
* `send` and `recv` take part of a buffer, and several threads write to one socket.

`PROJECT.json` lists each of these hazards at the line where it bites, with the
properties that watch it, or with the reason why none does.

## 2. The modules

| Module | Models | Composes / refines |
|---|---|---|
| `E2ESession` | phase 5 client (`phase5/client/client.cpp`): three threads, `E2EState`, commands, exits and restarts; the relay between clients (`phase5/server/server.cpp`) | implements `KeyRotation` |
| `KeyRotation` | abstract: what two clients are promised about their session key | |
| `ChatServer` | phase 1 server, registry and client | implements `Directory` |
| `SecureServer` | server and client of phases 2 to 5, from phase 3: registry with keys, two lookups per message, frames that do not decrypt | implements `Directory`; takes the handshake as the one step `Channel` promises |
| `Directory` | abstract: who holds a name | |
| `Handshake` | the prelude of phases 2 to 5 on both sides: certificate and challenge (from phase 3 on), Diffie-Hellman | implements `Channel` |
| `Channel` | abstract: both ends open with one fresh key, or give up | |
| `Console` | what users type and see in phase 4: every command, `handle_message`, every branch of `receive_messages` (`phase4/client/client.cpp`, `server/server.cpp`) | uses `Protocol` and `DiffieHellman` |
| `Protocol` | operators: the message format (`phase5/network/protocol.cpp`) | |
| `DiffieHellman` | operators: keypairs and secrets modulo a prime, AES-GCM (`phase4/crypto`) | |
| `Framing` | one direction of a socket, byte by byte | |
| `MC...` | instances for TLC | |
| `E2ESessionProofs`, `KeyRotationProofs`, `E2EOrderProofs` | theorems and proofs about `E2ESession` | the last two extend the first |
| `ChatServerProofs`, `SecureServerProofs`, `HandshakeProofs`, `FramingProofs`, `ConsoleProofs` | theorems and proofs about one module each | |

An operator marked "Faulty variant" is no part of a specification: it is a
definition with a plausible bug, kept to see that a property notices it.

### Code and model

*Granularity.* A critical section is one step, and so is a send. A thread that
composes a frame and sends it after the unlock takes two steps, with the frame in
`held[u][t]` (`E2ESession`) or `out[c]` (`ChatServer`, `SecureServer`) in
between, so that everything that can happen between unlock and send is explored.
`SecureServer` has three steps for a MSG: `GetSocket`, `GetKey`, `Send`.

*E2ESession.* `aes_keys`, `pending` and `stop` are the fields of `E2EState`; a
keypair `<<u, n>>` is the n-th that user u generated, and the secret of two
keypairs is the set of the two, which is what `dhGetSecret` gives both ends.
`StartE2E`, `Chat`, `Quit`, `Exit` are the main thread after its login (lines 503-655),
`RecvInit` to `RecvError` the branches of `receive_messages` (70-228), `RefreshTick`
and `RefreshPeer` the `refresher_func` (231-266), `Relay` to `HandlerEnds` the
server's loop for a client. A restart is `Login` after the end of a process:
`ProcessEnds` clears the state of the process and not that of its peers.

The login is several steps, with other clients' frames in between. `Login` is the LOGIN
frame and `add_client` (server lines 226-254), after which the name is in the registry and
frames are relayed to it; `SendOK` is the answer (256-259), and until then the name is in
`greeting` and its handler's loop has not begun. The client's login loop (442-490) takes
one frame for each LOGIN (`asking`): `LoginDone` is OK, upon which the threads start
(`up`), and `LoginDrops` is any other frame, which is lost, an `__E2E_INIT__` too; the
user is then at the prompt (`prompted`) and types the login again (`LoginAgain`), which
the handler's loop ignores (`HandleLogin`), while the OK that is still to come ends the
login loop. A name that is refused leaves no trace in this module (it does in `ChatServer`
and `SecureServer`), and the login is typed again with the same name.

A
connection holds `Room` frames each way: `SendFrame`, `Quit` and the handler's
`Deliver` wait for room, and the thread, or the handler, waits with them.

*ChatServer and SecureServer.* `sock` is the descriptor table of the server
process: `Accept` takes the lowest free number, `Close` frees it, and a frame
goes to whatever connection its descriptor is open for when it is *sent*. `pc[c]`
is where `handle_client` stands: before the login (`first`), in the loop,
before `remove_client` (`leave`), before `close`. `cpc[c]` is where the client's
main thread stands; `deaf` (`SecureServer`) is a client whose receiver thread has
ended while its main thread goes on. In `SecureServer` the key of a connection is
the connection itself, and a frame decrypts where its key is that of the
receiver; the empty key makes the encryption throw, which ends the server. Its
connections hold `Room` frames each way, as in `E2ESession`.

*Handshake.* `setup` is the deployment: which of the files are there, what the
certificate check says of `server.crt`, and whether `server.key` belongs to it; or
phase 2, where there is nothing of this (`auth` FALSE) and the client begins
with its public key (`Greet`). The two ends take turns; each close and return of
the code is a `HandlerCloses` or `ClientCloses`.

*Console.* The state is what the users' programs remember between two commands:
`current_chat`, `pending`, `aes_keys`, and the registry. One command is under way
at a time. What its messages are is not abstracted: `wire` has the frame as
`serialize_message` made it, and every branch of the server and of the receiver
starts from what `parse_message` makes of it. `shown` is what the consoles
displayed, which is what the properties are about.

*Protocol and DiffieHellman.* A string is a sequence of symbols: words, the
separator, and for the lines users type the space and `@`. What a parser does
with it depends on where these and the type words are, not on letters. Keypairs
and secrets are computed, modulo a prime; SHA-256 and AES-GCM are not: a hash is its
argument with a mark, and a ciphertext is opened by the key it was made with.

*Framing.* A byte is below `Base` and the length takes `HeaderLen` bytes; the code has
256 and 4. `send_all` and `recv_all` take any part the connection has room or
bytes for. A payload is what one call of `send_frame` is given or, with `Encrypted`, the
ciphertext that `send_frame_enc` makes of it. An encrypted payload is returned if it
`Decrypts`, which it does if it is as it was sent; if not the reader stops (`Rejects`). A
plain one is returned whatever it is.

### Assumptions between the modules

* `E2ESession`, `ChatServer` and `SecureServer` send a frame in one step.
  `Framing` shows that this is right for one sending thread per direction
  (`ReceivedIsPrefix`, `FramesArrive`) and that it is not for two
  (`framing_threads`, section 4): what those modules say holds of executions in
  which no two threads are inside `send_frame` on one socket at the same time.
* In `E2ESession` and `SecureServer` a queue holds `Room` frames, in place of the bytes
  that `Framing` counts, and a send to a full one blocks. `ChatServer` has unbounded
  queues: its properties are about the order of the handlers' steps, and a
  send that waits only leaves some of these orders out.
* `SecureServer` has the handshake in one step, and both ends come out of it
  together. `Handshake` has the steps, and `ChannelSpec` says that they implement
  that one step.
* `E2ESession` has one connection per client, identified by its name, and the
  receiver's descriptor is looked up when the frame is relayed; reuse of
  descriptors is the matter of `SecureServer`.
* A frame decrypts under the key it was made with and under no other, a signature
  verifies if and only if it was made with the certificate's key, and random
  values do not repeat. `E2ESession` and `Handshake` take a secret to be the set of
  the two keypairs: that the two ends compute the same one is checked in `Console`
  (`FingerprintsMatch`, over the arithmetic), that different keypairs give different
  secrets is assumed.
* `Console` has one command at a time. Which commands overlap, and how, is the matter of
  `E2ESession`, whose frames carry the facts that matter there instead of text.

## 3. Runs that pass

| Run | Distinct states | Question |
|---|---|---|
| `e2e_orderly` | 61,087 | used as intended, do the ends of two sessions agree on keys through rekeys, and does everything complete, however little the connections hold? |
| `e2e_free` | 6,796,239 | with no assumption on users or timing, what still holds? |
| `server` | 3,319,452 | are registry, descriptor table and handlers of phase 1 consistent? |
| `relay` | 5,487,395 | are descriptor and key of a registry entry those of one connection, and what does a reused descriptor do? |
| `relay_live` | 121,016 | do messages arrive, names become free and logins get an answer, when sends block? |
| `handshake` | 43,109 | can the prelude leave its ends with different keys, a wrong server, or waiting? |
| `protocol` | 187,430 | do the consoles show what was typed, and the server nothing of what is sealed? |
| `framing` | 21,535 | do frames survive partial sends and receives? |

What each shows, with its bounds:

**e2e_orderly.** Three users, `ada < bob < cyd`: bob and cyd ask ada for a session, so
that ada's refresher has two peers to visit in one tick; cyd types a line for ada,
and ada one for bob. Each client generates up to three keypairs, and connections
hold one frame each way, so that every thread and every handler meets a send that has
to wait. `Orderly` is that `/e2e p` is typed for an online p and once; `SlowTick` that 60 seconds
outlast an exchange. `FingerprintsMatch` is the sentence "these should match" of
phase4/README.md, wherever no exchange is under way. `AckAnswersPending` is why: an
answer meets the keypair it answers. `NoRollback` compares the keys before and after
every step: on neither end an older keypair comes back. `ExchangeCompletes` and
`LineArrives` are liveness: from the moment the receiver is past its login loop, as TLC
reaches states where that loop has dropped an INIT, whose keypair then stays pending with
nothing under way. `RotationSpec` is the refinement: the end that answers
may be ahead by one key, and the other end takes exactly that key. Three keypairs
are enough for a rekey after a rekey, which is the first case where an old
answer could meet a newer request.

The liveness properties hold *up to a jam*, and TLC reaches the jam: a receiver
thread is in the send of an answer, for which there is no room as its handler
is in a send to this very client, whose inbox is full because its receiver thread does
not read. That both have to wait takes as many frames as the connections hold,
so the program meets it only under a load that no console types; the
properties say that it is the only way in which everything can stop, but for its like
in the login: a login loop that is at the prompt again sends one more LOGIN, for which
there is no room, while its handler waits to send OK to an inbox that is full (`Jam` has
both).

**e2e_free.** Two users, two frames per connection. Crossing `/e2e`, repeated
`/e2e`, ticks in the middle of an exchange,
one quit or kill (of a login loop, too), restarts, frames to users that are gone or not
yet past their login loop, two lines from ada to bob. The keys of the two ends
need not agree there, and the code does not claim it. `KeyOwnership` does hold: a
key filed under p mixes a keypair of the holder with one of p. `ShownInOrder`: lines of a
peer come out once, in the order they were typed, across restarts; two lines can be on
their way together, as a connection holds two frames.

**server.** Three connections over two descriptors, so that a descriptor is reused
while another handler may hold its number; two users, so that a login is refused.
`RegistryExact` relates the registry to the descriptor table and the handlers;
`DescriptorsDistinct` and `NamesSpec` (Directory: a name belongs to one connection until its
client is gone) follow from the ways out of `handle_client`. `WhoListsAsker` needs
that a handler's own entry stays while it answers, whatever other handlers do.

**relay.** As `server`, with three users, the two lookups and keys.
`KeysMatchSockets` is the registry's invariant. `ReachesReceiver` fails in phase 1
(`server_fd_reuse`) and holds here: a message that reaches the wrong connection
is under another key. `InMeansNamed`: a client whose login loop has ended by an OK
is one the server has named, although the first frame it gets, which the login loop
takes for the reply, need not be the reply. Three users and three connections are
what it takes to have a sender, a receiver who leaves, and somebody else on the
descriptor.

**relay_live.** Two connections that hold one frame each way, fair; the first client
sends two frames, so that the second can find no room. `Routed`: a message to a user who is
logged in and listening is displayed. `NameFreed`: a client that is gone frees its name.
`LoginAnswered`: a login that was sent is answered, or the client learns that the
connection is gone, whatever overtakes the answer. A client need not act and the server
may end, and the properties say so. A handler can be *held up* (`HeldUp`), in a send to a
client that reads nothing because its user has not typed a name or its receiver
thread has ended; `Routed` and `NameFreed` say that nothing else holds it up.

**handshake.** Phase 2, and every deployment of files of the later phases, two connections, deaths on both sides at
every step, and one stray frame per connection (a relayed frame on a reused
descriptor). `OnlyOwner`: from phase 3 on, a key only with the certificate's owner. `HelloNext`: the
client does not look at the type of the message it takes the public key from, and
need not. `ChannelSpec` and `HandshakeEnds`: both ends open with one fresh key,
or both close.

**protocol.** Two users, one of whose names is a type word; lines of one and two
symbols with spaces, separators and type words at each place, typed for the current
peer and with `@peer`; two key exchanges at most, in the group of 11 with base 2 and
private keys of two bits. `LineShown`: a line comes out at the console it is for, in
the clear or sealed, as it was typed, and else one of the consoles says why not.
`OpaqueToServer`: with a session, the frames of a line have one word of hex in
place of the text. `FingerprintsMatch`: an exchange shows one fingerprint at both
consoles. `WhoShowsOnline`: the answer to `/who`, packed and split again, is the
registry. Two symbols are enough for a separator at the start, at the end and twice in a row; two
exchanges for a second one over the first, or one in each direction.

**framing.** Length field of two bits and payloads of every length it can say,
including the empty one and one that is longer than the connection holds with its
header; encrypted, so that `FramesArrive` also says that no frame fails to decrypt; one thread, three frames; either process may stop at any point.

Deadlock is checked in `e2e_orderly`, `e2e_free` and `protocol`. In the other runs
the system really stops: connections are used up, and a process that ended
does not come back.

Symmetry of users and connections is used only in `server` and `relay`, whose
properties are invariants and a safety refinement.

### Fairness

Users are never fair, they need not type, quit or die, with one exception: in
`E2ESession` a user whom the login loop asks again does log in again (`LoginAgain`): a client that
stays at that prompt reads nothing, and the handlers that send to it wait. The server need not accept.
Weak fairness is on what a running thread does next: a send that has been
composed, the branch of a receive whose frame is there, a step of a loop that
is not blocked. Each is continuously enabled until taken, by the thread itself
only, so weak fairness is what a scheduler that runs every thread gives. The
refresher's timer fires again and again (`RefreshTick`), as `wait_for` with 60 s does.
In `Framing` fairness is on single sends and receives of any size of at least
one byte.

## 4. Runs that show a disagreement

Each of these runs checks one sentence of the documentation and finds a behaviour of
the code against it.

| Run | What happens |
|---|---|
| `e2e_ask_again` | `/e2e` is typed again before the first is answered. `pending.emplace` (phase5/client/client.cpp:565) keeps the first keypair, and the public key of the second is sent. The two ends derive different keys with nothing under way. |
| `server_fd_reuse` | phase 1: the receiver leaves between `get_socket` and `send_frame`, a new client gets the descriptor, and displays somebody else's message. |
| `relay_abort` | phase 3: the receiver leaves between `get_socket` and `get_key`. The key is empty, the encryption throws in a detached thread, and the server ends. |
| `framing_threads` | phase 1: two handlers relay to one client, with a plain `send_frame` each (phase1/server.cpp:64). The header of one frame is followed by the header of the other, and the reader, which has the length of the first, returns bytes of the second header as a payload that nobody sent. In phases 2 to 5 the handlers, and in phase 5 the threads of a client, send on one socket in the same way (phase5/framing.cpp:97, 101): the blob that is read does not decrypt, and the reader stops (126-132; `Rejects`). |

Behaviours met while modelling that no run states, because no document
claims otherwise or because they follow from one above:

* A line encrypted under the old key that reaches the answering end of a rekey
  after it has switched does not decrypt and is lost (`Outcome` in `RecvChat`).
* A line composed before the session is stored goes out in the clear after it.
* A message relayed between `add_client` and OK is taken by the receiver's login
  loop for the reply, and dropped (`LoginDrops`; `LoginReply` in `ChatServer` and
  `SecureServer`). If it is an `__E2E_INIT__`, the keypair of the one who asked stays pending,
  and the next `/e2e` to this peer ends as in `e2e_ask_again`.
* One frame that does not decrypt ends a client's receiver thread; the main
  thread goes on (`deaf`).
* `/e2e` to a user who is not there leaves its keypair pending, and `emplace` keeps it
  at the next `/e2e` to that user: the effect of `e2e_ask_again`, without a hurry.
* Who quits and logs in again has no session; the other console goes on sealing lines
  for it, which come out as "ignored" there (`LineShown`).
* After `@ bob hi` the peer is bob, read with `>>`, and the text is what follows the
  first space: "bob hi". `Console` types no space between `@` and the name.
* In phase 5, `my_username` is the name typed last when the OK comes; after a frame
  that overtook the OK of the first login it is a name the server does not know the
  client by. Only the order of names in the refresher uses it.
* A name with a separator can log in and cannot be written to.
* When both ends type `/e2e` at once the keys they end with depend on the order of
  the relayed frames.

## 5. Theorems

| Module | Theorem | States |
|---|---|---|
| `E2ESessionProofs` | `TypeCorrect` | `Spec => []TypeOK` |
| | `KeysOwned` | `Spec => []KeyOwnership`, for any users, commands, bounds and timing |
| `KeyRotationProofs` | `FingerprintsAgree` | `AsIntended /\ Spec => []FingerprintsMatch`: who is done with an exchange has the peer's key |
| | `AnswersMeetQuestions` | `AsIntended /\ Spec => []AckAnswersPending` |
| | `KeysNeverRollBack` | `AsIntended /\ Spec => NoRollback` |
| | `ImplementsRotation` | `AsIntended /\ Spec => RotationSafety`: the clients implement `KeyRotation`, but for its fairness |
| `E2EOrderProofs` | `LinesInOrder` | `Spec => []ShownInOrder`, for any users, commands, bounds and timing |
| `ChatServerProofs` | `TypeCorrect` | `Spec => []TypeOK` |
| | `RegistryIsExact` | `Spec => []RegistryExact` |
| | `DescriptorsStayDistinct` | `Spec => []DescriptorsDistinct` |
| | `WhoShowsAsker` | `Spec => []WhoListsAsker` |
| | `ImplementsNames` | `Spec => NamesSpec`: the phase 1 server implements `Directory` |
| `SecureServerProofs` | `TypeCorrect` | `Spec => []TypeOK` |
| | `KeysStayMatched` | `Spec => []KeysMatchSockets` |
| | `MessagesReachReceiver` | `Spec => []ReachesReceiver`: who displays a message is logged in as its receiver |
| | `WhoIsInIsNamed` | `Spec => []InMeansNamed`: a client that is through its login loop has a name at the server |
| | `ImplementsNames` | `Spec => NamesSpec`: the server with keys implements `Directory` |
| `HandshakeProofs` | `TypeCorrect` | `Spec => []TypeOK` |
| | `OnlyOwnerHolds` | `Spec => []OnlyOwner`: from phase 3 on a client has a key only with the certificate's owner |
| | `HelloIsNext` | `Spec => []HelloNext`: the frame taken for the public key, unchecked, is one |
| | `ImplementsChannel` | `Spec => ChannelSpec`: the prelude implements `Channel` |
| `FramingProofs` | `TypeCorrect` | `LengthsReadBack /\ Spec => []TypeOK`, for any number of threads |
| | `FramesWhole` | `LengthsReadBack /\ Spec => []ReceivedIsPrefix`, for one sending thread |
| `ConsoleProofs` | `MessagesReadBack` | `parse_message` undoes `serialize_message`, for strings of any length |
| | `TypeCorrect` | `PlainWords /\ ListsReadBack /\ KeysAgree /\ Spec => []TypeOK` |
| | `LinesShown` | `PlainWords /\ ListsReadBack /\ Spec => []LineShown`: for any names, texts and group |
| | `LinesOpaque` | `PlainWords /\ ListsReadBack /\ Spec => []OpaqueToServer` |
| | `WhoLists` | `PlainWords /\ ListsReadBack /\ Spec => []WhoShowsOnline` |
| | `FingerprintsShown` | `PlainWords /\ ListsReadBack /\ KeysAgree /\ Spec => []FingerprintsMatch` |

The assumptions are those the modules name: bounds are naturals, `NoConn` is
no connection, names have an order, commands are pairs of users, the modulus is at
least 2. Beside them some theorems have a hypothesis:

| Hypothesis | Says | Why it is one |
|---|---|---|
| `AsIntended` | `Orderly`, `SlowTick`, nobody leaves, and `/e2e` is typed at one end of a session only | each of its four parts is needed by each of the four theorems: with two users and one part left out, TLC finds all four properties violated. `e2e_orderly` has an instance of it, `e2e_ask_again` one without `Orderly` |
| one sending thread (`\E t : Thread = {t}`) | | without it `framing_threads` mixes two frames |
| `LengthsReadBack` | `ntohl` reads what `htonl` wrote, and any bytes as a length | both are folds over the bytes: induction. TLC evaluates it for the base and header length of the run and for 4 and 4 (`MCFraming`) |
| `PlainWords` | names are words without separator or space, lines that are no command begin with neither `@` nor an `__E2E_` prefix | false of names the server accepts (hazard at phase5/protocol.cpp:46), and lines with a prefix are taken for key exchanges; TLC evaluates it for the run (`MCConsole`) |
| `ListsReadBack` | `Split` returns the names that `who_content` has joined | both are folds: induction. Evaluated by TLC in `MCConsole` |
| `KeysAgree` | private keys are numbers, no public key is 0, and the two ends of an exchange compute one secret | powers: induction. What makes it true is that the modulus is a prime; TLC evaluates it for 11 and for 13 (`MCConsole`) |

*KeysOwned.* `KeyOwnership` is not inductive: a key comes from a public key in an
inbox and a pending keypair, so both must be owned too. `IInv` is `TypeOK`,
`PublicKeysOwned` (every public key that a thread holds, that is on an uplink
or in an inbox was generated by its sender, and every pending number is one the
client has reached) and `KeyOwnership`. Two facts carry it: `gen` only grows, so
what is owned stays owned (a lemma for each part), and `Relay` is the one place where the
meaning of a frame's `peer` changes from receiver to sender. The proof has a step
per action.

*FingerprintsAgree, AnswersMeetQuestions, KeysNeverRollBack.* The invariant (`RInv`)
is about each pair of users and the exchange frames between them, wherever they
are: in the hand of a thread, on the connection of the sender or on that of the
receiver (`Under(u, p)`, in which each frame carries its place). There is at most one
(`OneExchange`, `OneDirection`). If it is an INIT, the sender has the keypair in it
pending and the two ends still agree (`Asked`); if it is an ACK, the answering end has
the key that the other end is about to make (`Answered`); if there is none, nothing is
pending and the keys agree (`Awaited`, `Agreed`), unless the INIT of a first exchange was dropped
by the login loop of the one it was for (`Lost`): then neither end has a key, and, as
nobody leaves and `Orderly` has `/e2e` typed once, neither gets one. That an ACK or the INIT of a
rekey cannot be lost in this way is `Present`: who has asked, or has a key, is past its login
loop. A refresh that is due meets no exchange
(`Due`): that is what `SlowTick` is for, and `Orderly` that a typed `/e2e` meets none
either. Each step moves a frame from a place to the next, starts an exchange, or ends
one, and a lemma says what it does to `Under`. `NotNewer` and `Older` compare the
keypairs in a key, which is why no key comes back.

*ImplementsRotation.* With `RInv` each step of the clients is the step of
`KeyRotation` that the mapping gives it: the answer at the receiver is the one step
that gives an end a new key ahead of the other, and taking the ACK gives the
other the same key.

*LinesInOrder.* A line is in one of four places: the hand of the main thread, the
connection of the sender, that of the receiver, or the receiver's console. The
invariant (`OInv`) says that each place holds the lines in the order of their
numbers (`InOrder`), that whatever is further on is earlier (`Staged`), and that
every number is one that was typed for this peer (`Meant`). A line that is lost with a
process or does not decrypt leaves its place and disturbs neither. That only the main
thread has lines in its hand (`MainChats`) is what keeps two threads of a client from
overtaking each other.

*RegistryIsExact.* An entry leads to a descriptor, a descriptor to a connection,
a connection to its name, and each of the three is changed by a different step. `IInv` is
`TypeOK`, `Owned` and `RegistryExact`. `Owned` says that an open descriptor belongs to
the handler that was started with it, that a handler which has not closed its socket
has it open, that a handler in its loop has exactly one name, and that a client which has not
connected has no handler. `DescriptorsStayDistinct` follows from `Owned`: one descriptor is open for one
connection.

*WhoShowsAsker.* The handler makes the list while its own name is registered
(`RegistryExact`). The invariant (`WhoInv`) follows the list: the handler holds it for
its own descriptor, which is open for the asker until the handler has left its loop
(`HandlersOpen`), and it lies in `down` of a connection that is past its login, so that no
later login can add a name the list lacks.

*ImplementsNames.* Under the mapping (the holder of a name is the connection that
its descriptor is open for) `LoginAccepted` is `Take`, `Leave` is `Free`, the
client's ways to end are `Go`, and every other step stutters. That `Free` is allowed
needs `LeaversGone`: a handler leaves its loop only if its client is gone,
because a client closes as it sends QUIT. That is an invariant of its own: whoever has a QUIT
in `up[c]` is gone. That closing a socket is a stutter needs
`RegistryExact`: no entry leads to a descriptor that is being closed.

*KeysStayMatched.* The argument of `RegistryIsExact`, with the key as a second way
from an entry to its connection. `Owned` has one part more, `EntriesLive`: the
handler of an entry's connection is between `add_client` and `remove_client`, so
that neither a new login nor a `close` can meet the entry of another.

*MessagesReachReceiver.* Nothing can be said of the descriptor a message is sent on:
between `GetSocket` and `Send` it may have become anybody's. The invariant
(`Sealed`) is about the key instead: every message in `out` and `down` is for the
user whose connection has the key it is under. `GetKey` establishes it, from
`KeysMatchSockets` at the moment of the *second* lookup, and no step disturbs it,
because a connection never changes its name (`NameKept`). A client displays what
decrypts under its own key, so what it displays is for its name. In `ChatServer`
there is no key to carry this over the race, and `server_fd_reuse` shows it.

*WhoIsInIsNamed.* The client believes the first frame its login loop gets. The
invariant says that an OK is made only by a handler that has named its client: every
OK in `out` and `down` under a key belongs to a connection with a name, whose
handler is past the login; so does every client that is in or deaf (`GrantsInv`, beside
`IInv`). A handler that is past the login never comes back (`LoggedInKept`).

*Handshake.* The invariant (`IInv`) is `TypeOK` and `Turns`, which relates the two
program counters of a connection to the frames between them. Each kind of frame
says where its sender and its receiver can be (`InDown`, `InUp`); no two frames
that parse are of one type; those that are past a check have met what it asks for
(`Checked`). A stray frame parses as nothing and so disturbs none of it. `HelloIsNext` is what `InDown` says
of a client at "hello". `OnlyOwnerHolds` is a part of `Checked`, and the
challenge response carries it: its signature is made with `setup.key` (`SignedWith`), so
that a client past the response knows what the server's file is.
*ImplementsChannel* maps the handler's "open" to `Channel`'s only when the client
has its key, so that `DeriveKey` is the one step `Open` at both ends; `Keys` says
that the handler has the same key by then, and has not gone, and that the key, made of this
connection's two keypairs, is no other connection's. The other steps change nothing, or close
one end.

*FramesWhole.* What is on its way is a piece of one long sequence, whatever the
sends and receives take at a time. The invariant (`PInv`) says that there is a *tape*:
it has the header and the payload of every frame the thread has begun, one after the
other (`Tape`); and what the reader has, what the connection holds, what is left of the
current `send_all` and the payload after it lie on it without a gap, up to its end
(`Places`). A partial send or receive moves a boundary between two of these (`LiesSplit`,
`LiesCat`), so the tape stays; `send_frame` makes it longer; and a whole header or
payload at the reader is, as sequences of one length at one place are equal
(`LiesUnique`), that of the frame it is up to. `Awaited` says that the length it has
read is that of this frame, by `LengthsReadBack`. What it has read whole is then a payload
that was begun, and decrypts if it is encrypted: `Rejects` is never taken.

*Console.* The invariant (`CInv`) is `Tables`, the shape of the clients' tables, and
`Progress`: for every kind of command, what is on the wire and on the consoles at each stage of
it (`LineWay`, `WhoWay`, `ExchangeWay`). Its frames are given as the message that
`parse_message` makes of them, and the lemmas before it say that this is the message
that was sent: the first separator of a string is found behind what has none
(`FirstAt`), so each of the five formats is read as it was written (`ReadsNoContent`
to `ReadsNamed`), whatever separators and type words the content has. That is
`MessagesReadBack`, proved rather than assumed, as is that `@peer text` is split into
what was typed (`DirectSplit`). The key in a session is not
said to be the peer's: `LineShown` is about what the code does when it is not, and
`Opens` is what tells the cases apart. `WhoLists` needs that a list with every name once
has as many elements as there are names (`Listed`, from the library's injections).

## 6. Only model-checked

All liveness properties (`ExchangeCompletes`, `LineArrives`, `Routed`, `NameFreed`,
`LoginAnswered`, `HandshakeEnds`, `FramesArrive`, `ReaderEnds`), and of `RotationSpec`
the fairness on the abstract side: liveness and ENABLED are outside the prover.
What the folds of `who_content`, `Split`, `htonl` and `ntohl` compute for
inputs of any length, and that exponents commute in `dhGetSecret`, needs induction over
data, which the prover cannot do here: these are the hypotheses of section 5, and TLC
evaluates them where a run depends on them.

## 7. Bounds

| Constant | Module | Bounds |
|---|---|---|
| `MaxPairs`, `MaxChats`, `MaxExits` | `E2ESession` | keypairs of a client after which it starts no exchange; lines a user types; quits and kills |
| `Room` | `E2ESession`, `SecureServer` | frames a connection holds each way: not a bound of the check but a property of the system, whose value in the code is that of the kernel's buffers |
| `MaxFd` | `ChatServer`, `SecureServer` | descriptors of the server process; `accept` waits when there is none (the code's limit is that of the process) |
| `MaxSends` | `ChatServer`, `SecureServer` | WHO and MSG frames a client sends (in `SecureServer` a number for each client); logins need no bound, as the next one takes a frame of the server first |
| `MaxInits` | `Console` | key exchanges that are asked for |
| `DH_Prime`, `DH_base`, `PrivateBits` | `DiffieHellman` | the group: in the code 2048 bits, base 2, private keys of 256 bits |
| `MaxStray` | `Handshake` | frames that arrive by mistake |
| `MaxFrames`, `Room`, `Base`, `HeaderLen` | `Framing` | frames a thread sends; bytes the connection holds; size of the length field |

Each is in the guard of the action it bounds, and the theorems hold for every value.

## 8. Not modelled

* The proxies of phases 2 and 3: demonstrations of an interception for the report,
  which are no part of the chat system and which nothing in it starts. The test programs: single
  calls, read as documentation.
* SHA-256, AES-GCM and X.509 themselves: their callers see verdicts and keys.
* Frames that no client of the repository sends ("Invalid message",
  "Login required").
* `std::bad_alloc`, failing `socket`, `bind`, `listen`: the program does not start or
  ends.
* The use of `main`'s variables by a detached receiver after `/quit`: the process is
  about to end.

## 9. Plan

1. Done: `E2ESession` with `KeyRotation`; `ChatServer` with `Directory`; `SecureServer`;
   `Handshake` with `Channel`; `Console` with `Protocol` and `DiffieHellman`; `Framing`; the
   theorems of section 5.
2. Model further: a jam as `E2ESession` has it over the byte streams of `Framing`, to see how
   much must be on the way for it; two handlers that are held up by each other's clients
   in `SecureServer` with three connections.
3. Prove further: an abstract connection that is a queue of whole frames, as the other
   modules have it, with `Framing` as its implementation (the tape of `FramesWhole` has
   the mapping); what the ends of a session still agree on when a part of
   `AsIntended` is left out, for which there is no property yet.

## 10. Running it

    tlc -config server.cfg MCChatServer        # any run: its cfg and module are in PROJECT.json
    tlapm ChatServerProofs.tla
