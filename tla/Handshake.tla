----------------------------- MODULE Handshake ------------------------------
(***************************************************************************)
(* The prelude of a connection: the client and its handler send each other *)
(* a Diffie-Hellman public key and derive the key of the connection.  In   *)
(* phases 3 to 5 the server first shows its certificate and signs the      *)
(* client's challenge (phase5/src/server/server.cpp, client/client.cpp,    *)
(* crypto/server_auth.cpp); phase 2 begins with the public keys            *)
(* (phase2/src/server/server.cpp, client/client.cpp).                      *)
(*                                                                         *)
(* The frames of the prelude are not encrypted.  The two ends take turns,  *)
(* and each closes at the first frame that is not what it expects, at a    *)
(* send or receive that fails, and when a file it needs is missing; the    *)
(* phase and the files are chosen at the start.  Other handlers of the     *)
(* server may send a relayed frame on a descriptor that this connection    *)
(* has been given meanwhile (SecureServer): such a frame is ciphertext,    *)
(* and does not parse.                                                     *)
(***************************************************************************)
EXTENDS Naturals, Sequences

CONSTANTS
  Conn,      \* connections, each with a handler and a client process
  MaxStray   \* bound: relayed frames that arrive on a connection by mistake

ASSUME BoundAssumption == MaxStray \in Nat

VARIABLES
  setup,   \* the phase and the files of the deployment
  alive,   \* whether the server process runs
  spc,     \* spc[c]: what the handler of c waits for
  cpc,     \* cpc[c]: what the client of c waits for
  up,      \* up[c]: frames from the client
  down,    \* down[c]: frames to the client
  skey,    \* skey[c]: the handler's key, {} for none
  ckey,    \* ckey[c]: the client's key
  strays   \* strays[c]: frames that arrived by mistake

vars == <<setup, alive, spc, cpc, up, down, skey, ckey, strays>>

\* auth: the server is asked to prove who it is, as it is from phase 3 on.
\* ca: ca.crt can be read.  cert: server.crt, if there is one, and what
\* verify_server_certificate finds.  key: server.key, the one of the
\* certificate, another, or one that cannot be loaded.
Setup == [auth : {FALSE}]
         \cup [auth : {TRUE}, ca : BOOLEAN,
               cert : {"missing", "untrusted", "misnamed", "valid"},
               key : {"missing", "broken", "other", "own"}]

\* A keypair of one end of c; a secret is the two pairs it comes from.
Pair == Conn \X {"client", "server"}
Frame ==
  [type : {"CERT", "unparsed"}] \cup [type : {"CHALLENGE"}, nonce : Conn]
  \cup [type : {"CHALLENGE_RESP"}, nonce : Conn, key : {"other", "own"}]
  \cup [type : {"DH_HELLO"}, pub : Pair]
Unparsed == [type |-> "unparsed"]

First(s) == IF s = <<>> THEN {} ELSE {Head(s)}

Init ==
  /\ setup \in Setup
  /\ alive = TRUE
  /\ spc = [c \in Conn |-> "none"]
  /\ cpc = [c \in Conn |-> "none"]
  /\ up = [c \in Conn |-> <<>>]
  /\ down = [c \in Conn |-> <<>>]
  /\ skey = [c \in Conn |-> {}]
  /\ ckey = [c \in Conn |-> {}]
  /\ strays = [c \in Conn |-> 0]

-----------------------------------------------------------------------------
(* The handler.                                                            *)

Accept(c) ==
  /\ alive /\ spc[c] = "none"
  /\ spc' = [spc EXCEPT ![c] = IF setup.auth THEN "load" ELSE "hello"]
  /\ cpc' = [cpc EXCEPT ![c] = IF setup.auth THEN "certificate" ELSE "greet"]
  /\ UNCHANGED <<setup, alive, up, down, skey, ckey, strays>>

HandlerCloses(c) ==
  /\ spc' = [spc EXCEPT ![c] = "closed"]
  /\ UNCHANGED <<alive, down>>

\* send_frame, then the handler goes on at next.  To a client that is gone
\* the send may still succeed, fail, or raise SIGPIPE, which ends the server.
Answers(c, f, next) ==
  \/ /\ spc' = [spc EXCEPT ![c] = next]
     /\ down' = [down EXCEPT ![c] = IF cpc[c] = "closed" THEN @ ELSE Append(@, f)]
     /\ UNCHANGED alive
  \/ cpc[c] = "closed" /\ HandlerCloses(c)
  \/ cpc[c] = "closed" /\ alive' = FALSE /\ UNCHANGED <<spc, down>>

SendCert(c) ==
  /\ alive /\ spc[c] = "load"
  /\ IF "missing" \in {setup.cert, setup.key}
       THEN HandlerCloses(c)
       ELSE Answers(c, [type |-> "CERT"], "challenge")
  /\ UNCHANGED <<setup, cpc, up, skey, ckey, strays>>

HandlerTakes(c, at, f) ==
  /\ alive /\ spc[c] = at /\ f \in First(up[c])
  /\ up' = [up EXCEPT ![c] = Tail(@)]
  /\ UNCHANGED <<setup, cpc, ckey, strays>>

\* Faulty variant: that the key could not be loaded is not noticed.
SignChallengeAnyway(c, f) ==
  /\ HandlerTakes(c, "challenge", f)
  /\ IF f.type = "CHALLENGE"
       THEN Answers(c, [type |-> "CHALLENGE_RESP", nonce |-> f.nonce, key |-> setup.key],
                    "hello")
       ELSE HandlerCloses(c)
  /\ UNCHANGED skey

\* sign_challenge signs with whatever key is in the file, and fails if it
\* cannot be loaded.
sign_challenge == setup.key # "broken"

SignChallenge(c, f) ==
  /\ HandlerTakes(c, "challenge", f)
  /\ IF f.type = "CHALLENGE" /\ sign_challenge
       THEN Answers(c, [type |-> "CHALLENGE_RESP", nonce |-> f.nonce, key |-> setup.key],
                    "hello")
       ELSE HandlerCloses(c)
  /\ UNCHANGED skey

\* Faulty variant: the secret is computed from the handler's own pair alone.
ServerHelloOwnPair(c, f) ==
  /\ HandlerTakes(c, "hello", f) /\ f.type = "DH_HELLO"
  /\ Answers(c, [type |-> "DH_HELLO", pub |-> <<c, "server">>], "open")
  /\ skey' = [skey EXCEPT ![c] = {<<c, "server">>}]
\* Faulty variant: nothing is sent back.
ServerHelloSilent(c, f) ==
  /\ HandlerTakes(c, "hello", f) /\ f.type = "DH_HELLO"
  /\ spc' = [spc EXCEPT ![c] = "open"]
  /\ skey' = [skey EXCEPT ![c] = {f.pub, <<c, "server">>}]
  /\ UNCHANGED <<alive, down>>

\* The client's public key: the server's goes back, and the key is derived.
ServerHello(c, f) ==
  /\ HandlerTakes(c, "hello", f)
  /\ IF f.type = "DH_HELLO"
       THEN /\ Answers(c, [type |-> "DH_HELLO", pub |-> <<c, "server">>], "open")
            /\ skey' = [skey EXCEPT ![c] =
                          IF spc'[c] = "open" THEN {f.pub, <<c, "server">>} ELSE @]
       ELSE HandlerCloses(c) /\ UNCHANGED skey

\* A receive fails once the client's end is closed and its frames are read.
HandlerReceiveFails(c) ==
  /\ alive /\ spc[c] \in {"challenge", "hello", "open"}
  /\ cpc[c] = "closed" /\ up[c] = <<>>
  /\ HandlerCloses(c)
  /\ UNCHANGED <<setup, cpc, up, skey, ckey, strays>>

\* The handler of another connection sends on a descriptor it looked up
\* before this connection was given it.
Stray(c) ==
  /\ alive /\ spc[c] \notin {"none", "closed"} /\ cpc[c] # "closed"
  /\ strays[c] < MaxStray
  /\ strays' = [strays EXCEPT ![c] = @ + 1]
  /\ down' = [down EXCEPT ![c] = Append(@, Unparsed)]
  /\ UNCHANGED <<setup, alive, spc, cpc, up, skey, ckey>>

\* The server is stopped.
ServerEnds ==
  /\ alive /\ alive' = FALSE
  /\ UNCHANGED <<setup, spc, cpc, up, down, skey, ckey, strays>>

Handler(c) ==
  \/ SendCert(c) \/ HandlerReceiveFails(c)
  \/ \E f \in First(up[c]) : SignChallenge(c, f) \/ ServerHello(c, f)

-----------------------------------------------------------------------------
(* The client.                                                             *)

ClientCloses(c) == cpc' = [cpc EXCEPT ![c] = "closed"] /\ UNCHANGED up

HandlerGone(c) == spc[c] = "closed" \/ ~alive

\* send_frame, then the client goes on at next; to a handler that is gone the
\* send may still succeed, or fail.
Sends(c, f, next) ==
  \/ /\ cpc' = [cpc EXCEPT ![c] = next]
     /\ up' = [up EXCEPT ![c] = IF HandlerGone(c) THEN @ ELSE Append(@, f)]
  \/ HandlerGone(c) /\ ClientCloses(c)

ClientTakes(c, at, f) ==
  /\ cpc[c] = at /\ f \in First(down[c])
  /\ down' = [down EXCEPT ![c] = Tail(@)]
  /\ UNCHANGED <<setup, alive, spc, skey, strays>>

\* Phase 2: the public key goes out unasked.
Greet(c) ==
  /\ cpc[c] = "greet"
  /\ Sends(c, [type |-> "DH_HELLO", pub |-> <<c, "client">>], "hello")
  /\ UNCHANGED <<setup, alive, spc, down, skey, ckey, strays>>

verify_server_certificate == setup.cert = "valid"

\* A challenge of the client's own, or an empty one, which does not parse, if
\* there are no random bytes.
generate_challenge(c) == {[type |-> "CHALLENGE", nonce |-> c], Unparsed}

\* The certificate is checked and a challenge sent.
SendChallenge(c, f) ==
  /\ ClientTakes(c, "certificate", f)
  /\ IF f.type = "CERT" /\ setup.ca /\ verify_server_certificate
       THEN \E g \in generate_challenge(c) : Sends(c, g, "response")
       ELSE ClientCloses(c)
  /\ UNCHANGED ckey

\* Faulty variants: a failed check of the response is reported and ignored;
\* the hello does not wait for the response.
ClientHelloUnchecked(c, f) ==
  /\ ClientTakes(c, "response", f)
  /\ IF f.type = "CHALLENGE_RESP"
       THEN Sends(c, [type |-> "DH_HELLO", pub |-> <<c, "client">>], "hello")
       ELSE ClientCloses(c)
  /\ UNCHANGED ckey
ClientHelloEarly(c, f) ==
  /\ cpc[c] = "response" /\ f \in First(down[c])
  /\ Sends(c, [type |-> "DH_HELLO", pub |-> <<c, "client">>], "hello")
  /\ UNCHANGED <<setup, alive, spc, down, skey, ckey, strays>>

\* verify_challenge_response: the signature is of this challenge and made with
\* the key of the certificate.
verify_challenge_response(c, f) == f.nonce = c /\ f.key = "own"

ClientHello(c, f) ==
  /\ ClientTakes(c, "response", f)
  /\ IF f.type = "CHALLENGE_RESP" /\ verify_challenge_response(c, f)
       THEN Sends(c, [type |-> "DH_HELLO", pub |-> <<c, "client">>], "hello")
       ELSE ClientCloses(c)
  /\ UNCHANGED ckey

\* The server's public key.  The code checks that the frame parses and not
\* what type it is of; HelloNext says that this is enough.
DeriveKey(c, f) ==
  /\ ClientTakes(c, "hello", f)
  /\ IF f.type = "DH_HELLO"
       THEN /\ ckey' = [ckey EXCEPT ![c] = {<<c, "client">>, f.pub}]
            /\ cpc' = [cpc EXCEPT ![c] = "login"]
            /\ UNCHANGED up
       ELSE ClientCloses(c) /\ UNCHANGED ckey

\* The login loop: what does not decrypt ends it.
LoginFails(c, f) ==
  /\ ClientTakes(c, "login", f)
  /\ ClientCloses(c)
  /\ UNCHANGED ckey

ConnectionLost(c) ==
  /\ cpc[c] \notin {"none", "greet", "closed"} /\ down[c] = <<>> /\ HandlerGone(c)
  /\ ClientCloses(c)
  /\ UNCHANGED <<setup, alive, spc, down, skey, ckey, strays>>

Client(c) ==
  \/ \E f \in First(down[c]) :
       SendChallenge(c, f) \/ ClientHello(c, f) \/ DeriveKey(c, f) \/ LoginFails(c, f)
  \/ Greet(c) \/ ConnectionLost(c)

Die(c) ==
  /\ cpc[c] \notin {"none", "closed"}
  /\ ClientCloses(c)
  /\ UNCHANGED <<setup, alive, spc, down, skey, ckey, strays>>

Next ==
  \/ \E c \in Conn : Accept(c) \/ Handler(c) \/ Stray(c) \/ Client(c) \/ Die(c)
  \/ ServerEnds

Spec == Init /\ [][Next]_vars

\* The threads run; the server need not accept and nobody need die.
FairSpec == Spec /\ \A c \in Conn : WF_vars(Handler(c)) /\ WF_vars(Client(c))

-----------------------------------------------------------------------------
(* Properties.                                                             *)

TypeOK ==
  /\ setup \in Setup
  /\ alive \in BOOLEAN
  /\ spc \in [Conn -> {"none", "load", "challenge", "hello", "open", "closed"}]
  /\ cpc \in [Conn -> {"none", "greet", "certificate", "response", "hello", "login", "closed"}]
  /\ up \in [Conn -> Seq(Frame)]
  /\ down \in [Conn -> Seq(Frame)]
  /\ skey \in [Conn -> SUBSET Pair]
  /\ ckey \in [Conn -> SUBSET Pair]
  /\ strays \in [Conn -> 0..MaxStray]

\* From phase 3 on a client that has a key has it from a server with a valid
\* certificate and the private key that belongs to it: neither file of a
\* mixed-up deployment is enough, whichever step finds out.
OnlyOwner ==
  \A c \in Conn : setup.auth /\ ckey[c] # {} =>
    setup.ca /\ setup.cert = "valid" /\ setup.key = "own"

\* At the step where the client takes any message that parses for the
\* server's public key, the next one that parses is that: the unchecked type
\* does no harm as long as the server answers each frame once, in turn.
HelloNext ==
  \A c \in Conn : cpc[c] = "hello" =>
    \A f \in First(down[c]) : f.type \in {"DH_HELLO", "unparsed"}

\* Both ends come to the same key or both give up, whatever frame goes astray
\* and whoever dies.
ChannelState(s) ==
  CASE s \in {"none", "closed"} -> s [] s = "login" -> "open" [] OTHER -> "handshake"
AbstractChannel == INSTANCE Channel WITH
  NoKey <- {}, Key <- {{<<c, "client">>, <<c, "server">>} : c \in Conn},
  client <- [c \in Conn |-> ChannelState(cpc[c])],
  handler <- [c \in Conn |-> IF spc[c] = "open" /\ ckey[c] # {} THEN "open"
                               ELSE ChannelState(spc[c])],
  clientKey <- ckey,
  handlerKey <- [c \in Conn |-> IF ckey[c] # {} THEN skey[c] ELSE {}]
ChannelSpec == AbstractChannel!Spec

\* No two ends wait for each other for ever: a prelude that has started
\* ends with both ends at the login or with both closed.
Ended(c) ==
  \/ spc[c] = "open" /\ cpc[c] = "login"
  \/ cpc[c] = "closed" /\ HandlerGone(c)
HandshakeEnds == \A c \in Conn : spc[c] # "none" ~> Ended(c)
=============================================================================
