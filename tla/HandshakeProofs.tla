-------------------------- MODULE HandshakeProofs ---------------------------
(***************************************************************************)
(* Proofs about Handshake, for any number of connections, any deployment   *)
(* and any number of stray frames.                                         *)
(***************************************************************************)
EXTENDS Handshake, TLAPS

USE BoundAssumption

(***************************************************************************)
(* What a queue of frames has in it.                                       *)
(***************************************************************************)
Type == {"CERT", "CHALLENGE", "CHALLENGE_RESP", "DH_HELLO", "unparsed"}

Has(s, t) == \E i \in 1..Len(s) : s[i].type = t
\* No two frames that parse are of one type.
Distinct(s) ==
  \A i, j \in 1..Len(s) : s[i].type = s[j].type /\ s[i].type # "unparsed" => i = j
\* The public keys are p, and the responses are signed with k.
PublicKey(s, p) == \A i \in 1..Len(s) : s[i].type = "DH_HELLO" => s[i].pub = p
SignedWith(s, k) == \A i \in 1..Len(s) : s[i].type = "CHALLENGE_RESP" => s[i].key = k

LEMMA FrameTypes ==
  /\ \A f \in Frame : f.type \in Type
  /\ \A f \in Frame : f.type = "CHALLENGE" => f.nonce \in Conn
  /\ \A f \in Frame : f.type = "DH_HELLO" => f.pub \in Pair
  /\ [type |-> "CERT"] \in Frame /\ Unparsed \in Frame
  /\ \A n \in Conn : [type |-> "CHALLENGE", nonce |-> n] \in Frame
  /\ \A n \in Conn : \A k \in {"other", "own"} :
       [type |-> "CHALLENGE_RESP", nonce |-> n, key |-> k] \in Frame
  /\ \A p \in Pair : [type |-> "DH_HELLO", pub |-> p] \in Frame
  BY DEF Frame, Type, Unparsed

LEMMA Empty ==
  /\ \A t \in Type : ~Has(<<>>, t)
  /\ Distinct(<<>>)
  /\ \A p \in Pair : PublicKey(<<>>, p)
  /\ \A k : SignedWith(<<>>, k)
  BY DEF Has, Distinct, PublicKey, SignedWith

LEMMA Appended ==
  ASSUME NEW s \in Seq(Frame), NEW f \in Frame
  PROVE  /\ Append(s, f) \in Seq(Frame) /\ Append(s, f) # <<>>
         /\ \A t \in Type : Has(Append(s, f), t) <=> Has(s, t) \/ f.type = t
         /\ Distinct(s) /\ (f.type = "unparsed" \/ ~Has(s, f.type)) => Distinct(Append(s, f))
         /\ \A p \in Pair : PublicKey(s, p) /\ (f.type = "DH_HELLO" => f.pub = p)
                     => PublicKey(Append(s, f), p)
         /\ \A k : SignedWith(s, k) /\ (f.type = "CHALLENGE_RESP" => f.key = k)
                     => SignedWith(Append(s, f), k)
<1> DEFINE a == Append(s, f)
<1>1. a \in Seq(Frame) /\ Len(a) = Len(s) + 1 /\ a[Len(s) + 1] = f /\ Len(s) \in Nat
      /\ \A i \in 1..Len(s) : a[i] = s[i]
  OBVIOUS
<1>2. a # <<>>
  BY <1>1
<1> HIDE DEF a
<1>3. \A i \in 1..Len(a) : i \in 1..Len(s) \/ i = Len(s) + 1
  BY <1>1
<1>4. \A i \in 1..Len(s) : i \in 1..Len(a)
  BY <1>1
<1>5. Len(s) + 1 \in 1..Len(a)
  BY <1>1
<1>6. \A t \in Type : Has(a, t) <=> Has(s, t) \/ f.type = t
  BY <1>1, <1>3, <1>4, <1>5 DEF Has
<1>7. Distinct(s) /\ (f.type = "unparsed" \/ ~Has(s, f.type)) => Distinct(a)
  BY <1>1, <1>3 DEF Distinct, Has
<1>8. \A p \in Pair : PublicKey(s, p) /\ (f.type = "DH_HELLO" => f.pub = p) => PublicKey(a, p)
  BY <1>1, <1>3 DEF PublicKey
<1>9. \A k : SignedWith(s, k) /\ (f.type = "CHALLENGE_RESP" => f.key = k) => SignedWith(a, k)
  BY <1>1, <1>3 DEF SignedWith
<1> QED BY <1>1, <1>2, <1>6, <1>7, <1>8, <1>9 DEF a

LEMMA Taken ==
  ASSUME NEW s \in Seq(Frame), NEW f \in First(s)
  PROVE  /\ f \in Frame /\ Tail(s) \in Seq(Frame)
         /\ Has(s, f.type)
         /\ \A t \in Type : Has(Tail(s), t) => Has(s, t)
         /\ Distinct(s) => Distinct(Tail(s))
         /\ Distinct(s) /\ f.type # "unparsed" => ~Has(Tail(s), f.type)
         /\ \A p \in Pair : PublicKey(s, p) =>
              PublicKey(Tail(s), p) /\ (f.type = "DH_HELLO" => f.pub = p)
         /\ \A k : SignedWith(s, k) =>
              SignedWith(Tail(s), k) /\ (f.type = "CHALLENGE_RESP" => f.key = k)
<1> DEFINE r == Tail(s)
<1>1. s # <<>> /\ f = s[1] /\ Len(s) \in Nat /\ 1 \in 1..Len(s)
  BY DEF First
<1>2. r \in Seq(Frame) /\ Len(r) = Len(s) - 1 /\ \A i \in 1..Len(r) : r[i] = s[i + 1]
  BY <1>1
<1> HIDE DEF r
<1>3. \A i \in 1..Len(r) : i + 1 \in 1..Len(s) /\ i + 1 # 1
  BY <1>1, <1>2
<1>4. f \in Frame
  BY <1>1
<1>5. Has(s, f.type)
  BY <1>1 DEF Has
<1>6. \A t \in Type : Has(r, t) => Has(s, t)
  BY <1>2, <1>3 DEF Has
<1>7. Distinct(s) => Distinct(r)
  BY <1>1, <1>2, <1>3 DEF Distinct
<1>8. Distinct(s) /\ f.type # "unparsed" => ~Has(r, f.type)
  BY <1>1, <1>2, <1>3 DEF Distinct, Has
<1>9. \A p \in Pair : PublicKey(s, p) => PublicKey(r, p) /\ (f.type = "DH_HELLO" => f.pub = p)
  BY <1>1, <1>2, <1>3 DEF PublicKey
<1>10. \A k : SignedWith(s, k) => SignedWith(r, k) /\ (f.type = "CHALLENGE_RESP" => f.key = k)
  BY <1>1, <1>2, <1>3 DEF SignedWith
<1> QED BY <1>2, <1>4, <1>5, <1>6, <1>7, <1>8, <1>9, <1>10 DEF r

(***************************************************************************)
(* The inductive invariant: whose turn it is.  A frame under way says what *)
(* its sender and its receiver wait for, which is what HelloNext is about, *)
(* and each end has asked for what it got before it went on.               *)
(***************************************************************************)
SharedKey(c) == {<<c, "client">>, <<c, "server">>}

\* Frames to a client, under the deployment u, and frames to a handler.
DownFrames(c, s, u) ==
  /\ Distinct(s) /\ ~Has(s, "CHALLENGE") /\ PublicKey(s, <<c, "server">>)
  /\ u.auth => SignedWith(s, u.key)
UpFrames(c, s) == PublicKey(s, <<c, "client">>)

Begun(c) ==
  /\ spc[c] = "none" <=> cpc[c] = "none"
  /\ spc[c] = "none" => up[c] = <<>> /\ down[c] = <<>>
\* What the files were found to be, by those that are past the check.
Checked(c) ==
  /\ spc[c] \in {"load", "challenge"} => setup.auth
  /\ cpc[c] = "greet" => ~setup.auth
  /\ spc[c] = "challenge" => setup.key # "missing"
  /\ setup.auth /\ (cpc[c] \in {"response", "hello", "login"} \/ ckey[c] # {}) =>
       setup.ca /\ setup.cert = "valid"
  /\ setup.auth /\ (cpc[c] \in {"hello", "login"} \/ ckey[c] # {}) => setup.key = "own"
InDown(c) ==
  /\ DownFrames(c, down[c], setup)
  /\ Has(down[c], "CERT") =>
       cpc[c] \in {"certificate", "closed"} /\ spc[c] # "load"
  /\ Has(down[c], "CHALLENGE_RESP") =>
       cpc[c] \in {"response", "closed"} /\ spc[c] \in {"hello", "open", "closed"}
  /\ Has(down[c], "DH_HELLO") =>
       cpc[c] \in {"hello", "closed"} /\ spc[c] \in {"open", "closed"}
       /\ (cpc[c] = "hello" => spc[c] = "open")
InUp(c) ==
  /\ UpFrames(c, up[c])
  /\ cpc[c] \in {"greet", "certificate"} => up[c] = <<>>
  /\ cpc[c] = "greet" => spc[c] \in {"hello", "closed"}
  /\ spc[c] = "load" => cpc[c] \in {"certificate", "closed"} /\ up[c] = <<>>
  /\ Has(up[c], "CHALLENGE") /\ spc[c] = "challenge" => cpc[c] \in {"response", "closed"}
  /\ Has(up[c], "DH_HELLO") => spc[c] \in {"hello", "open", "closed"}
  /\ Has(up[c], "DH_HELLO") /\ spc[c] = "hello" => cpc[c] \in {"hello", "closed"}
Keys(c) ==
  /\ spc[c] = "open" => skey[c] = SharedKey(c)
  /\ ckey[c] # {} => /\ ckey[c] = SharedKey(c) /\ skey[c] = SharedKey(c)
                     /\ spc[c] \in {"open", "closed"} /\ cpc[c] \in {"login", "closed"}
  /\ spc[c] = "open" /\ ckey[c] = {} => cpc[c] # "login"

Turns(c) == Begun(c) /\ Checked(c) /\ InDown(c) /\ InUp(c) /\ Keys(c)
IInv == TypeOK /\ \A c \in Conn : Turns(c)

(***************************************************************************)
(* The actions of the system, by name, and what they leave alone.          *)
(***************************************************************************)
Step(c) ==
  \/ Accept(c) \/ SendCert(c) \/ HandlerReceiveFails(c) \/ Stray(c)
  \/ \E f \in First(up[c]) : SignChallenge(c, f) \/ ServerHello(c, f)
  \/ \E f \in First(down[c]) :
       SendChallenge(c, f) \/ ClientHello(c, f) \/ DeriveKey(c, f) \/ LoginFails(c, f)
  \/ Greet(c) \/ ConnectionLost(c) \/ Die(c)

LEMMA NextSteps == Next => ServerEnds \/ \E c \in Conn : Step(c)
  BY DEF Next, Step, Handler, Client

SameAt(d) ==
  /\ spc'[d] = spc[d] /\ cpc'[d] = cpc[d] /\ up'[d] = up[d] /\ down'[d] = down[d]
  /\ skey'[d] = skey[d] /\ ckey'[d] = ckey[d]

LEMMA SameTurns ==
  ASSUME NEW d \in Conn, Turns(d), setup' = setup, SameAt(d)
  PROVE  Turns(d)'
  BY DEF Turns, Begun, Checked, InDown, InUp, Keys, SameAt

LEMMA AnswersLocal ==
  ASSUME TypeOK, NEW c \in Conn, NEW d \in Conn \ {c}, NEW f \in Frame, NEW next,
         Answers(c, f, next)
  PROVE  spc'[d] = spc[d] /\ down'[d] = down[d]
  BY DEF Answers, HandlerCloses, TypeOK

LEMMA SendsLocal ==
  ASSUME TypeOK, NEW c \in Conn, NEW d \in Conn \ {c}, NEW f \in Frame, NEW next,
         Sends(c, f, next)
  PROVE  cpc'[d] = cpc[d] /\ up'[d] = up[d]
  BY DEF Sends, ClientCloses, TypeOK

\* What an answer does: it is sent, or it fails and the handler closes, or it
\* ends the server; only a client that is gone can make it fail.
LEMMA AnswersCases ==
  ASSUME TypeOK, NEW c \in Conn, NEW f, NEW next, Answers(c, f, next)
  PROVE  /\ alive' \in BOOLEAN
         /\ spc'[c] \in {next, "closed", spc[c]}
         /\ down'[c] \in {Append(down[c], f), down[c]}
         /\ cpc[c] # "closed" => spc'[c] = next /\ down'[c] = Append(down[c], f)
         /\ cpc[c] = "closed" => down'[c] = down[c]
  BY DEF Answers, HandlerCloses, TypeOK

LEMMA SendsCases ==
  ASSUME TypeOK, NEW c \in Conn, NEW f, NEW next, Sends(c, f, next)
  PROVE  /\ cpc'[c] \in {next, "closed"}
         /\ up'[c] \in {Append(up[c], f), up[c]}
  BY DEF Sends, ClientCloses, TypeOK

LEMMA AnswersTyped ==
  ASSUME TypeOK, NEW c \in Conn, NEW f \in Frame, NEW next \in {"challenge", "hello", "open"},
         Answers(c, f, next)
  PROVE  /\ alive' \in BOOLEAN
         /\ spc' \in [Conn -> {"none", "load", "challenge", "hello", "open", "closed"}]
         /\ down' \in [Conn -> Seq(Frame)]
<1>1. down[c] \in Seq(Frame) /\ Append(down[c], f) \in Seq(Frame)
  BY DEF TypeOK
<1> QED BY <1>1 DEF Answers, HandlerCloses, TypeOK

LEMMA SendsTyped ==
  ASSUME TypeOK, NEW c \in Conn, NEW f \in Frame, NEW next \in {"response", "hello"},
         Sends(c, f, next)
  PROVE  /\ cpc' \in [Conn -> {"none", "greet", "certificate", "response", "hello", "login",
                               "closed"}]
         /\ up' \in [Conn -> Seq(Frame)]
<1>1. up[c] \in Seq(Frame) /\ Append(up[c], f) \in Seq(Frame)
  BY DEF TypeOK
<1> QED BY <1>1 DEF Sends, ClientCloses, TypeOK

LEMMA HandlerTakesTyped ==
  ASSUME TypeOK, NEW c \in Conn, NEW at, NEW f, HandlerTakes(c, at, f)
  PROVE  f \in Frame /\ f \in First(up[c]) /\ up' \in [Conn -> Seq(Frame)]
<1>1. up[c] \in Seq(Frame) /\ f \in First(up[c])
  BY DEF TypeOK, HandlerTakes
<1>2. f \in Frame /\ Tail(up[c]) \in Seq(Frame)
  BY <1>1, Taken
<1> QED BY <1>1, <1>2 DEF HandlerTakes, TypeOK

LEMMA ClientTakesTyped ==
  ASSUME TypeOK, NEW c \in Conn, NEW at, NEW f, ClientTakes(c, at, f)
  PROVE  f \in Frame /\ f \in First(down[c]) /\ down' \in [Conn -> Seq(Frame)]
<1>1. down[c] \in Seq(Frame) /\ f \in First(down[c])
  BY DEF TypeOK, ClientTakes
<1>2. f \in Frame /\ Tail(down[c]) \in Seq(Frame)
  BY <1>1, Taken
<1> QED BY <1>1, <1>2 DEF ClientTakes, TypeOK

\* What the handler signs with when it can.
LEMMA SignedTyped ==
  ASSUME TypeOK, NEW c \in Conn, Turns(c), spc[c] = "challenge", sign_challenge
  PROVE  setup.auth /\ setup.key \in {"other", "own"}
<1>1. setup.auth /\ setup.key # "missing" /\ setup.key # "broken"
  BY DEF Turns, Checked, sign_challenge
<1>2. setup.key \in {"missing", "broken", "other", "own"}
  BY <1>1 DEF TypeOK, Setup
<1> QED BY <1>1, <1>2

(***************************************************************************)
(* Type correctness and locality.                                          *)
(***************************************************************************)
LEMMA StepTypeOK ==
  ASSUME TypeOK, NEW c \in Conn, Turns(c), Step(c)
  PROVE  TypeOK'
<1>p. <<c, "client">> \in Pair /\ <<c, "server">> \in Pair
  BY DEF Pair
<1>1. CASE Accept(c)
  BY <1>1 DEF Accept, TypeOK
<1>2. CASE SendCert(c)
  <2>1. CASE "missing" \in {setup.cert, setup.key}
    BY <1>2, <2>1 DEF SendCert, HandlerCloses, TypeOK
  <2>2. CASE "missing" \notin {setup.cert, setup.key}
    <3>1. Answers(c, [type |-> "CERT"], "challenge")
      BY <1>2, <2>2 DEF SendCert
    <3>2. /\ alive' \in BOOLEAN
          /\ spc' \in [Conn -> {"none", "load", "challenge", "hello", "open", "closed"}]
          /\ down' \in [Conn -> Seq(Frame)]
      BY <3>1, FrameTypes, AnswersTyped
    <3> QED BY <1>2, <3>2 DEF SendCert, TypeOK
  <2> QED BY <2>1, <2>2
<1>3. CASE HandlerReceiveFails(c)
  BY <1>3 DEF HandlerReceiveFails, HandlerCloses, TypeOK
<1>4. CASE Stray(c)
  <2>1. down[c] \in Seq(Frame) /\ Append(down[c], Unparsed) \in Seq(Frame)
    BY FrameTypes DEF TypeOK
  <2>2. strays[c] \in 0..MaxStray /\ strays[c] < MaxStray => strays[c] + 1 \in 0..MaxStray
    BY DEF TypeOK
  <2> QED BY <1>4, <2>1, <2>2 DEF Stray, TypeOK
<1>5. ASSUME NEW f, SignChallenge(c, f) PROVE TypeOK'
  <2>1. f \in Frame /\ up' \in [Conn -> Seq(Frame)] /\ spc[c] = "challenge"
    BY <1>5, HandlerTakesTyped DEF SignChallenge, HandlerTakes
  <2>2. CASE f.type = "CHALLENGE" /\ sign_challenge
    <3>1. [type |-> "CHALLENGE_RESP", nonce |-> f.nonce, key |-> setup.key] \in Frame
      BY <2>1, <2>2, FrameTypes, SignedTyped
    <3>2. /\ alive' \in BOOLEAN
          /\ spc' \in [Conn -> {"none", "load", "challenge", "hello", "open", "closed"}]
          /\ down' \in [Conn -> Seq(Frame)]
      BY <1>5, <2>2, <3>1, AnswersTyped DEF SignChallenge
    <3> QED BY <1>5, <2>1, <3>2 DEF SignChallenge, HandlerTakes, TypeOK
  <2>3. CASE ~(f.type = "CHALLENGE" /\ sign_challenge)
    BY <1>5, <2>1, <2>3 DEF SignChallenge, HandlerTakes, HandlerCloses, TypeOK
  <2> QED BY <2>2, <2>3
<1>6. ASSUME NEW f, ServerHello(c, f) PROVE TypeOK'
  <2>1. f \in Frame /\ up' \in [Conn -> Seq(Frame)]
    BY <1>6, HandlerTakesTyped DEF ServerHello
  <2>2. CASE f.type = "DH_HELLO"
    <3>1. [type |-> "DH_HELLO", pub |-> <<c, "server">>] \in Frame /\ f.pub \in Pair
      BY <1>p, <2>1, <2>2, FrameTypes
    <3>2. /\ alive' \in BOOLEAN
          /\ spc' \in [Conn -> {"none", "load", "challenge", "hello", "open", "closed"}]
          /\ down' \in [Conn -> Seq(Frame)]
      BY <1>6, <2>2, <3>1, AnswersTyped DEF ServerHello
    <3>3. {f.pub, <<c, "server">>} \in SUBSET Pair
      BY <1>p, <3>1
    <3>4. skey' \in [Conn -> SUBSET Pair]
      BY <1>6, <2>2, <3>3 DEF ServerHello, TypeOK
    <3> QED BY <1>6, <2>1, <3>2, <3>4 DEF ServerHello, HandlerTakes, TypeOK
  <2>3. CASE f.type # "DH_HELLO"
    BY <1>6, <2>1, <2>3 DEF ServerHello, HandlerTakes, HandlerCloses, TypeOK
  <2> QED BY <2>2, <2>3
<1>7. ASSUME NEW f, SendChallenge(c, f) PROVE TypeOK'
  <2>1. f \in Frame /\ down' \in [Conn -> Seq(Frame)]
    BY <1>7, ClientTakesTyped DEF SendChallenge
  <2>2. ASSUME NEW g \in generate_challenge(c), Sends(c, g, "response") PROVE TypeOK'
    <3>1. g \in Frame
      BY FrameTypes DEF generate_challenge
    <3> QED BY <1>7, <2>1, <2>2, <3>1, SendsTyped DEF SendChallenge, ClientTakes, TypeOK
  <2>3. CASE ClientCloses(c)
    BY <1>7, <2>1, <2>3 DEF SendChallenge, ClientTakes, ClientCloses, TypeOK
  <2> QED BY <1>7, <2>2, <2>3 DEF SendChallenge
<1>8. ASSUME NEW f, ClientHello(c, f) PROVE TypeOK'
  <2>1. f \in Frame /\ down' \in [Conn -> Seq(Frame)]
    BY <1>8, ClientTakesTyped DEF ClientHello
  <2>2. CASE Sends(c, [type |-> "DH_HELLO", pub |-> <<c, "client">>], "hello")
    <3>1. [type |-> "DH_HELLO", pub |-> <<c, "client">>] \in Frame
      BY <1>p, FrameTypes
    <3> QED BY <1>8, <2>1, <2>2, <3>1, SendsTyped DEF ClientHello, ClientTakes, TypeOK
  <2>3. CASE ClientCloses(c)
    BY <1>8, <2>1, <2>3 DEF ClientHello, ClientTakes, ClientCloses, TypeOK
  <2> QED BY <1>8, <2>2, <2>3 DEF ClientHello
<1>9. ASSUME NEW f, DeriveKey(c, f) PROVE TypeOK'
  <2>1. f \in Frame /\ down' \in [Conn -> Seq(Frame)]
    BY <1>9, ClientTakesTyped DEF DeriveKey
  <2>2. CASE f.type = "DH_HELLO"
    <3>1. {<<c, "client">>, f.pub} \in SUBSET Pair
      BY <1>p, <2>1, <2>2, FrameTypes
    <3>2. ckey' \in [Conn -> SUBSET Pair]
      BY <1>9, <2>2, <3>1 DEF DeriveKey, TypeOK
    <3> QED BY <1>9, <2>1, <2>2, <3>2 DEF DeriveKey, ClientTakes, TypeOK
  <2>3. CASE f.type # "DH_HELLO"
    BY <1>9, <2>1, <2>3 DEF DeriveKey, ClientTakes, ClientCloses, TypeOK
  <2> QED BY <2>2, <2>3
<1>10. ASSUME NEW f, LoginFails(c, f) PROVE TypeOK'
  <2>1. down' \in [Conn -> Seq(Frame)]
    BY <1>10, ClientTakesTyped DEF LoginFails
  <2> QED BY <1>10, <2>1 DEF LoginFails, ClientTakes, ClientCloses, TypeOK
<1>11. CASE Greet(c)
  <2>1. [type |-> "DH_HELLO", pub |-> <<c, "client">>] \in Frame
    BY <1>p, FrameTypes
  <2> QED BY <1>11, <2>1, SendsTyped DEF Greet, TypeOK
<1>12. CASE ConnectionLost(c)
  BY <1>12 DEF ConnectionLost, ClientCloses, TypeOK
<1>13. CASE Die(c)
  BY <1>13 DEF Die, ClientCloses, TypeOK
<1> QED
  BY <1>1, <1>2, <1>3, <1>4, <1>5, <1>6, <1>7, <1>8, <1>9, <1>10, <1>11, <1>12, <1>13 DEF Step

\* A step of one connection leaves the others and the deployment as they are.
LEMMA StepLocal ==
  ASSUME TypeOK, NEW c \in Conn, Turns(c), Step(c), NEW d \in Conn \ {c}
  PROVE  setup' = setup /\ SameAt(d)
<1>p. <<c, "client">> \in Pair /\ <<c, "server">> \in Pair
  BY DEF Pair
<1>1. CASE Accept(c)
  BY <1>1 DEF Accept, TypeOK, SameAt
<1>2. CASE SendCert(c)
  BY <1>2, AnswersLocal, FrameTypes DEF SendCert, HandlerCloses, TypeOK, SameAt
<1>3. CASE HandlerReceiveFails(c)
  BY <1>3 DEF HandlerReceiveFails, HandlerCloses, TypeOK, SameAt
<1>4. CASE Stray(c)
  BY <1>4 DEF Stray, TypeOK, SameAt
<1>5. ASSUME NEW f, SignChallenge(c, f) PROVE setup' = setup /\ SameAt(d)
  <2>1. f \in Frame /\ spc[c] = "challenge"
    BY <1>5, HandlerTakesTyped DEF SignChallenge, HandlerTakes
  <2>2. f.type = "CHALLENGE" /\ sign_challenge =>
          [type |-> "CHALLENGE_RESP", nonce |-> f.nonce, key |-> setup.key] \in Frame
    BY <2>1, FrameTypes, SignedTyped
  <2>3. spc'[d] = spc[d] /\ down'[d] = down[d]
    BY <1>5, <2>2, AnswersLocal DEF SignChallenge, HandlerCloses, TypeOK
  <2> QED BY <1>5, <2>3 DEF SignChallenge, HandlerTakes, TypeOK, SameAt
<1>6. ASSUME NEW f, ServerHello(c, f) PROVE setup' = setup /\ SameAt(d)
  <2>1. [type |-> "DH_HELLO", pub |-> <<c, "server">>] \in Frame
    BY <1>p, FrameTypes
  <2>2. spc'[d] = spc[d] /\ down'[d] = down[d] /\ skey'[d] = skey[d]
    BY <1>6, <2>1, AnswersLocal DEF ServerHello, HandlerCloses, TypeOK
  <2> QED BY <1>6, <2>2 DEF ServerHello, HandlerTakes, TypeOK, SameAt
<1>7. ASSUME NEW f, SendChallenge(c, f) PROVE setup' = setup /\ SameAt(d)
  <2>1. \A g \in generate_challenge(c) : g \in Frame
    BY FrameTypes DEF generate_challenge
  <2>2. cpc'[d] = cpc[d] /\ up'[d] = up[d]
    BY <1>7, <2>1, SendsLocal DEF SendChallenge, ClientCloses, TypeOK
  <2> QED BY <1>7, <2>2 DEF SendChallenge, ClientTakes, TypeOK, SameAt
<1>8. ASSUME NEW f, ClientHello(c, f) PROVE setup' = setup /\ SameAt(d)
  <2>1. [type |-> "DH_HELLO", pub |-> <<c, "client">>] \in Frame
    BY <1>p, FrameTypes
  <2>2. cpc'[d] = cpc[d] /\ up'[d] = up[d]
    BY <1>8, <2>1, SendsLocal DEF ClientHello, ClientCloses, TypeOK
  <2> QED BY <1>8, <2>2 DEF ClientHello, ClientTakes, TypeOK, SameAt
<1>9. ASSUME NEW f, DeriveKey(c, f) PROVE setup' = setup /\ SameAt(d)
  BY <1>9 DEF DeriveKey, ClientTakes, ClientCloses, TypeOK, SameAt
<1>10. ASSUME NEW f, LoginFails(c, f) PROVE setup' = setup /\ SameAt(d)
  BY <1>10 DEF LoginFails, ClientTakes, ClientCloses, TypeOK, SameAt
<1>11. CASE Greet(c)
  <2>1. [type |-> "DH_HELLO", pub |-> <<c, "client">>] \in Frame
    BY <1>p, FrameTypes
  <2>2. cpc'[d] = cpc[d] /\ up'[d] = up[d]
    BY <1>11, <2>1, SendsLocal DEF Greet
  <2> QED BY <1>11, <2>2 DEF Greet, SameAt
<1>12. CASE ConnectionLost(c)
  BY <1>12 DEF ConnectionLost, ClientCloses, TypeOK, SameAt
<1>13. CASE Die(c)
  BY <1>13 DEF Die, ClientCloses, TypeOK, SameAt
<1> QED
  BY <1>1, <1>2, <1>3, <1>4, <1>5, <1>6, <1>7, <1>8, <1>9, <1>10, <1>11, <1>12, <1>13 DEF Step

(***************************************************************************)
(* The turns are kept.                                                     *)
(***************************************************************************)
\* The queues when a frame is sent in its turn, or is not because the other
\* end is gone, and when one is taken.
LEMMA DownSent ==
  ASSUME NEW c \in Conn, NEW u, NEW s \in Seq(Frame), NEW f \in Frame,
         NEW r \in {Append(s, f), s}, DownFrames(c, s, u), f.type # "CHALLENGE",
         f.type = "unparsed" \/ ~Has(s, f.type),
         f.type = "DH_HELLO" => f.pub = <<c, "server">>,
         f.type = "CHALLENGE_RESP" /\ u.auth => f.key = u.key
  PROVE  DownFrames(c, r, u) /\ \A t \in Type : Has(r, t) => Has(s, t) \/ f.type = t
<1> DEFINE p == <<c, "server">>
<1>1. p \in Pair /\ "CHALLENGE" \in Type
  BY DEF Pair, Type
<1>2. DownFrames(c, s, u) <=> Distinct(s) /\ ~Has(s, "CHALLENGE") /\ PublicKey(s, p)
                             /\ (u.auth => SignedWith(s, u.key))
  BY DEF DownFrames
<1>3. DownFrames(c, r, u) <=> Distinct(r) /\ ~Has(r, "CHALLENGE") /\ PublicKey(r, p)
                             /\ (u.auth => SignedWith(r, u.key))
  BY DEF DownFrames
<1> HIDE DEF p
<1>4. f.type = "DH_HELLO" => f.pub = p
  BY DEF p
<1>5. CASE r = s
  BY <1>5
<1>6. CASE r = Append(s, f)
  <2>1. PublicKey(r, p) /\ Distinct(r)
    BY <1>1, <1>2, <1>4, <1>6, Appended
  <2>2. u.auth => SignedWith(r, u.key)
    BY <1>2, <1>6, Appended
  <2>3. \A t \in Type : Has(r, t) => Has(s, t) \/ f.type = t
    BY <1>6, Appended
  <2> QED BY <1>1, <1>2, <1>3, <2>1, <2>2, <2>3
<1> QED BY <1>5, <1>6

LEMMA UpSent ==
  ASSUME NEW c \in Conn, NEW s \in Seq(Frame), NEW f \in Frame,
         NEW r \in {Append(s, f), s}, UpFrames(c, s),
         f.type = "DH_HELLO" => f.pub = <<c, "client">>
  PROVE  UpFrames(c, r) /\ \A t \in Type : Has(r, t) => Has(s, t) \/ f.type = t
<1> DEFINE p == <<c, "client">>
<1>1. p \in Pair
  BY DEF Pair
<1>2. (UpFrames(c, s) <=> PublicKey(s, p)) /\ (UpFrames(c, r) <=> PublicKey(r, p))
  BY DEF UpFrames
<1> HIDE DEF p
<1>3. f.type = "DH_HELLO" => f.pub = p
  BY DEF p
<1> QED BY <1>1, <1>2, <1>3, Appended

LEMMA DownTaken ==
  ASSUME NEW c \in Conn, NEW u, NEW s \in Seq(Frame), NEW f \in First(s), DownFrames(c, s, u)
  PROVE  /\ DownFrames(c, Tail(s), u) /\ Has(s, f.type) /\ f \in Frame
         /\ \A t \in Type : Has(Tail(s), t) => Has(s, t)
         /\ f.type # "unparsed" => ~Has(Tail(s), f.type)
         /\ f.type # "CHALLENGE"
         /\ f.type = "DH_HELLO" => f.pub = <<c, "server">>
         /\ f.type = "CHALLENGE_RESP" /\ u.auth => f.key = u.key
<1> DEFINE p == <<c, "server">>
            r == Tail(s)
<1>1. p \in Pair /\ "CHALLENGE" \in Type
  BY DEF Pair, Type
<1>2. DownFrames(c, s, u) <=> Distinct(s) /\ ~Has(s, "CHALLENGE") /\ PublicKey(s, p)
                             /\ (u.auth => SignedWith(s, u.key))
  BY DEF DownFrames
<1>3. DownFrames(c, r, u) <=> Distinct(r) /\ ~Has(r, "CHALLENGE") /\ PublicKey(r, p)
                             /\ (u.auth => SignedWith(r, u.key))
  BY DEF DownFrames
<1> HIDE DEF p
<1>4. PublicKey(r, p) /\ (f.type = "DH_HELLO" => f.pub = p)
  BY <1>1, <1>2, Taken
<1>5. u.auth => SignedWith(r, u.key) /\ (f.type = "CHALLENGE_RESP" => f.key = u.key)
  BY <1>2, Taken
<1>6. /\ f \in Frame /\ Has(s, f.type) /\ Distinct(r)
      /\ \A t \in Type : Has(r, t) => Has(s, t)
      /\ f.type # "unparsed" => ~Has(r, f.type)
  BY <1>2, Taken
<1>7. f.type # "CHALLENGE" /\ ~Has(r, "CHALLENGE")
  BY <1>1, <1>2, <1>6
<1> QED BY <1>3, <1>4, <1>5, <1>6, <1>7 DEF p

LEMMA UpTaken ==
  ASSUME NEW c \in Conn, NEW s \in Seq(Frame), NEW f \in First(s), UpFrames(c, s)
  PROVE  /\ UpFrames(c, Tail(s)) /\ Has(s, f.type) /\ f \in Frame
         /\ \A t \in Type : Has(Tail(s), t) => Has(s, t)
         /\ f.type = "DH_HELLO" => f.pub = <<c, "client">>
<1> DEFINE p == <<c, "client">>
            r == Tail(s)
<1>1. p \in Pair
  BY DEF Pair
<1>2. (UpFrames(c, s) <=> PublicKey(s, p)) /\ (UpFrames(c, r) <=> PublicKey(r, p))
  BY DEF UpFrames
<1> HIDE DEF p
<1>3. PublicKey(r, p) /\ (f.type = "DH_HELLO" => f.pub = p)
  BY <1>1, <1>2, Taken
<1>4. f \in Frame /\ Has(s, f.type) /\ \A t \in Type : Has(r, t) => Has(s, t)
  BY Taken
<1> QED BY <1>2, <1>3, <1>4 DEF p

LEMMA NoFrames ==
  ASSUME NEW c \in Conn, NEW u
  PROVE  DownFrames(c, <<>>, u) /\ UpFrames(c, <<>>) /\ \A t \in Type : ~Has(<<>>, t)
<1>1. "CHALLENGE" \in Type /\ <<c, "client">> \in Pair /\ <<c, "server">> \in Pair
  BY DEF Pair, Type
<1>2. PublicKey(<<>>, <<c, "client">>) /\ PublicKey(<<>>, <<c, "server">>)
  BY DEF PublicKey
<1> QED BY <1>1, <1>2, Empty DEF DownFrames, UpFrames

\* The frame a client takes, and what it leaves.
LEMMA HeadOfDown ==
  ASSUME TypeOK, NEW c \in Conn, InDown(c), NEW f \in First(down[c])
  PROVE  /\ DownFrames(c, Tail(down[c]), setup) /\ Has(down[c], f.type) /\ f \in Frame
         /\ \A t \in Type : Has(Tail(down[c]), t) => Has(down[c], t)
         /\ f.type # "unparsed" => ~Has(Tail(down[c]), f.type)
         /\ f.type # "CHALLENGE"
         /\ f.type = "DH_HELLO" => f.pub = <<c, "server">>
         /\ f.type = "CHALLENGE_RESP" /\ setup.auth => f.key = setup.key
<1> DEFINE s == down[c]
<1>1. s \in Seq(Frame) /\ DownFrames(c, s, setup) /\ f \in First(s)
  BY DEF TypeOK, InDown
<1> HIDE DEF s
<1>2. /\ DownFrames(c, Tail(s), setup) /\ Has(s, f.type) /\ f \in Frame
      /\ \A t \in Type : Has(Tail(s), t) => Has(s, t)
      /\ f.type # "unparsed" => ~Has(Tail(s), f.type)
      /\ f.type # "CHALLENGE"
      /\ f.type = "DH_HELLO" => f.pub = <<c, "server">>
      /\ f.type = "CHALLENGE_RESP" /\ setup.auth => f.key = setup.key
  BY <1>1, DownTaken
<1> QED BY <1>2 DEF s

LEMMA StepTurns ==
  ASSUME TypeOK, NEW c \in Conn, Turns(c), Step(c)
  PROVE  Turns(c)'
<1>t. /\ "CERT" \in Type /\ "CHALLENGE" \in Type /\ "CHALLENGE_RESP" \in Type
      /\ "DH_HELLO" \in Type /\ "unparsed" \in Type
      /\ up[c] \in Seq(Frame) /\ down[c] \in Seq(Frame)
  BY DEF Type, TypeOK
<1>i. Begun(c) /\ Checked(c) /\ InDown(c) /\ InUp(c) /\ Keys(c)
  BY DEF Turns
<1>p. <<c, "client">> \in Pair /\ <<c, "server">> \in Pair
  BY DEF Pair
<1>1. CASE Accept(c)
  <2>1. /\ up[c] = <<>> /\ down[c] = <<>> /\ spc[c] = "none" /\ cpc[c] = "none"
        /\ ckey[c] = {} /\ setup.auth \in BOOLEAN
    BY <1>1, <1>i DEF Accept, Begun, Keys, TypeOK, Setup
  <2>2. /\ setup' = setup /\ up'[c] = <<>> /\ down'[c] = <<>> /\ ckey'[c] = {}
        /\ setup.auth => spc'[c] = "load" /\ cpc'[c] = "certificate"
        /\ ~setup.auth => spc'[c] = "hello" /\ cpc'[c] = "greet"
    BY <1>1, <2>1 DEF Accept, TypeOK
  <2>3. Begun(c)' /\ Checked(c)'
    BY <2>1, <2>2 DEF Begun, Checked
  <2>4. InDown(c)' /\ InUp(c)' /\ Keys(c)'
    BY <1>t, <2>1, <2>2, NoFrames DEF InDown, InUp, Keys
  <2> QED BY <2>3, <2>4 DEF Turns
<1>2. CASE SendCert(c)
  <2>1. /\ setup' = setup /\ cpc'[c] = cpc[c] /\ up'[c] = up[c] /\ ckey'[c] = ckey[c]
        /\ skey'[c] = skey[c] /\ spc[c] = "load" /\ up[c] = <<>> /\ setup.auth
        /\ cpc[c] \in {"certificate", "closed"} /\ ckey[c] = {}
        /\ ~Has(down[c], "CERT") /\ ~Has(down[c], "CHALLENGE_RESP")
        /\ ~Has(down[c], "DH_HELLO")
    BY <1>2, <1>i DEF SendCert, InUp, InDown, Keys, Checked
  <2> DEFINE g == [type |-> "CERT"]
  <2>2. g \in Frame /\ g.type = "CERT"
    BY FrameTypes
  <2>3. /\ down'[c] \in {Append(down[c], g), down[c]}
        /\ spc'[c] \in {"load", "challenge", "closed"}
        /\ spc'[c] = "challenge" => setup.key # "missing"
        /\ spc'[c] = "load" => down'[c] = down[c]
    <3>1. CASE "missing" \in {setup.cert, setup.key}
      BY <1>2, <3>1 DEF SendCert, HandlerCloses, TypeOK
    <3>2. CASE "missing" \notin {setup.cert, setup.key}
      <4>1. Answers(c, g, "challenge") /\ setup.key # "missing"
        BY <1>2, <3>2 DEF SendCert
      <4> HIDE DEF g
      <4> QED BY <4>1, <2>1, AnswersCases
    <3> QED BY <3>1, <3>2
  <2> HIDE DEF g
  <2>4. Begun(c)' /\ Checked(c)'
    BY <1>i, <2>1, <2>3 DEF Begun, Checked
  <2>5. /\ DownFrames(c, down'[c], setup)
        /\ \A t \in Type : Has(down'[c], t) => Has(down[c], t) \/ t = "CERT"
    <3>1. /\ g.type \notin {"CHALLENGE", "DH_HELLO", "CHALLENGE_RESP"}
          /\ ~Has(down[c], g.type)
      BY <2>1, <2>2
    <3>2. DownFrames(c, down[c], setup)
      BY <1>i DEF InDown
    <3>3. /\ DownFrames(c, down'[c], setup)
          /\ \A t \in Type : Has(down'[c], t) => Has(down[c], t) \/ g.type = t
      <4>1. CASE down'[c] = Append(down[c], g)
        BY <1>t, <2>2, <3>1, <3>2, <4>1, DownSent
      <4>2. CASE down'[c] = down[c]
        BY <3>2, <4>2
      <4> QED BY <2>3, <4>1, <4>2
    <3> QED BY <2>2, <3>3
  <2>6. Has(down'[c], "CERT") => spc'[c] # "load"
    BY <2>1, <2>3
  <2>7. InDown(c)'
    BY <1>t, <2>1, <2>5, <2>6 DEF InDown
  <2>8. InUp(c)' /\ Keys(c)'
    BY <1>i, <1>t, <2>1, <2>3, NoFrames DEF InUp, Keys
  <2> QED BY <2>4, <2>7, <2>8 DEF Turns
<1>3. CASE HandlerReceiveFails(c)
  <2>1. /\ setup' = setup /\ cpc'[c] = "closed" /\ cpc[c] = "closed" /\ up'[c] = up[c]
        /\ up[c] = <<>> /\ down'[c] = down[c] /\ ckey'[c] = ckey[c] /\ skey'[c] = skey[c]
        /\ spc'[c] = "closed"
    BY <1>3 DEF HandlerReceiveFails, HandlerCloses, TypeOK
  <2>2. Begun(c)' /\ Checked(c)' /\ InDown(c)'
    BY <1>i, <2>1 DEF Begun, Checked, InDown
  <2>3. InUp(c)' /\ Keys(c)'
    BY <1>i, <1>t, <2>1, NoFrames DEF InUp, Keys
  <2> QED BY <2>2, <2>3 DEF Turns
<1>4. CASE Stray(c)
  <2>1. /\ setup' = setup /\ cpc'[c] = cpc[c] /\ spc'[c] = spc[c] /\ up'[c] = up[c]
        /\ down'[c] = Append(down[c], Unparsed) /\ ckey'[c] = ckey[c] /\ skey'[c] = skey[c]
        /\ spc[c] # "none"
    BY <1>4 DEF Stray, TypeOK
  <2>2. Unparsed \in Frame /\ Unparsed.type = "unparsed"
    BY FrameTypes DEF Unparsed
  <2>3. Begun(c)' /\ Checked(c)' /\ InUp(c)'
    BY <1>i, <2>1 DEF Begun, Checked, InUp
  <2>4. InDown(c)' /\ Keys(c)'
    <3>1. DownFrames(c, down'[c], setup)
          /\ \A t \in Type : Has(down'[c], t) => Has(down[c], t) \/ t = "unparsed"
      BY <1>i, <1>t, <2>1, <2>2, DownSent DEF InDown
    <3> QED BY <1>i, <1>t, <2>1, <3>1 DEF InDown, Keys
  <2> QED BY <2>3, <2>4 DEF Turns
<1>5. ASSUME NEW f \in First(up[c]), SignChallenge(c, f) PROVE Turns(c)'
  <2>1. /\ setup' = setup /\ cpc'[c] = cpc[c] /\ up'[c] = Tail(up[c]) /\ ckey'[c] = ckey[c]
        /\ skey'[c] = skey[c] /\ spc[c] = "challenge" /\ up[c] # <<>>
    BY <1>5 DEF SignChallenge, HandlerTakes, TypeOK, First
  <2>2. /\ f \in Frame /\ UpFrames(c, up'[c]) /\ Has(up[c], f.type)
        /\ \A t \in Type : Has(up'[c], t) => Has(up[c], t)
    BY <1>i, <1>t, <2>1, UpTaken DEF InUp
  <2>3. /\ DownFrames(c, down[c], setup) /\ ckey[c] = {} /\ ~Has(up[c], "DH_HELLO")
        /\ ~Has(down[c], "CHALLENGE_RESP") /\ ~Has(down[c], "DH_HELLO")
        /\ Has(down[c], "CERT") => cpc[c] \in {"certificate", "closed"}
        /\ cpc[c] \notin {"none", "greet", "certificate"}
    BY <1>i, <2>1 DEF InDown, InUp, Keys, Begun
  <2>4. CASE f.type = "CHALLENGE" /\ sign_challenge
    <3> DEFINE g == [type |-> "CHALLENGE_RESP", nonce |-> f.nonce, key |-> setup.key]
    <3>1. /\ g \in Frame /\ g.type = "CHALLENGE_RESP" /\ g.key = setup.key
      BY <2>1, <2>2, <2>4, FrameTypes, SignedTyped
    <3>2. Answers(c, g, "hello")
      BY <1>5, <2>4 DEF SignChallenge
    <3> HIDE DEF g
    <3>3. /\ down'[c] \in {Append(down[c], g), down[c]}
          /\ spc'[c] \in {"challenge", "hello", "closed"}
          /\ cpc[c] = "closed" => down'[c] = down[c]
          /\ cpc[c] # "closed" => spc'[c] = "hello"
      BY <2>1, <3>2, AnswersCases
    <3>4. /\ DownFrames(c, down'[c], setup)
          /\ \A t \in Type : Has(down'[c], t) => Has(down[c], t) \/ g.type = t
      <4>1. CASE down'[c] = Append(down[c], g)
        <5>1. g.type \notin {"CHALLENGE", "DH_HELLO"} /\ ~Has(down[c], g.type)
          BY <2>3, <3>1
        <5> QED BY <1>t, <2>3, <3>1, <4>1, <5>1, DownSent
      <4>2. CASE down'[c] = down[c]
        BY <2>3, <4>2
      <4> QED BY <3>3, <4>1, <4>2
    <3>5. cpc[c] \in {"response", "closed"}
      BY <1>i, <2>1, <2>2, <2>4 DEF InUp
    <3>6. Begun(c)' /\ Checked(c)' /\ Keys(c)'
      BY <1>i, <2>1, <2>3, <3>3 DEF Begun, Checked, Keys
    <3>7. InUp(c)'
      BY <1>t, <2>1, <2>2, <2>3, <3>3, <3>5 DEF InUp
    <3>8. ~Has(down'[c], "DH_HELLO") /\ (Has(down'[c], "CERT") => Has(down[c], "CERT"))
      BY <1>t, <2>3, <3>1, <3>4
    <3>9. Has(down'[c], "CHALLENGE_RESP") => cpc[c] = "response" /\ spc'[c] = "hello"
      BY <1>t, <2>3, <3>3, <3>5
    <3>10. InDown(c)'
      BY <2>1, <2>3, <3>3, <3>4, <3>8, <3>9 DEF InDown
    <3> QED BY <3>6, <3>7, <3>10 DEF Turns
  <2>5. CASE ~(f.type = "CHALLENGE" /\ sign_challenge)
    <3>1. spc'[c] = "closed" /\ down'[c] = down[c]
      BY <1>5, <2>5 DEF SignChallenge, HandlerCloses, TypeOK
    <3>2. Begun(c)' /\ Checked(c)' /\ Keys(c)'
      BY <1>i, <2>1, <2>3, <3>1 DEF Begun, Checked, Keys
    <3>3. InUp(c)' /\ InDown(c)'
      BY <1>t, <2>1, <2>2, <2>3, <3>1 DEF InUp, InDown
    <3> QED BY <3>2, <3>3 DEF Turns
  <2> QED BY <2>4, <2>5
<1>6. ASSUME NEW f \in First(up[c]), ServerHello(c, f) PROVE Turns(c)'
  <2>1. /\ setup' = setup /\ cpc'[c] = cpc[c] /\ up'[c] = Tail(up[c]) /\ ckey'[c] = ckey[c]
        /\ spc[c] = "hello" /\ up[c] # <<>>
    BY <1>6 DEF ServerHello, HandlerTakes, TypeOK, First
  <2>2. /\ f \in Frame /\ UpFrames(c, up'[c]) /\ Has(up[c], f.type)
        /\ f.type = "DH_HELLO" => f.pub = <<c, "client">>
        /\ \A t \in Type : Has(up'[c], t) => Has(up[c], t)
    BY <1>i, <1>t, <2>1, UpTaken DEF InUp
  <2>3. /\ DownFrames(c, down[c], setup) /\ ckey[c] = {} /\ ~Has(down[c], "DH_HELLO")
        /\ Has(down[c], "CERT") => cpc[c] \in {"certificate", "closed"}
        /\ Has(down[c], "CHALLENGE_RESP") => cpc[c] \in {"response", "closed"}
        /\ cpc[c] \notin {"none", "greet", "certificate"}
    BY <1>i, <2>1 DEF InDown, InUp, Keys, Begun
  <2>4. CASE f.type = "DH_HELLO"
    <3> DEFINE g == [type |-> "DH_HELLO", pub |-> <<c, "server">>]
    <3>1. g \in Frame /\ g.type = "DH_HELLO" /\ g.pub = <<c, "server">>
      BY <1>p, FrameTypes
    <3>2. Answers(c, g, "open")
      BY <1>6, <2>4 DEF ServerHello
    <3> HIDE DEF g
    <3>3. /\ down'[c] \in {Append(down[c], g), down[c]}
          /\ spc'[c] \in {"hello", "open", "closed"}
          /\ cpc[c] = "closed" => down'[c] = down[c]
          /\ cpc[c] # "closed" => spc'[c] = "open"
      BY <2>1, <3>2, AnswersCases
    <3>4. /\ DownFrames(c, down'[c], setup)
          /\ \A t \in Type : Has(down'[c], t) => Has(down[c], t) \/ g.type = t
      <4>1. CASE down'[c] = Append(down[c], g)
        <5>1. g.type \notin {"CHALLENGE", "CHALLENGE_RESP"} /\ ~Has(down[c], g.type)
          BY <2>3, <3>1
        <5> QED BY <1>t, <2>3, <3>1, <4>1, <5>1, DownSent
      <4>2. CASE down'[c] = down[c]
        BY <2>3, <4>2
      <4> QED BY <3>3, <4>1, <4>2
    <3>5. cpc[c] \in {"hello", "closed"}
      BY <1>i, <2>1, <2>2, <2>4 DEF InUp
    <3>6. spc'[c] = "open" => skey'[c] = SharedKey(c)
      BY <1>6, <2>2, <2>4 DEF ServerHello, SharedKey, TypeOK
    <3>7. Begun(c)' /\ Checked(c)' /\ Keys(c)'
      BY <1>i, <2>1, <2>3, <3>3, <3>5, <3>6 DEF Begun, Checked, Keys
    <3>8. InUp(c)'
      BY <1>t, <2>1, <2>2, <2>3, <3>3, <3>5 DEF InUp
    <3>9. /\ Has(down'[c], "CHALLENGE_RESP") => Has(down[c], "CHALLENGE_RESP")
          /\ Has(down'[c], "CERT") => Has(down[c], "CERT")
      BY <1>t, <3>1, <3>4
    <3>10. Has(down'[c], "DH_HELLO") => cpc[c] = "hello" /\ spc'[c] = "open"
      BY <1>t, <2>3, <3>3, <3>5
    <3>11. InDown(c)'
      BY <2>1, <2>3, <3>3, <3>4, <3>9, <3>10 DEF InDown
    <3> QED BY <3>7, <3>8, <3>11 DEF Turns
  <2>5. CASE f.type # "DH_HELLO"
    <3>1. spc'[c] = "closed" /\ down'[c] = down[c] /\ skey'[c] = skey[c]
      BY <1>6, <2>5 DEF ServerHello, HandlerCloses, TypeOK
    <3>2. Begun(c)' /\ Checked(c)' /\ Keys(c)'
      BY <1>i, <2>1, <2>3, <3>1 DEF Begun, Checked, Keys
    <3>3. InUp(c)' /\ InDown(c)'
      BY <1>t, <2>1, <2>2, <2>3, <3>1 DEF InUp, InDown
    <3> QED BY <3>2, <3>3 DEF Turns
  <2> QED BY <2>4, <2>5
<1>7. ASSUME NEW f \in First(down[c]), SendChallenge(c, f) PROVE Turns(c)'
  <2>1. /\ setup' = setup /\ spc'[c] = spc[c] /\ down'[c] = Tail(down[c])
        /\ ckey'[c] = ckey[c] /\ skey'[c] = skey[c]
        /\ cpc[c] = "certificate" /\ up[c] = <<>> /\ down[c] # <<>>
    BY <1>7, <1>i DEF SendChallenge, ClientTakes, TypeOK, First, InUp
  <2>2. /\ DownFrames(c, down'[c], setup) /\ Has(down[c], f.type)
        /\ \A t \in Type : Has(down'[c], t) => Has(down[c], t)
        /\ f.type # "unparsed" => ~Has(down'[c], f.type)
    BY <1>i, <2>1, HeadOfDown
  <2>3. /\ ckey[c] = {} /\ ~Has(down'[c], "CHALLENGE_RESP") /\ ~Has(down'[c], "DH_HELLO")
        /\ Has(down'[c], "CERT") => spc[c] # "load"
        /\ spc[c] # "none"
    BY <1>i, <1>t, <2>1, <2>2 DEF InDown, Keys, Begun
  <2>4. CASE f.type = "CERT" /\ setup.ca /\ verify_server_certificate
    <3>1. PICK g \in generate_challenge(c) : Sends(c, g, "response")
      BY <1>7, <2>4 DEF SendChallenge
    <3>2. g \in Frame /\ g.type \in {"CHALLENGE", "unparsed"}
      BY FrameTypes DEF generate_challenge, Unparsed
    <3>3. /\ cpc'[c] \in {"response", "closed"}
          /\ up'[c] \in {Append(up[c], g), up[c]}
      BY <3>1, SendsCases
    <3>4. /\ UpFrames(c, up'[c]) /\ ~Has(up'[c], "DH_HELLO")
      <4>1. ~Has(up[c], "DH_HELLO") /\ UpFrames(c, up[c])
        BY <1>t, <2>1, NoFrames
      <4>2. CASE up'[c] = Append(up[c], g)
        BY <1>t, <3>2, <4>1, <4>2, UpSent
      <4>3. CASE up'[c] = up[c]
        BY <4>1, <4>3
      <4> QED BY <3>3, <4>2, <4>3
    <3>5. ~Has(down'[c], "CERT") /\ setup.ca /\ setup.cert = "valid" /\ spc[c] # "load"
      BY <1>i, <2>2, <2>4 DEF verify_server_certificate, InDown
    <3>6. Begun(c)' /\ Checked(c)' /\ Keys(c)'
      BY <1>i, <2>1, <2>3, <3>3, <3>5 DEF Begun, Checked, Keys
    <3>7. InUp(c)' /\ InDown(c)'
      BY <2>1, <2>2, <2>3, <3>3, <3>4, <3>5 DEF InUp, InDown
    <3> QED BY <3>6, <3>7 DEF Turns
  <2>5. CASE ClientCloses(c)
    <3>1. cpc'[c] = "closed" /\ up'[c] = <<>>
      BY <2>1, <2>5 DEF ClientCloses, TypeOK
    <3>2. Begun(c)' /\ Checked(c)' /\ Keys(c)'
      BY <1>i, <2>1, <2>3, <3>1 DEF Begun, Checked, Keys
    <3>3. InUp(c)' /\ InDown(c)'
      BY <1>t, <2>1, <2>2, <2>3, <3>1, NoFrames DEF InUp, InDown
    <3> QED BY <3>2, <3>3 DEF Turns
  <2> QED BY <1>7, <2>4, <2>5 DEF SendChallenge
<1>8. ASSUME NEW f \in First(down[c]), ClientHello(c, f) PROVE Turns(c)'
  <2>1. /\ setup' = setup /\ spc'[c] = spc[c] /\ down'[c] = Tail(down[c])
        /\ ckey'[c] = ckey[c] /\ skey'[c] = skey[c]
        /\ cpc[c] = "response" /\ down[c] # <<>>
    BY <1>8 DEF ClientHello, ClientTakes, TypeOK, First
  <2>2. /\ DownFrames(c, down'[c], setup) /\ Has(down[c], f.type)
        /\ \A t \in Type : Has(down'[c], t) => Has(down[c], t)
        /\ f.type # "unparsed" => ~Has(down'[c], f.type)
        /\ f.type = "CHALLENGE_RESP" /\ setup.auth => f.key = setup.key
    BY <1>i, <2>1, HeadOfDown
  <2>3. /\ ckey[c] = {} /\ ~Has(down'[c], "CERT") /\ ~Has(down'[c], "DH_HELLO")
        /\ Has(down'[c], "CHALLENGE_RESP") => spc[c] \in {"hello", "open", "closed"}
        /\ spc[c] \notin {"none", "load"} /\ UpFrames(c, up[c])
    BY <1>i, <1>t, <2>1, <2>2 DEF InDown, InUp, Keys, Begun
  <2>4. CASE f.type = "CHALLENGE_RESP" /\ verify_challenge_response(c, f)
    <3> DEFINE g == [type |-> "DH_HELLO", pub |-> <<c, "client">>]
    <3>1. g \in Frame /\ g.type = "DH_HELLO" /\ g.pub = <<c, "client">>
      BY <1>p, FrameTypes
    <3>2. Sends(c, g, "hello")
      BY <1>8, <2>4 DEF ClientHello
    <3> HIDE DEF g
    <3>3. /\ cpc'[c] \in {"hello", "closed"}
          /\ up'[c] \in {Append(up[c], g), up[c]}
      BY <3>2, SendsCases
    <3>4. UpFrames(c, up'[c])
      <4>1. CASE up'[c] = Append(up[c], g)
        BY <1>t, <2>3, <3>1, <4>1, UpSent
      <4>2. CASE up'[c] = up[c]
        BY <2>3, <4>2
      <4> QED BY <3>3, <4>1, <4>2
    <3>5. /\ ~Has(down'[c], "CHALLENGE_RESP") /\ spc[c] \in {"hello", "open", "closed"}
          /\ setup.auth => setup.key = "own"
      BY <1>i, <2>2, <2>4 DEF verify_challenge_response, InDown
    <3>6. Begun(c)' /\ Checked(c)' /\ Keys(c)'
      BY <1>i, <2>1, <2>3, <3>3, <3>5 DEF Begun, Checked, Keys
    <3>7. InUp(c)' /\ InDown(c)'
      BY <2>1, <2>2, <2>3, <3>3, <3>4, <3>5 DEF InUp, InDown
    <3> QED BY <3>6, <3>7 DEF Turns
  <2>5. CASE ClientCloses(c)
    <3>1. cpc'[c] = "closed" /\ up'[c] = up[c]
      BY <2>5 DEF ClientCloses, TypeOK
    <3>2. Begun(c)' /\ Checked(c)' /\ Keys(c)'
      BY <1>i, <2>1, <2>3, <3>1 DEF Begun, Checked, Keys
    <3>3. InUp(c)' /\ InDown(c)'
      BY <1>i, <1>t, <2>1, <2>2, <2>3, <3>1 DEF InUp, InDown
    <3> QED BY <3>2, <3>3 DEF Turns
  <2> QED BY <1>8, <2>4, <2>5 DEF ClientHello
<1>9. ASSUME NEW f \in First(down[c]), DeriveKey(c, f) PROVE Turns(c)'
  <2>1. /\ setup' = setup /\ spc'[c] = spc[c] /\ down'[c] = Tail(down[c])
        /\ skey'[c] = skey[c] /\ up'[c] = up[c] /\ cpc[c] = "hello" /\ down[c] # <<>>
        /\ cpc'[c] \in {"login", "closed"}
        /\ f.type = "DH_HELLO" => cpc'[c] = "login" /\ ckey'[c] = {<<c, "client">>, f.pub}
        /\ f.type # "DH_HELLO" => cpc'[c] = "closed" /\ ckey'[c] = ckey[c]
    BY <1>9 DEF DeriveKey, ClientTakes, ClientCloses, TypeOK, First
  <2>2. /\ DownFrames(c, down'[c], setup) /\ Has(down[c], f.type)
        /\ \A t \in Type : Has(down'[c], t) => Has(down[c], t)
        /\ f.type # "unparsed" => ~Has(down'[c], f.type)
        /\ f.type = "DH_HELLO" => f.pub = <<c, "server">>
    BY <1>i, <2>1, HeadOfDown
  <2>3. /\ ckey[c] = {} /\ ~Has(down'[c], "CERT") /\ ~Has(down'[c], "CHALLENGE_RESP")
        /\ Has(down'[c], "DH_HELLO") => spc[c] = "open"
        /\ spc[c] \notin {"none", "load"} /\ UpFrames(c, up[c])
    BY <1>i, <1>t, <2>1, <2>2 DEF InDown, InUp, Keys, Begun
  <2>4. CASE f.type = "DH_HELLO"
    <3>1. /\ ~Has(down'[c], "DH_HELLO") /\ spc[c] = "open" /\ ckey'[c] = SharedKey(c)
      BY <1>i, <2>1, <2>2, <2>4 DEF InDown, SharedKey
    <3>2. Begun(c)' /\ Checked(c)' /\ Keys(c)'
      BY <1>i, <2>1, <2>3, <2>4, <3>1 DEF Begun, Checked, Keys
    <3>3. InUp(c)' /\ InDown(c)'
      BY <2>1, <2>2, <2>3, <3>1 DEF InUp, InDown
    <3> QED BY <3>2, <3>3 DEF Turns
  <2>5. CASE f.type # "DH_HELLO"
    <3>1. Begun(c)' /\ Checked(c)' /\ Keys(c)'
      BY <1>i, <2>1, <2>3, <2>5 DEF Begun, Checked, Keys
    <3>2. InUp(c)' /\ InDown(c)'
      BY <1>i, <2>1, <2>2, <2>3, <2>5 DEF InUp, InDown
    <3> QED BY <3>1, <3>2 DEF Turns
  <2> QED BY <2>4, <2>5
<1>10. ASSUME NEW f \in First(down[c]), LoginFails(c, f) PROVE Turns(c)'
  <2>1. /\ setup' = setup /\ spc'[c] = spc[c] /\ down'[c] = Tail(down[c])
        /\ skey'[c] = skey[c] /\ ckey'[c] = ckey[c] /\ up'[c] = up[c]
        /\ cpc[c] = "login" /\ cpc'[c] = "closed"
    BY <1>10 DEF LoginFails, ClientTakes, ClientCloses, TypeOK
  <2>2. DownFrames(c, down'[c], setup) /\ \A t \in Type : Has(down'[c], t) => Has(down[c], t)
    BY <1>i, <2>1, HeadOfDown
  <2>3. Begun(c)' /\ Checked(c)' /\ Keys(c)'
    BY <1>i, <2>1 DEF Begun, Checked, Keys
  <2>4. InUp(c)' /\ InDown(c)'
    BY <1>i, <1>t, <2>1, <2>2 DEF InUp, InDown
  <2> QED BY <2>3, <2>4 DEF Turns
<1>11. CASE Greet(c)
  <2>1. /\ setup' = setup /\ spc'[c] = spc[c] /\ down'[c] = down[c]
        /\ skey'[c] = skey[c] /\ ckey'[c] = ckey[c] /\ cpc[c] = "greet" /\ ckey[c] = {}
        /\ up[c] = <<>> /\ spc[c] \in {"hello", "closed"} /\ ~setup.auth
    BY <1>11, <1>i DEF Greet, TypeOK, InUp, Checked, Keys
  <2> DEFINE g == [type |-> "DH_HELLO", pub |-> <<c, "client">>]
  <2>2. g \in Frame /\ g.type = "DH_HELLO" /\ g.pub = <<c, "client">>
    BY <1>p, FrameTypes
  <2>3. Sends(c, g, "hello")
    BY <1>11 DEF Greet
  <2> HIDE DEF g
  <2>4. cpc'[c] \in {"hello", "closed"} /\ up'[c] \in {Append(up[c], g), up[c]}
    BY <2>3, SendsCases
  <2>5. UpFrames(c, up'[c])
    <3>1. UpFrames(c, up[c])
      BY <1>i DEF InUp
    <3>2. CASE up'[c] = Append(up[c], g)
      BY <1>t, <2>2, <3>1, <3>2, UpSent
    <3>3. CASE up'[c] = up[c]
      BY <3>1, <3>3
    <3> QED BY <2>4, <3>2, <3>3
  <2>6. Begun(c)' /\ Checked(c)' /\ Keys(c)'
    BY <1>i, <2>1, <2>4 DEF Begun, Checked, Keys
  <2>7. InUp(c)' /\ InDown(c)'
    BY <1>i, <2>1, <2>4, <2>5 DEF InUp, InDown
  <2> QED BY <2>6, <2>7 DEF Turns
<1>12. CASE ConnectionLost(c) \/ Die(c)
  <2>1. /\ setup' = setup /\ spc'[c] = spc[c] /\ down'[c] = down[c] /\ up'[c] = up[c]
        /\ skey'[c] = skey[c] /\ ckey'[c] = ckey[c] /\ cpc'[c] = "closed"
        /\ cpc[c] \notin {"none", "closed"}
    BY <1>12 DEF ConnectionLost, Die, ClientCloses, TypeOK
  <2>2. Begun(c)' /\ Checked(c)' /\ Keys(c)'
    BY <1>i, <2>1 DEF Begun, Checked, Keys
  <2>3. InUp(c)' /\ InDown(c)'
    BY <1>i, <2>1 DEF InUp, InDown
  <2> QED BY <2>2, <2>3 DEF Turns
<1> QED
  BY <1>1, <1>2, <1>3, <1>4, <1>5, <1>6, <1>7, <1>8, <1>9, <1>10, <1>11, <1>12 DEF Step

(***************************************************************************)
(* The invariant holds in every reachable state.                           *)
(***************************************************************************)
LEMMA InitIInv == Init => IInv
<1> SUFFICES ASSUME Init PROVE IInv
  OBVIOUS
<1>1. TypeOK
  BY DEF Init, TypeOK
<1>2. ASSUME NEW c \in Conn PROVE Turns(c)
  <2>1. /\ spc[c] = "none" /\ cpc[c] = "none" /\ up[c] = <<>> /\ down[c] = <<>>
        /\ ckey[c] = {}
    BY DEF Init
  <2>2. Begun(c) /\ Checked(c) /\ Keys(c)
    BY <2>1 DEF Begun, Checked, Keys
  <2>3. "CERT" \in Type /\ "CHALLENGE" \in Type /\ "CHALLENGE_RESP" \in Type /\ "DH_HELLO" \in Type
    BY DEF Type
  <2>4. InDown(c) /\ InUp(c)
    BY <2>1, <2>3, NoFrames DEF InDown, InUp
  <2> QED BY <2>2, <2>4 DEF Turns
<1> QED BY <1>1, <1>2 DEF IInv

LEMMA NextIInv == IInv /\ [Next]_vars => IInv'
<1> SUFFICES ASSUME IInv, [Next]_vars PROVE IInv'
  OBVIOUS
<1>1. TypeOK /\ \A c \in Conn : Turns(c)
  BY DEF IInv
<1>2. ASSUME NEW c \in Conn, Step(c) PROVE IInv'
  <2>1. TypeOK'
    BY <1>1, <1>2, StepTypeOK
  <2>2. Turns(c)'
    BY <1>1, <1>2, StepTurns
  <2>3. ASSUME NEW d \in Conn \ {c} PROVE Turns(d)'
    BY <1>1, <1>2, StepLocal, SameTurns
  <2> QED BY <2>1, <2>2, <2>3 DEF IInv
<1>3. CASE ServerEnds
  <2>1. TypeOK'
    BY <1>1, <1>3 DEF ServerEnds, TypeOK
  <2>2. setup' = setup /\ \A d \in Conn : SameAt(d)
    BY <1>3 DEF ServerEnds, SameAt
  <2> QED BY <1>1, <2>1, <2>2, SameTurns DEF IInv
<1>4. CASE UNCHANGED vars
  <2>1. TypeOK'
    BY <1>1, <1>4 DEF vars, TypeOK
  <2>2. setup' = setup /\ \A d \in Conn : SameAt(d)
    BY <1>4 DEF vars, SameAt
  <2> QED BY <1>1, <2>1, <2>2, SameTurns DEF IInv
<1> QED BY <1>2, <1>3, <1>4, NextSteps

THEOREM Invariance == Spec => []IInv
BY InitIInv, NextIInv, PTL DEF Spec

\* The ends, the queues and the keys are of their types.
THEOREM TypeCorrect == Spec => []TypeOK
<1>1. IInv => TypeOK
  BY DEF IInv
<1> QED BY <1>1, Invariance, PTL

\* From phase 3 on, a client that has derived a key has checked a valid
\* certificate and a signature made with the private key that belongs to it
\* (phase5/src/client/client.cpp, the steps before the login), however many
\* connections there are and whatever frames go astray.
THEOREM OnlyOwnerHolds == Spec => []OnlyOwner
<1>1. IInv => OnlyOwner
  BY DEF IInv, Turns, Checked, OnlyOwner
<1> QED BY <1>1, Invariance, PTL

\* Where the client does not check the type of the frame it takes for the
\* server's public key, the next frame that parses is that key: nothing else
\* is under way to a client that has sent its own.
THEOREM HelloIsNext == Spec => []HelloNext
<1>1. IInv => HelloNext
  <2> SUFFICES ASSUME IInv, NEW c \in Conn, cpc[c] = "hello", NEW f \in First(down[c])
               PROVE  f.type \in {"DH_HELLO", "unparsed"}
    BY DEF HelloNext
  <2>1. TypeOK /\ InDown(c)
    BY DEF IInv, Turns
  <2>2. f \in Frame /\ Has(down[c], f.type) /\ f.type # "CHALLENGE"
    BY <2>1, HeadOfDown
  <2>3. f.type \in Type
    BY <2>2, FrameTypes
  <2>4. f.type \notin {"CERT", "CHALLENGE_RESP"}
    BY <2>1, <2>2 DEF InDown
  <2> QED BY <2>2, <2>3, <2>4 DEF Type
<1> QED BY <1>1, Invariance, PTL

(***************************************************************************)
(* The handshake implements Channel.                                       *)
(***************************************************************************)
ClientState(c) == ChannelState(cpc[c])
HandlerState(c) == IF spc[c] = "open" /\ ckey[c] # {} THEN "open" ELSE ChannelState(spc[c])
HandlerKey(c) == IF ckey[c] # {} THEN skey[c] ELSE {}

ClientMap == [c \in Conn |-> ClientState(c)]
HandlerMap == [c \in Conn |-> HandlerState(c)]
HandlerKeyMap == [c \in Conn |-> HandlerKey(c)]

\* The state of a connection as Channel has it.
SameChannel(c) ==
  /\ ClientState(c)' = ClientState(c) /\ HandlerState(c)' = HandlerState(c)
  /\ ckey'[c] = ckey[c] /\ HandlerKey(c)' = HandlerKey(c)

LEMMA ChannelStates ==
  /\ ChannelState("none") = "none" /\ ChannelState("closed") = "closed"
  /\ ChannelState("login") = "open"
  /\ \A s \in {"load", "greet", "certificate", "challenge", "response", "hello", "open"} :
       ChannelState(s) = "handshake"
  BY DEF ChannelState

LEMMA SameAtChannel ==
  ASSUME NEW d \in Conn, SameAt(d)
  PROVE  SameChannel(d)
  BY DEF SameAt, SameChannel, ClientState, HandlerState, HandlerKey, ChannelState

\* How a step of one connection looks in Channel.
LEMMA MapStep ==
  ASSUME TypeOK, TypeOK', NEW c \in Conn, \A d \in Conn \ {c} : SameChannel(d)
  PROVE  /\ SameChannel(c) => UNCHANGED <<ClientMap, HandlerMap, ckey, HandlerKeyMap>>
         /\ (/\ ClientState(c) = "none" /\ HandlerState(c) = "none"
             /\ ClientState(c)' = "handshake" /\ HandlerState(c)' = "handshake"
             /\ ckey'[c] = ckey[c] /\ HandlerKey(c)' = HandlerKey(c))
              => AbstractChannel!Connect(c)
         /\ (/\ ClientState(c) \in {"handshake", "open"} /\ ClientState(c)' = "closed"
             /\ HandlerState(c)' = HandlerState(c)
             /\ ckey'[c] = ckey[c] /\ HandlerKey(c)' = HandlerKey(c))
              => AbstractChannel!ClientCloses(c)
         /\ (/\ \/ HandlerState(c) = "handshake"
                \/ HandlerState(c) = "open" /\ ClientState(c) = "closed"
             /\ HandlerState(c)' = "closed" /\ ClientState(c)' = ClientState(c)
             /\ ckey'[c] = ckey[c] /\ HandlerKey(c)' = HandlerKey(c))
              => AbstractChannel!HandlerCloses(c)
<1>1. /\ \A d \in Conn : d # c =>
           /\ ClientState(d)' = ClientState(d) /\ HandlerState(d)' = HandlerState(d)
           /\ ckey'[d] = ckey[d] /\ HandlerKey(d)' = HandlerKey(d)
      /\ ckey = [d \in Conn |-> ckey[d]] /\ ckey' = [d \in Conn |-> ckey'[d]]
  BY DEF SameChannel, TypeOK
<1>2. SameChannel(c) => UNCHANGED <<ClientMap, HandlerMap, ckey, HandlerKeyMap>>
  BY <1>1 DEF SameChannel, ClientMap, HandlerMap, HandlerKeyMap
<1>3. ckey'[c] = ckey[c] => ckey' = ckey
  BY <1>1
<1>4. HandlerKey(c)' = HandlerKey(c) => HandlerKeyMap' = HandlerKeyMap
  BY <1>1 DEF HandlerKeyMap
<1>5. ClientState(c)' = ClientState(c) => ClientMap' = ClientMap
  BY <1>1 DEF ClientMap
<1>6. HandlerState(c)' = HandlerState(c) => HandlerMap' = HandlerMap
  BY <1>1 DEF HandlerMap
<1>7. ClientMap' = [ClientMap EXCEPT ![c] = ClientState(c)']
  BY <1>1 DEF ClientMap
<1>8. HandlerMap' = [HandlerMap EXCEPT ![c] = HandlerState(c)']
  BY <1>1 DEF HandlerMap
<1>9. ClientMap[c] = ClientState(c) /\ HandlerMap[c] = HandlerState(c)
  BY DEF ClientMap, HandlerMap
<1>c. /\ AbstractChannel!Connect(c) <=>
           /\ ClientMap[c] = "none" /\ HandlerMap[c] = "none"
           /\ ClientMap' = [ClientMap EXCEPT ![c] = "handshake"]
           /\ HandlerMap' = [HandlerMap EXCEPT ![c] = "handshake"]
           /\ ckey' = ckey /\ HandlerKeyMap' = HandlerKeyMap
      /\ AbstractChannel!ClientCloses(c) <=>
           /\ ClientMap[c] \in {"handshake", "open"}
           /\ ClientMap' = [ClientMap EXCEPT ![c] = "closed"]
           /\ HandlerMap' = HandlerMap /\ ckey' = ckey /\ HandlerKeyMap' = HandlerKeyMap
      /\ AbstractChannel!HandlerCloses(c) <=>
           /\ HandlerMap[c] = "handshake" \/ (HandlerMap[c] = "open" /\ ClientMap[c] = "closed")
           /\ HandlerMap' = [HandlerMap EXCEPT ![c] = "closed"]
           /\ ClientMap' = ClientMap /\ ckey' = ckey /\ HandlerKeyMap' = HandlerKeyMap
  BY DEF AbstractChannel!Connect, AbstractChannel!ClientCloses, AbstractChannel!HandlerCloses,
         ClientMap, HandlerMap, HandlerKeyMap, ClientState, HandlerState, HandlerKey
<1> QED BY <1>2, <1>3, <1>4, <1>5, <1>6, <1>7, <1>8, <1>9, <1>c

\* The step that opens a connection: the key is the two pairs of c, which no
\* other connection's key is.
LEMMA OpenStep ==
  ASSUME IInv, IInv', NEW c \in Conn, \A d \in Conn \ {c} : SameChannel(d),
         NEW f \in First(down[c]), DeriveKey(c, f), f.type = "DH_HELLO"
  PROVE  AbstractChannel!Open(c)
<1> DEFINE k == SharedKey(c)
<1>1. TypeOK /\ TypeOK' /\ Keys(c) /\ Keys(c)' /\ InDown(c)
  BY DEF IInv, Turns
<1>2. /\ cpc[c] = "hello" /\ cpc'[c] = "login" /\ spc'[c] = spc[c] /\ skey'[c] = skey[c]
      /\ ckey'[c] = {<<c, "client">>, f.pub}
  BY <1>1 DEF DeriveKey, ClientTakes, TypeOK
<1>3. spc[c] = "open" /\ ckey[c] = {}
  <2>1. Has(down[c], "DH_HELLO")
    BY <1>1, HeadOfDown
  <2> QED BY <1>1, <1>2, <2>1 DEF InDown, Keys
<1>4. ckey'[c] = k /\ skey'[c] = k
  <2>1. ckey'[c] # {}
    BY <1>2
  <2> QED BY <1>1, <1>2, <2>1 DEF Keys
<1>5. /\ ClientState(c) = "handshake" /\ ClientState(c)' = "open"
      /\ HandlerState(c) = "handshake" /\ HandlerState(c)' = "open"
      /\ HandlerKey(c) = {} /\ HandlerKey(c)' = k
  BY <1>2, <1>3, <1>4, ChannelStates DEF ClientState, HandlerState, HandlerKey
<1>6. \A d \in Conn : k # ckey[d] /\ k # HandlerKey(d)
  <2>1. k # {}
    BY DEF SharedKey
  <2>2. ASSUME NEW d \in Conn, ckey[d] # {} PROVE k # ckey[d] /\ k # skey[d]
    <3>1. ckey[d] = SharedKey(d) /\ skey[d] = SharedKey(d) /\ d # c
      BY <1>3, <2>2 DEF IInv, Turns, Keys
    <3>2. SharedKey(d) # SharedKey(c)
      <4>1. <<c, "client">> # <<d, "client">> /\ <<c, "client">> # <<d, "server">>
        BY <3>1
      <4> QED BY <4>1 DEF SharedKey
    <3> QED BY <3>1, <3>2
  <2> QED BY <2>1, <2>2 DEF HandlerKey
<1>7. \A d \in Conn : d # c =>
        /\ ClientState(d)' = ClientState(d) /\ HandlerState(d)' = HandlerState(d)
        /\ ckey'[d] = ckey[d] /\ HandlerKey(d)' = HandlerKey(d)
  BY DEF SameChannel
<1>8. /\ ClientMap' = [ClientMap EXCEPT ![c] = "open"]
      /\ HandlerMap' = [HandlerMap EXCEPT ![c] = "open"]
      /\ HandlerKeyMap' = [HandlerKeyMap EXCEPT ![c] = k]
      /\ ClientMap[c] = "handshake" /\ HandlerMap[c] = "handshake"
  BY <1>5, <1>7 DEF ClientMap, HandlerMap, HandlerKeyMap
<1>9. ckey' = [ckey EXCEPT ![c] = k]
  BY <1>1, <1>4, <1>7 DEF TypeOK
<1>10. k \in {{<<d, "client">>, <<d, "server">>} : d \in Conn}
  BY DEF SharedKey
<1>11. \A d \in Conn : HandlerKeyMap[d] = HandlerKey(d)
  BY DEF HandlerKeyMap
<1> HIDE DEF k
<1>12. AbstractChannel!Open(c) <=>
         /\ ClientMap[c] = "handshake" /\ HandlerMap[c] = "handshake"
         /\ \E x \in {{<<d, "client">>, <<d, "server">>} : d \in Conn} :
              /\ \A d \in Conn : x \notin {ckey[d], HandlerKeyMap[d]}
              /\ ckey' = [ckey EXCEPT ![c] = x]
              /\ HandlerKeyMap' = [HandlerKeyMap EXCEPT ![c] = x]
         /\ ClientMap' = [ClientMap EXCEPT ![c] = "open"]
         /\ HandlerMap' = [HandlerMap EXCEPT ![c] = "open"]
  BY DEF AbstractChannel!Open, ClientMap, HandlerMap, HandlerKeyMap, ClientState, HandlerState,
         HandlerKey
<1> QED BY <1>6, <1>8, <1>9, <1>10, <1>11, <1>12

\* Any other step moves one end, or closes it, or neither.
LEMMA StepChannel ==
  ASSUME IInv, IInv', NEW c \in Conn, Step(c)
  PROVE  AbstractChannel!Next \/ UNCHANGED <<ClientMap, HandlerMap, ckey, HandlerKeyMap>>
<1>1. TypeOK /\ TypeOK' /\ Turns(c) /\ Begun(c) /\ Keys(c)
  BY DEF IInv, Turns
<1>2. \A d \in Conn \ {c} : SameChannel(d)
  BY <1>1, StepLocal, SameAtChannel
<1>3. CASE Accept(c)
  <2>1. /\ spc[c] = "none" /\ cpc[c] = "none" /\ ckey[c] = {} /\ ckey'[c] = {}
        /\ spc'[c] \in {"load", "hello"} /\ cpc'[c] \in {"certificate", "greet"}
    BY <1>1, <1>3 DEF Accept, Begun, Keys, TypeOK
  <2>2. /\ ClientState(c) = "none" /\ HandlerState(c) = "none"
        /\ ClientState(c)' = "handshake" /\ HandlerState(c)' = "handshake"
        /\ HandlerKey(c)' = HandlerKey(c)
    BY <2>1, ChannelStates DEF ClientState, HandlerState, HandlerKey
  <2>3. AbstractChannel!Connect(c)
    BY <1>1, <1>2, <2>1, <2>2, MapStep
  <2> QED BY <2>3 DEF AbstractChannel!Next
\* The handler goes on or closes before it is open.
<1>4. ASSUME spc[c] \in {"load", "challenge", "hello"},
             spc'[c] \in {"load", "challenge", "hello", "open", "closed"},
             cpc'[c] = cpc[c], ckey'[c] = ckey[c]
      PROVE  AbstractChannel!Next \/ UNCHANGED <<ClientMap, HandlerMap, ckey, HandlerKeyMap>>
  <2>1. ckey[c] = {}
    BY <1>1, <1>4 DEF Keys
  <2>2. /\ HandlerState(c) = "handshake" /\ ClientState(c)' = ClientState(c)
        /\ HandlerState(c)' = IF spc'[c] = "closed" THEN "closed" ELSE "handshake"
        /\ HandlerKey(c)' = HandlerKey(c)
    BY <1>4, <2>1, ChannelStates DEF ClientState, HandlerState, HandlerKey
  <2>3. CASE spc'[c] = "closed"
    <3>1. AbstractChannel!HandlerCloses(c)
      BY <1>1, <1>2, <1>4, <2>2, <2>3, MapStep
    <3> QED BY <3>1 DEF AbstractChannel!Next
  <2>4. CASE spc'[c] # "closed"
    <3>1. SameChannel(c)
      BY <1>4, <2>2, <2>4 DEF SameChannel
    <3> QED BY <1>1, <1>2, <3>1, MapStep
  <2> QED BY <2>3, <2>4
\* The client goes on or closes, and has no new key.
<1>5. ASSUME cpc[c] \notin {"none", "closed"},
             \/ cpc'[c] = "closed"
             \/ cpc[c] # "login" /\ cpc'[c] \in {"response", "hello"},
             spc'[c] = spc[c], ckey'[c] = ckey[c], skey'[c] = skey[c]
      PROVE  AbstractChannel!Next \/ UNCHANGED <<ClientMap, HandlerMap, ckey, HandlerKeyMap>>
  <2>1. cpc[c] \in {"none", "greet", "certificate", "response", "hello", "login", "closed"}
    BY <1>1 DEF TypeOK
  <2>2. HandlerState(c)' = HandlerState(c) /\ HandlerKey(c)' = HandlerKey(c)
    BY <1>5 DEF HandlerState, HandlerKey
  <2>3. CASE cpc'[c] = "closed"
    <3>1. ClientState(c) \in {"handshake", "open"} /\ ClientState(c)' = "closed"
      BY <1>5, <2>1, <2>3, ChannelStates DEF ClientState
    <3>2. AbstractChannel!ClientCloses(c)
      BY <1>1, <1>2, <1>5, <2>2, <3>1, MapStep
    <3> QED BY <3>2 DEF AbstractChannel!Next
  <2>4. CASE cpc'[c] # "closed"
    <3>1. ClientState(c) = "handshake" /\ ClientState(c)' = "handshake"
      BY <1>5, <2>1, <2>4, ChannelStates DEF ClientState
    <3>2. SameChannel(c)
      BY <1>5, <2>2, <3>1 DEF SameChannel
    <3> QED BY <1>1, <1>2, <3>2, MapStep
  <2> QED BY <2>3, <2>4
<1>6. CASE SendCert(c)
  <2>1. /\ spc[c] = "load" /\ cpc'[c] = cpc[c] /\ ckey'[c] = ckey[c]
        /\ spc'[c] \in {"load", "challenge", "closed"}
    BY <1>1, <1>6 DEF SendCert, Answers, HandlerCloses, TypeOK
  <2> QED BY <1>4, <2>1
<1>7. ASSUME NEW f, SignChallenge(c, f)
      PROVE  AbstractChannel!Next \/ UNCHANGED <<ClientMap, HandlerMap, ckey, HandlerKeyMap>>
  <2>1. /\ spc[c] = "challenge" /\ cpc'[c] = cpc[c] /\ ckey'[c] = ckey[c]
        /\ spc'[c] \in {"challenge", "hello", "closed"}
    BY <1>1, <1>7 DEF SignChallenge, HandlerTakes, Answers, HandlerCloses, TypeOK
  <2> QED BY <1>4, <2>1
<1>8. ASSUME NEW f, ServerHello(c, f)
      PROVE  AbstractChannel!Next \/ UNCHANGED <<ClientMap, HandlerMap, ckey, HandlerKeyMap>>
  <2>1. /\ spc[c] = "hello" /\ cpc'[c] = cpc[c] /\ ckey'[c] = ckey[c]
        /\ spc'[c] \in {"hello", "open", "closed"}
    BY <1>1, <1>8 DEF ServerHello, HandlerTakes, Answers, HandlerCloses, TypeOK
  <2> QED BY <1>4, <2>1
<1>9. CASE HandlerReceiveFails(c)
  <2>1. /\ spc[c] \in {"challenge", "hello", "open"} /\ cpc[c] = "closed" /\ spc'[c] = "closed"
        /\ cpc'[c] = cpc[c] /\ ckey'[c] = ckey[c] /\ skey'[c] = skey[c]
    BY <1>1, <1>9 DEF HandlerReceiveFails, HandlerCloses, TypeOK
  <2>2. /\ HandlerState(c) \in {"handshake", "open"} /\ ClientState(c) = "closed"
        /\ HandlerState(c)' = "closed" /\ ClientState(c)' = "closed"
        /\ HandlerKey(c)' = HandlerKey(c)
    BY <2>1, ChannelStates DEF ClientState, HandlerState, HandlerKey
  <2>3. AbstractChannel!HandlerCloses(c)
    BY <1>1, <1>2, <2>1, <2>2, MapStep
  <2> QED BY <2>3 DEF AbstractChannel!Next
<1>10. CASE Stray(c)
  <2>1. SameChannel(c)
    BY <1>10 DEF Stray, SameChannel, ClientState, HandlerState, HandlerKey, ChannelState
  <2> QED BY <1>1, <1>2, <2>1, MapStep
<1>11. ASSUME NEW f \in First(down[c]), SendChallenge(c, f)
       PROVE  AbstractChannel!Next \/ UNCHANGED <<ClientMap, HandlerMap, ckey, HandlerKeyMap>>
  <2>1. /\ cpc[c] = "certificate" /\ cpc'[c] \in {"response", "closed"}
        /\ spc'[c] = spc[c] /\ ckey'[c] = ckey[c] /\ skey'[c] = skey[c]
    BY <1>1, <1>11 DEF SendChallenge, ClientTakes, Sends, ClientCloses, TypeOK
  <2> QED BY <1>5, <2>1
<1>12. ASSUME NEW f \in First(down[c]), ClientHello(c, f)
       PROVE  AbstractChannel!Next \/ UNCHANGED <<ClientMap, HandlerMap, ckey, HandlerKeyMap>>
  <2>1. /\ cpc[c] = "response" /\ cpc'[c] \in {"hello", "closed"}
        /\ spc'[c] = spc[c] /\ ckey'[c] = ckey[c] /\ skey'[c] = skey[c]
    BY <1>1, <1>12 DEF ClientHello, ClientTakes, Sends, ClientCloses, TypeOK
  <2> QED BY <1>5, <2>1
<1>13. ASSUME NEW f \in First(down[c]), DeriveKey(c, f)
       PROVE  AbstractChannel!Next \/ UNCHANGED <<ClientMap, HandlerMap, ckey, HandlerKeyMap>>
  <2>1. CASE f.type = "DH_HELLO"
    BY <1>2, <1>13, <2>1, OpenStep DEF AbstractChannel!Next
  <2>2. CASE f.type # "DH_HELLO"
    <3>1. /\ cpc[c] = "hello" /\ cpc'[c] = "closed"
          /\ spc'[c] = spc[c] /\ ckey'[c] = ckey[c] /\ skey'[c] = skey[c]
      BY <1>1, <1>13, <2>2 DEF DeriveKey, ClientTakes, ClientCloses, TypeOK
    <3> QED BY <1>5, <3>1
  <2> QED BY <2>1, <2>2
<1>14. ASSUME NEW f \in First(down[c]), LoginFails(c, f)
       PROVE  AbstractChannel!Next \/ UNCHANGED <<ClientMap, HandlerMap, ckey, HandlerKeyMap>>
  <2>1. /\ cpc[c] = "login" /\ cpc'[c] = "closed"
        /\ spc'[c] = spc[c] /\ ckey'[c] = ckey[c] /\ skey'[c] = skey[c]
    BY <1>1, <1>14 DEF LoginFails, ClientTakes, ClientCloses, TypeOK
  <2> QED BY <1>5, <2>1
<1>15. CASE Greet(c)
  <2>1. /\ cpc[c] = "greet" /\ cpc'[c] \in {"hello", "closed"}
        /\ spc'[c] = spc[c] /\ ckey'[c] = ckey[c] /\ skey'[c] = skey[c]
    BY <1>1, <1>15 DEF Greet, Sends, ClientCloses, TypeOK
  <2> QED BY <1>5, <2>1
<1>16. CASE ConnectionLost(c) \/ Die(c)
  <2>1. /\ cpc[c] \notin {"none", "closed"} /\ cpc'[c] = "closed"
        /\ spc'[c] = spc[c] /\ ckey'[c] = ckey[c] /\ skey'[c] = skey[c]
    BY <1>1, <1>16 DEF ConnectionLost, Die, ClientCloses, TypeOK
  <2> QED BY <1>5, <2>1
<1> QED
  BY <1>3, <1>6, <1>7, <1>8, <1>9, <1>10, <1>11, <1>12, <1>13, <1>14, <1>15, <1>16 DEF Step

\* The two ends of a connection open in one step with one key that no other
\* connection has, or give up, whoever dies and whatever frames go astray:
\* what SecureServer takes the handshake for.
THEOREM ImplementsChannel == Spec => ChannelSpec
<1>1. Init => AbstractChannel!Init
  BY DEF Init, AbstractChannel!Init, ChannelState
<1>2. IInv /\ IInv' /\ [Next]_vars => [AbstractChannel!Next]_(AbstractChannel!vars)
  <2> SUFFICES ASSUME IInv, IInv', [Next]_vars
               PROVE  [AbstractChannel!Next]_(AbstractChannel!vars)
    OBVIOUS
  <2>1. ASSUME NEW c \in Conn, Step(c) PROVE [AbstractChannel!Next]_(AbstractChannel!vars)
    BY <2>1, StepChannel DEF AbstractChannel!vars, ClientMap, HandlerMap, HandlerKeyMap,
       ClientState, HandlerState, HandlerKey
  <2>2. CASE ServerEnds \/ UNCHANGED vars
    <3>1. UNCHANGED <<spc, cpc, skey, ckey>>
      BY <2>2 DEF ServerEnds, vars
    <3> QED BY <3>1 DEF AbstractChannel!vars
  <2> QED BY <2>1, <2>2, NextSteps
<1> QED BY <1>1, <1>2, Invariance, PTL DEF Spec, ChannelSpec, AbstractChannel!Spec
=============================================================================
