--------------------------- MODULE ConsoleProofs ----------------------------
(***************************************************************************)
(* Proofs about Console: what users type reaches the console it is for,    *)
(* through every message format, for any names, texts and group.           *)
(***************************************************************************)
EXTENDS Console, TLAPS, FiniteSetTheorems, SequenceTheorems

(***************************************************************************)
(* Strings: sequences of any symbols.                                      *)
(***************************************************************************)
IsString(s) == s \in Seq(ToSet(s))

LEMMA StringOver ==
  ASSUME NEW S, NEW s \in Seq(S)
  PROVE  IsString(s) /\ ToSet(s) \subseteq S
<1>1. \A i \in 1..Len(s) : s[i] \in ToSet(s)
  BY DEF ToSet
<1>2. s \in Seq(ToSet(s))
  BY <1>1
<1>3. ToSet(s) \subseteq S
  BY DEF ToSet
<1> QED BY <1>2, <1>3 DEF IsString

LEMMA Symbol ==
  ASSUME NEW x
  PROVE  IsString(<<x>>) /\ ToSet(<<x>>) = {x} /\ Len(<<x>>) = 1 /\ <<x>>[1] = x
BY DEF IsString, ToSet

LEMMA TwoSymbols ==
  ASSUME NEW x, NEW y
  PROVE  Append(<<x>>, y) = <<x, y>>
<1>0. PICK S : S = {x, y}
  OBVIOUS
<1>1. PICK a : a = <<x>>
  OBVIOUS
<1>2. a \in Seq(S) /\ Len(a) = 1 /\ a[1] = x /\ x \in S /\ y \in S
  BY <1>0, <1>1
<1>3. PICK z : z = Append(a, y)
  OBVIOUS
<1>4. z \in Seq(S) /\ Len(z) = 2 /\ z[1] = x /\ z[2] = y
  <2>1. /\ z \in Seq(S) /\ Len(z) = Len(a) + 1
        /\ \A i \in 1..Len(a) : z[i] = a[i]
        /\ z[Len(a) + 1] = y
    <3>1. /\ Append(a, y) \in Seq(S) /\ Len(Append(a, y)) = Len(a) + 1
          /\ \A i \in 1..Len(a) : Append(a, y)[i] = a[i]
          /\ Append(a, y)[Len(a) + 1] = y
      <4>1. a \in Seq(S) /\ y \in S
        BY <1>2
      <4> QED BY <4>1, AppendProperties
    <3> QED BY <3>1, <1>3
  <2> QED BY <2>1, <1>2
<1>5. PICK w : w = <<x, y>>
  OBVIOUS
<1>6. w \in Seq(S) /\ Len(w) = 2 /\ w[1] = x /\ w[2] = y
  BY <1>0, <1>5
<1>7. z = w
  BY <1>4, <1>6
<1> QED BY <1>1, <1>3, <1>5, <1>7

LEMMA EmptyString == IsString(<<>>) /\ ToSet(<<>>) = {}
BY DEF IsString, ToSet

LEMMA Cat ==
  ASSUME NEW s, NEW r, IsString(s), IsString(r)
  PROVE  /\ IsString(s \o r) /\ Len(s \o r) = Len(s) + Len(r)
         /\ \A i \in 1..Len(s) : (s \o r)[i] = s[i]
         /\ \A i \in 1..Len(r) : (s \o r)[Len(s) + i] = r[i]
         /\ Len(s) \in Nat /\ Len(r) \in Nat
<1> DEFINE S == ToSet(s) \cup ToSet(r)
<1>1. \A q, A, B : q \in Seq(A) /\ A \subseteq B => q \in Seq(B)
  OBVIOUS
<1>2. s \in Seq(S) /\ r \in Seq(S)
  <2>1. ToSet(s) \subseteq S /\ ToSet(r) \subseteq S
    OBVIOUS
  <2> QED BY <2>1, <1>1 DEF IsString
<1> HIDE DEF S
<1>3. /\ s \o r \in Seq(S) /\ Len(s \o r) = Len(s) + Len(r)
      /\ \A i \in 1..Len(s) : (s \o r)[i] = s[i]
      /\ \A i \in 1..Len(r) : (s \o r)[Len(s) + i] = r[i]
      /\ Len(s) \in Nat /\ Len(r) \in Nat
  BY <1>2
<1> QED BY <1>3, StringOver

LEMMA CatAssociates ==
  ASSUME NEW s, NEW r, NEW q, IsString(s), IsString(r), IsString(q)
  PROVE  (s \o r) \o q = s \o (r \o q)
BY DEF IsString

\* The first place of x in s, 0 if there is none.
First(s, x) ==
  LET I == {i \in 1..Len(s) : s[i] = x} IN IF I # {} THEN Min(I) ELSE 0

LEMMA FindFirst == \A s : Find(s) = First(s, SEPARATOR) /\ FindSpace(s) = First(s, SPACE)
BY DEF Find, FindSpace, SelectInSeq, First

\* It and the substrings beside it.
LEMMA FirstAt ==
  ASSUME NEW s, NEW x, NEW r, IsString(s), IsString(r), x \notin ToSet(s)
  PROVE  /\ First((s \o <<x>>) \o r, x) = Len(s) + 1
         /\ SubSeq((s \o <<x>>) \o r, 1, Len(s)) = s
         /\ SubSeq((s \o <<x>>) \o r, Len(s) + 2, Len((s \o <<x>>) \o r)) = r
<1>1. PICK z : z = (s \o <<x>>) \o r
  OBVIOUS
<1>2. /\ IsString(z) /\ Len(z) = Len(s) + 1 + Len(r) /\ Len(s) \in Nat /\ Len(r) \in Nat
      /\ z[Len(s) + 1] = x /\ \A i \in 1..Len(s) : z[i] = s[i]
      /\ \A i \in 1..Len(r) : z[Len(s) + 1 + i] = r[i]
  <2>1. PICK y : y = s \o <<x>>
    OBVIOUS
  <2>2. /\ IsString(y) /\ Len(y) = Len(s) + 1 /\ Len(s) \in Nat
        /\ y[Len(s) + 1] = x /\ \A i \in 1..Len(s) : y[i] = s[i]
    BY <2>1, Cat, Symbol
  <2>3. /\ IsString(z) /\ Len(z) = Len(y) + Len(r) /\ Len(r) \in Nat
        /\ \A i \in 1..Len(y) : z[i] = y[i]
        /\ \A i \in 1..Len(r) : z[Len(y) + i] = r[i]
    BY <1>1, <2>1, <2>2, Cat
  <2> QED BY <2>2, <2>3
<1>3. PICK I : I = {i \in 1..Len(z) : z[i] = x}
  OBVIOUS
<1>4. Len(s) + 1 \in I
  BY <1>2, <1>3
<1>5. \A i \in I : Len(s) + 1 <= i
  <2> SUFFICES ASSUME NEW i \in I, ~(Len(s) + 1 <= i) PROVE FALSE
    OBVIOUS
  <2>1. i \in 1..Len(s) /\ z[i] = x
    BY <1>2, <1>3
  <2>2. s[i] = x /\ s[i] \in ToSet(s)
    BY <2>1, <1>2 DEF ToSet, IsString
  <2> QED BY <2>2
<1>6. Min(I) = Len(s) + 1
  <2>1. \A i \in I : i \in Int
    BY <1>2, <1>3
  <2>2. Min(I) \in I /\ \A i \in I : Min(I) <= i
    BY <1>4, <1>5 DEF Min
  <2> QED BY <2>1, <2>2, <1>4, <1>5
<1>7. First(z, x) = Len(s) + 1
  BY <1>3, <1>4, <1>6 DEF First
<1>8. SubSeq(z, 1, Len(s)) = s
  BY <1>2 DEF IsString
<1>9. SubSeq(z, Len(s) + 2, Len(z)) = r
  BY <1>2 DEF IsString
<1> QED BY <1>1, <1>7, <1>8, <1>9

LEMMA NotFound ==
  ASSUME NEW s, NEW x, IsString(s), x \notin ToSet(s)
  PROVE  First(s, x) = 0
<1>1. \A i \in 1..Len(s) : s[i] \in ToSet(s)
  BY DEF ToSet, IsString
<1>2. {i \in 1..Len(s) : s[i] = x} = {}
  BY <1>1
<1> QED BY <1>2 DEF First

(***************************************************************************)
(* A message is read as it was written.                                    *)
(***************************************************************************)
TypeWords == {"LOGIN"} \cup NoContent \cup ContentOnly \cup NameAndContent

LEMMA Found ==
  ASSUME NEW s, NEW r, IsString(s), IsString(r), SEPARATOR \notin ToSet(s)
  PROVE  LET z == (s \o Bar) \o r
         IN Find(z) > 0 /\ Before(z) = s /\ After(z) = r
<1>1. PICK z : z = (s \o <<SEPARATOR>>) \o r
  OBVIOUS
<1>2. /\ First(z, SEPARATOR) = Len(s) + 1
      /\ SubSeq(z, 1, Len(s)) = s /\ SubSeq(z, Len(s) + 2, Len(z)) = r
  BY <1>1, FirstAt
<1>3. Len(s) \in Nat
  BY DEF IsString
<1>4. Find(z) = Len(s) + 1
  BY <1>2, FindFirst
<1>5. (Len(s) + 1) - 1 = Len(s) /\ (Len(s) + 1) + 1 = Len(s) + 2 /\ Len(s) + 1 > 0
  BY <1>3
<1> QED BY <1>1, <1>2, <1>4, <1>5 DEF Bar, Before, After

LEMMA ReadsNoContent ==
  ASSUME SEPARATOR \notin TypeWords, NEW t \in NoContent
  PROVE  parse_message(serialize_message(Msg(t, <<>>, <<>>))) = Msg(t, <<>>, <<>>)
<1>1. serialize_message(Msg(t, <<>>, <<>>)) = <<t>>
  BY DEF serialize_message, Msg, NoContent, ContentOnly, NameAndContent
<1>2. Find(<<t>>) = 0
  <2>1. SEPARATOR \notin ToSet(<<t>>) /\ IsString(<<t>>)
    BY Symbol DEF TypeWords
  <2> QED BY <2>1, NotFound, FindFirst
<1> QED BY <1>1, <1>2 DEF parse_message

LEMMA ReadsContent ==
  ASSUME SEPARATOR \notin TypeWords, NEW t \in ContentOnly, NEW c, IsString(c), c # <<>>
  PROVE  parse_message(serialize_message(Msg(t, <<>>, c))) = Msg(t, <<>>, c)
<1>1. PICK z : z = (<<t>> \o Bar) \o c
  OBVIOUS
<1>2. serialize_message(Msg(t, <<>>, c)) = z
  BY <1>1 DEF serialize_message, Msg, NoContent, ContentOnly, NameAndContent
<1>3. Find(z) > 0 /\ Before(z) = <<t>> /\ After(z) = c
  <2>1. SEPARATOR \notin ToSet(<<t>>) /\ IsString(<<t>>)
    BY Symbol DEF TypeWords
  <2> QED BY <2>1, <1>1, Found
<1>4. \A u : z # <<u>>
  <2>1. IsString(<<t>> \o Bar) /\ Len(<<t>> \o Bar) = 2
    BY Cat, Symbol DEF Bar
  <2>2. Len(z) = 2 + Len(c) /\ Len(c) \in Nat
    BY <1>1, <2>1, Cat
  <2> QED BY <2>2
<1>5. <<t>> # <<"LOGIN">> /\ \A u \in NameAndContent : <<t>> # <<u>>
  BY DEF ContentOnly, NameAndContent
<1> QED BY <1>2, <1>3, <1>4, <1>5 DEF parse_message

LEMMA ReadsLogin ==
  ASSUME SEPARATOR \notin TypeWords, NEW n, IsString(n), n # <<>>
  PROVE  parse_message(serialize_message(Msg("LOGIN", n, <<>>))) = Msg("LOGIN", n, <<>>)
<1>1. PICK z : z = (<<"LOGIN">> \o Bar) \o n
  OBVIOUS
<1>2. serialize_message(Msg("LOGIN", n, <<>>)) = z
  BY <1>1 DEF serialize_message, Msg, NoContent, ContentOnly, NameAndContent
<1>3. Find(z) > 0 /\ Before(z) = <<"LOGIN">> /\ After(z) = n
  <2>1. SEPARATOR \notin ToSet(<<"LOGIN">>) /\ IsString(<<"LOGIN">>)
    BY Symbol DEF TypeWords
  <2> QED BY <2>1, <1>1, Found
<1>4. \A u : z # <<u>>
  <2>1. IsString(<<"LOGIN">> \o Bar) /\ Len(<<"LOGIN">> \o Bar) = 2
    BY Cat, Symbol DEF Bar
  <2>2. Len(z) = 2 + Len(n) /\ Len(n) \in Nat
    BY <1>1, <2>1, Cat
  <2> QED BY <2>2
<1>5. \A u \in ContentOnly \cup NameAndContent : <<"LOGIN">> # <<u>>
  BY DEF ContentOnly, NameAndContent
<1> QED BY <1>2, <1>3, <1>4, <1>5 DEF parse_message

LEMMA ReadsNamed ==
  ASSUME SEPARATOR \notin TypeWords, NEW t \in NameAndContent,
         NEW n, IsString(n), n # <<>>, SEPARATOR \notin ToSet(n),
         NEW c, IsString(c), c # <<>>
  PROVE  parse_message(serialize_message(Msg(t, n, c))) = Msg(t, n, c)
<1>0. IsString(Bar) /\ IsString(<<t>>) /\ SEPARATOR \notin ToSet(<<t>>)
  BY Symbol DEF Bar, TypeWords
<1>1. PICK y : y = (n \o Bar) \o c
  OBVIOUS
<1>2. Find(y) > 0 /\ Before(y) = n /\ After(y) = c
  BY <1>1, Found
<1>3. IsString(y)
  BY <1>0, <1>1, Cat
<1>4. PICK z : z = (<<t>> \o Bar) \o y
  OBVIOUS
<1>5. Find(z) > 0 /\ Before(z) = <<t>> /\ After(z) = y
  BY <1>0, <1>3, <1>4, Found
<1>6. serialize_message(Msg(t, n, c)) = z
  <2>1. serialize_message(Msg(t, n, c)) = ((((<<t>> \o Bar) \o n) \o Bar) \o c)
    BY DEF serialize_message, Msg, NoContent, ContentOnly, NameAndContent
  <2>2. PICK a : a = <<t>> \o Bar
    OBVIOUS
  <2>3. IsString(a) /\ IsString(a \o n) /\ IsString(n \o Bar)
    BY <2>2, <1>0, Cat
  <2>4. ((a \o n) \o Bar) \o c = (a \o (n \o Bar)) \o c
    <3>1. (a \o n) \o Bar = a \o (n \o Bar)
      <4>1. IsString(a) /\ IsString(n) /\ IsString(Bar)
        BY <2>3, <1>0
      <4> QED BY <4>1, CatAssociates
    <3> QED BY <3>1
  <2>5. (a \o (n \o Bar)) \o c = a \o ((n \o Bar) \o c)
    <3>1. PICK b : b = n \o Bar
      OBVIOUS
    <3>2. (a \o b) \o c = a \o (b \o c)
      BY <2>3, <3>1, CatAssociates
    <3> QED BY <3>1, <3>2
  <2> QED BY <2>1, <2>2, <2>4, <2>5, <1>1, <1>4
<1>7. \A u : z # <<u>>
  <2>1. IsString(<<t>> \o Bar) /\ Len(<<t>> \o Bar) = 2
    BY Cat, Symbol DEF Bar
  <2>2. Len(z) = 2 + Len(y) /\ Len(y) \in Nat
    BY <1>3, <1>4, <2>1, Cat
  <2> QED BY <2>2
<1>8. <<t>> # <<"LOGIN">> /\ \A u \in ContentOnly : <<t>> # <<u>>
  BY DEF ContentOnly, NameAndContent
<1> QED BY <1>2, <1>5, <1>6, <1>7, <1>8 DEF parse_message

\* Every message that is written is read as it was written, from symbols of any
\* kind and strings of any length: the content may have separators, type words and
\* whole messages in it, as what the clients send each other has, and a login name
\* too; only the name before a content may not have a separator.
THEOREM MessagesReadBack ==
  ASSUME SEPARATOR \notin TypeWords,
         NEW n, IsString(n), n # <<>>, NEW c, IsString(c), c # <<>>
  PROVE  LET ReadBack(m) == parse_message(serialize_message(m)) = m
         IN /\ \A t \in NoContent : ReadBack(Msg(t, <<>>, <<>>))
            /\ ReadBack(Msg("LOGIN", n, <<>>))
            /\ \A t \in ContentOnly : ReadBack(Msg(t, <<>>, c))
            /\ SEPARATOR \notin ToSet(n) =>
                 \A t \in NameAndContent : ReadBack(Msg(t, n, c))
BY ReadsNoContent, ReadsLogin, ReadsContent, ReadsNamed

(***************************************************************************)
(* The inductive invariant: how far the command under way is, by what is   *)
(* on the wire and on the consoles.                                        *)
(***************************************************************************)
\* A frame to or from the client of a user is under way, and is read as m.
Carries(w, to, by, m) ==
  \E f \in w : w = {f} /\ f.to = to /\ f.by = by /\ parse_message(f.payload) = m
OnWire(to, by, m) == Carries(wire, to, by, m)
AtMostOne(S) == \A x \in S : S = {x}

Refusal == Msg("ERROR", <<>>, <<"reason">>)
LineKinds == {"line", "@line"}
Line(t) == IF t.kind = "line" THEN t.text ELSE <<"@">> \o t.to \o <<SPACE>> \o t.text
Said(t) ==
  IF t.key = {} THEN t.text
  ELSE SealedMark \o <<Hex(aes_gcm_encrypt(CHOOSE k \in t.key : TRUE, Line(t)))>>

\* What LineShown says of t.
LineDone(t) ==
  LET s == shown[1]
      key == aes_keys[t.to][t.by]
  IN /\ Len(shown) = 1
     /\ \/ t.to \notin online /\ s.at = t.by /\ s.as = "error"
        \/ /\ t.to \in online /\ s.at = t.to /\ s.from = t.by
           /\ CASE t.key = {} -> s.as = "plain" /\ s.what = t.text
                [] t.key # {} /\ key = t.key -> s.as = "sealed" /\ s.what = Line(t)
                [] t.key # {} /\ key = {} -> s.as = "ignored"
                [] OTHER -> s.as = "failed"
LineWay(t) ==
  \/ OnWire("server", t.by, Msg("MSG", t.to, Said(t))) /\ shown = <<>>
  \/ t.to \in online /\ OnWire("client", t.to, Msg("FROM", t.by, Said(t))) /\ shown = <<>>
  \/ t.to \notin online /\ OnWire("client", t.by, Refusal) /\ shown = <<>>
  \/ wire = {} /\ LineDone(t)

ListShown(n, us) == <<[at |-> n, as |-> "users", from |-> <<>>, what |-> us]>>
WhoWay(t) ==
  \/ OnWire("server", t.by, Msg("WHO", <<>>, <<>>)) /\ shown = <<>>
  \/ \E us \in SetToSeqs(online) :
       OnWire("client", t.by, Msg("USERS", <<>>, who_content(us))) /\ shown = <<>>
  \/ wire = {} /\ \E us \in SetToSeqs(online) : shown = ListShown(t.by, us)

Asks(dh) == InitMark \o <<Hex(dh.public_key)>>
Answers(dh) == AckMark \o <<Hex(dh.public_key)>>
KeyWith(dh, peer) == deriveAesKey(dhGetSecret(dh, peer.public_key))
SessionShown(n, p, key) == [at |-> n, as |-> "session", from |-> p, what |-> key]
\* dh is the keypair of the one who asks, peer that of the one who answers.
Answered(t, dh, peer) ==
  /\ t.to \in online
  /\ shown = <<SessionShown(t.to, t.by, KeyWith(peer, dh))>>
  /\ aes_keys[t.to][t.by] = {KeyWith(peer, dh)}
ExchangeDone(t, dh, peer) ==
  /\ shown = <<SessionShown(t.to, t.by, KeyWith(peer, dh)),
               SessionShown(t.by, t.to, KeyWith(dh, peer))>>
  /\ aes_keys[t.by][t.to] = {KeyWith(dh, peer)}
  /\ t.by # t.to => aes_keys[t.to][t.by] = {KeyWith(peer, dh)}
ExchangeWith(t, dh, peer) ==
  \/ /\ t.fresh => pending[t.by][t.to] = {dh}
     /\ \/ OnWire("server", t.by, Msg("MSG", t.to, Asks(dh))) /\ shown = <<>>
        \/ t.to \in online /\ OnWire("client", t.to, Msg("FROM", t.by, Asks(dh))) /\ shown = <<>>
        \/ OnWire("server", t.to, Msg("MSG", t.by, Answers(peer))) /\ Answered(t, dh, peer)
        \/ OnWire("client", t.by, Msg("FROM", t.to, Answers(peer))) /\ Answered(t, dh, peer)
  \/ t.to \notin online /\ OnWire("client", t.by, Refusal) /\ shown = <<>>
  \/ wire = {} /\ (t.fresh /\ t.to \in online => ExchangeDone(t, dh, peer))
ExchangeWay(t) == \E dh, peer \in DHkeypair : ExchangeWith(t, dh, peer)

\* The command t was given by a user who is online, and has what it is about.
Asked(t) ==
  /\ t.by \in Name /\ t.kind \in {"who", "chat", "e2e", "quit"} \cup LineKinds
  /\ t.kind # "quit" => t.by \in online
  /\ t.kind \in LineKinds => t.to \in Name /\ t.text \in Text /\ AtMostOne(t.key)
  /\ t.kind = "e2e" => t.to \in Name
Way(t) ==
  /\ t.kind \in LineKinds => LineWay(t)
  /\ t.kind = "who" => WhoWay(t)
  /\ t.kind = "e2e" => ExchangeWay(t)
  /\ t.kind = "chat" => wire = {} /\ shown = <<>>
  /\ t.kind = "quit" => /\ shown = <<>>
                        /\ wire = {} \/ OnWire("server", t.by, Msg("QUIT", <<>>, <<>>))

Tables ==
  /\ online \subseteq Name /\ IsFiniteSet(online)
  /\ current_chat \in [Name -> Name \cup {<<>>}]
  /\ pending \in [Name -> [Name -> {{}} \cup {{dh} : dh \in DHkeypair}]]
  /\ aes_keys = [n \in Name |-> [p \in Name |-> aes_keys[n][p]]]
  /\ \A n, p \in Name : AtMostOne(aes_keys[n][p])
  /\ inits \in 0..MaxInits
Progress ==
  /\ typed = {} => wire = {} /\ shown = <<>>
  /\ \A t \in typed : typed = {t} /\ Asked(t) /\ Way(t)
Displays == IsString(shown) /\ \A i \in 1..Len(shown) : shown[i].at \in Name

CInv == Tables /\ Progress

(***************************************************************************)
(* What the messages of the commands carry.                                *)
(***************************************************************************)
LEMMA FrameCarries ==
  ASSUME NEW to, NEW by, NEW m, parse_message(serialize_message(m)) = m
  PROVE  Carries(Frame(to, by, m), to, by, m)
BY DEF Carries, Frame

LEMMA CarriesOne ==
  ASSUME NEW w, NEW to, NEW by, NEW m, Carries(w, to, by, m), NEW f \in w
  PROVE  f.to = to /\ f.by = by /\ parse_message(f.payload) = m
BY DEF Carries

LEMMA MsgFields ==
  ASSUME NEW t, NEW n, NEW c
  PROVE  Msg(t, n, c).type = t /\ Msg(t, n, c).who = n /\ Msg(t, n, c).content = c
BY DEF Msg

LEMMA Prefixed ==
  ASSUME NEW u, NEW x
  PROVE  LET c == (<<u>> \o Bar) \o <<x>>
         IN /\ IsString(c) /\ Len(c) = 3 /\ c # <<>> /\ c[3] = x
            /\ \A w : Marked(<<w>> \o Bar, c) <=> w = u
<1>1. \A w : /\ IsString(<<w>> \o Bar) /\ Len(<<w>> \o Bar) = 2
             /\ (<<w>> \o Bar)[1] = w /\ (<<w>> \o Bar)[2] = SEPARATOR
  <2> TAKE w
  <2>1. /\ IsString(<<w>>) /\ Len(<<w>>) = 1 /\ <<w>>[1] = w
        /\ IsString(Bar) /\ Len(Bar) = 1 /\ Bar[1] = SEPARATOR
    BY Symbol DEF Bar
  <2>2. PICK a, d : a = <<w>> /\ d = Bar
    OBVIOUS
  <2>3. /\ IsString(a \o d) /\ Len(a \o d) = Len(a) + Len(d)
        /\ \A i \in 1..Len(a) : (a \o d)[i] = a[i]
        /\ \A i \in 1..Len(d) : (a \o d)[Len(a) + i] = d[i]
    BY <2>1, <2>2, Cat
  <2>4. 1 \in 1..Len(a) /\ 1 \in 1..Len(d) /\ Len(a) + 1 = 2
    BY <2>1, <2>2
  <2>5. (a \o d)[1] = a[1] /\ (a \o d)[2] = d[1] /\ Len(a \o d) = 2
    BY <2>3, <2>4, <2>1, <2>2
  <2> QED BY <2>1, <2>2, <2>3, <2>5
<1>2. PICK c : c = (<<u>> \o Bar) \o <<x>>
  OBVIOUS
<1>3. /\ IsString(c) /\ Len(c) = 3 /\ c[1] = u /\ c[2] = SEPARATOR /\ c[3] = x
  <2>1. PICK b : b = <<u>> \o Bar
    OBVIOUS
  <2>2. IsString(b) /\ Len(b) = 2 /\ b[1] = u /\ b[2] = SEPARATOR
    BY <1>1, <2>1
  <2>3. PICK e : e = <<x>>
    OBVIOUS
  <2>4. IsString(e) /\ Len(e) = 1 /\ e[1] = x
    BY <2>3, Symbol
  <2>5. /\ IsString(b \o e) /\ Len(b \o e) = Len(b) + Len(e)
        /\ \A i \in 1..Len(b) : (b \o e)[i] = b[i]
        /\ \A i \in 1..Len(e) : (b \o e)[Len(b) + i] = e[i]
    <3>1. IsString(b) /\ IsString(e)
      BY <2>2, <2>4
    <3> QED BY <3>1, Cat
  <2>6. c = b \o e
    BY <1>2, <2>1, <2>3
  <2> QED BY <2>2, <2>4, <2>5, <2>6
<1>4. ASSUME NEW w PROVE Marked(<<w>> \o Bar, c) <=> w = u
  <2>1. PICK b : b = <<w>> \o Bar
    OBVIOUS
  <2>2. IsString(b) /\ Len(b) = 2 /\ b[1] = w /\ b[2] = SEPARATOR
    BY <1>1, <2>1
  <2>3. /\ Len(SubSeq(b, 1, 2)) = 2 /\ SubSeq(b, 1, 2)[1] = w /\ SubSeq(b, 1, 2)[2] = SEPARATOR
        /\ \E S : SubSeq(b, 1, 2) \in Seq(S)
    BY <2>2 DEF IsString
  <2>4. /\ Len(SubSeq(c, 1, 2)) = 2 /\ SubSeq(c, 1, 2)[1] = u /\ SubSeq(c, 1, 2)[2] = SEPARATOR
        /\ \E S : SubSeq(c, 1, 2) \in Seq(S)
    BY <1>3 DEF IsString
  <2>5. Marked(b, c) <=> SubSeq(b, 1, 2) = SubSeq(c, 1, 2)
    BY <1>3, <2>2 DEF Marked, IsPrefix
  <2>6. SubSeq(b, 1, 2) = SubSeq(c, 1, 2) <=> w = u
    BY <2>3, <2>4
  <2> QED BY <2>1, <2>5, <2>6
<1>5. c # <<>> /\ \A w : Marked(<<w>> \o Bar, c) <=> w = u
  BY <1>3, <1>4
<1> QED BY <1>2, <1>3, <1>5

LEMMA SymbolIs == ASSUME NEW v PROVE FromHex(Hex(v)) = v
BY DEF FromHex, Hex

LEMMA MarksDiffer ==
  /\ InitMark = <<"__E2E_INIT__">> \o Bar /\ AckMark = <<"__E2E_ACK__">> \o Bar
  /\ SealedMark = <<"__E2E_MSG__">> \o Bar
  /\ Len(InitMark) = 2 /\ Len(AckMark) = 2 /\ Len(SealedMark) = 2
<1>1. \A w : Len(<<w>> \o Bar) = 2
  BY Symbol, Cat DEF Bar
<1> QED BY <1>1 DEF InitMark, AckMark, SealedMark

LEMMA AsksString ==
  ASSUME NEW dh
  PROVE  /\ IsString(Asks(dh)) /\ Asks(dh) # <<>> /\ Asks(dh)[3] = Hex(dh.public_key)
         /\ Marked(InitMark, Asks(dh)) /\ ~Marked(AckMark, Asks(dh))
         /\ ~Marked(SealedMark, Asks(dh))
BY Prefixed, MarksDiffer DEF Asks

LEMMA AnswersString ==
  ASSUME NEW dh
  PROVE  /\ IsString(Answers(dh)) /\ Answers(dh) # <<>> /\ Answers(dh)[3] = Hex(dh.public_key)
         /\ ~Marked(InitMark, Answers(dh)) /\ Marked(AckMark, Answers(dh))
         /\ ~Marked(SealedMark, Answers(dh))
BY Prefixed, MarksDiffer DEF Answers

LEMMA SaidString ==
  ASSUME PlainWords, NEW t, t.kind \in LineKinds, Asked(t)
  PROVE  /\ IsString(Said(t)) /\ Said(t) # <<>>
         /\ ~Marked(InitMark, Said(t)) /\ ~Marked(AckMark, Said(t))
         /\ t.key = {} => Said(t) = t.text /\ ~Marked(SealedMark, Said(t))
         /\ \A k \in t.key : /\ Said(t)[3] = Hex(aes_gcm_encrypt(k, Line(t)))
                             /\ Marked(SealedMark, Said(t)) /\ Len(Said(t)) = 3
<1>1. CASE t.key = {}
  <2>1. Said(t) = t.text /\ t.text \in Text
    BY <1>1 DEF Said, Asked
  <2> QED BY <1>1, <2>1, NonemptyAssumption DEF PlainWords, IsString
<1>2. ASSUME NEW k \in t.key
      PROVE  /\ IsString(Said(t)) /\ Said(t) # <<>>
             /\ ~Marked(InitMark, Said(t)) /\ ~Marked(AckMark, Said(t))
             /\ Said(t)[3] = Hex(aes_gcm_encrypt(k, Line(t)))
             /\ Marked(SealedMark, Said(t)) /\ Len(Said(t)) = 3
  <2>1. t.key = {k}
    BY <1>2 DEF Asked, AtMostOne
  <2>2. (CHOOSE x \in t.key : TRUE) = k
    BY <2>1
  <2>3. Said(t) = (<<"__E2E_MSG__">> \o Bar) \o <<Hex(aes_gcm_encrypt(k, Line(t)))>>
    BY <2>1, <2>2, MarksDiffer DEF Said
  <2>4. PICK u, x : u = "__E2E_MSG__" /\ x = Hex(aes_gcm_encrypt(k, Line(t)))
    OBVIOUS
  <2>5. PICK c : c = (<<u>> \o Bar) \o <<x>>
    OBVIOUS
  <2>6. /\ IsString(c) /\ Len(c) = 3 /\ c # <<>> /\ c[3] = x
        /\ \A w : Marked(<<w>> \o Bar, c) <=> w = u
    BY <2>5, Prefixed
  <2> QED BY <2>3, <2>4, <2>5, <2>6, MarksDiffer
<1> QED BY <1>1, <1>2

LEMMA NameString ==
  ASSUME PlainWords, NEW n \in Name
  PROVE  /\ IsString(n) /\ n # <<>> /\ SEPARATOR \notin ToSet(n) /\ SPACE \notin ToSet(n)
BY NonemptyAssumption DEF PlainWords, IsString

\* The messages that are sent, read again.
LEMMA NamedRead ==
  ASSUME PlainWords, NEW t \in NameAndContent, NEW n \in Name, NEW c, IsString(c), c # <<>>
  PROVE  parse_message(serialize_message(Msg(t, n, c))) = Msg(t, n, c)
BY NameString, ReadsNamed DEF PlainWords, TypeWords

LEMMA RefusalRead ==
  ASSUME PlainWords PROVE parse_message(serialize_message(Refusal)) = Refusal
<1>1. IsString(<<"reason">>) /\ <<"reason">> # <<>>
  BY Symbol
<1> QED BY <1>1, ReadsContent DEF PlainWords, TypeWords, Refusal, ContentOnly

LEMMA CommandRead ==
  ASSUME PlainWords, NEW t \in NoContent
  PROVE  parse_message(serialize_message(Msg(t, <<>>, <<>>))) = Msg(t, <<>>, <<>>)
BY ReadsNoContent DEF PlainWords, TypeWords

LEMMA ListRead ==
  ASSUME PlainWords, ListsReadBack, Tables, online # {}, NEW us \in SetToSeqs(online)
  PROVE  /\ parse_message(serialize_message(Msg("USERS", <<>>, who_content(us)))) =
              Msg("USERS", <<>>, who_content(us))
         /\ Split(who_content(us)) = us
<1>1. /\ IsString(who_content(us)) /\ who_content(us) # <<>> /\ Split(who_content(us)) = us
  BY DEF ListsReadBack, Tables, IsString
<1> QED BY <1>1, ReadsContent DEF PlainWords, TypeWords, ContentOnly

(***************************************************************************)
(* The commands keep the invariant.                                        *)
(***************************************************************************)
LEMMA TablesStay ==
  ASSUME Tables, online' = online, UNCHANGED <<current_chat, pending, aes_keys, inits>>
  PROVE  Tables'
BY DEF Tables

LEMMA Begins ==
  ASSUME NEW n \in Name, NEW kind, NEW p, NEW text, Types(n, kind, p, text)
  PROVE  /\ n \in online /\ online' = online /\ wire = {} /\ shown' = <<>>
         /\ \E t : /\ typed' = {t} /\ t.by = n /\ t.kind = kind /\ t.to = p /\ t.text = text
                   /\ t.key = IF p \in Name THEN aes_keys[n][p] ELSE {}
                   /\ t.fresh = (p \in Name /\ pending[n][p] = {})
<1>1. PICK key, fresh : /\ key = IF p \in Name THEN aes_keys[n][p] ELSE {}
                        /\ fresh = (p \in Name /\ pending[n][p] = {})
  OBVIOUS
<1>2. PICK t : t = [by |-> n, kind |-> kind, to |-> p, text |-> text, key |-> key,
                    fresh |-> fresh]
  OBVIOUS
<1>3. typed' = {t}
  BY <1>1, <1>2 DEF Types
<1>4. /\ t.by = n /\ t.kind = kind /\ t.to = p /\ t.text = text /\ t.key = key
      /\ t.fresh = fresh
  BY <1>2
<1> QED BY <1>1, <1>3, <1>4 DEF Types

LEMMA UnderWay ==
  ASSUME NEW t, typed' = {t}, Asked(t)', Way(t)'
  PROVE  Progress'
BY DEF Progress

LEMMA LogInKeeps ==
  ASSUME PlainWords, Tables, NEW n \in Name, LogIn(n)
  PROVE  Tables' /\ Progress'
<1>1. parse_message(serialize_message(Msg("LOGIN", n, <<>>))) = Msg("LOGIN", n, <<>>)
  BY NameString, ReadsLogin DEF PlainWords, TypeWords
<1>2. online' = online \cup {n}
  BY <1>1, MsgFields DEF LogIn
<1>3. IsFiniteSet(online')
  BY <1>2, FS_AddElement DEF Tables
<1>4. Tables'
  BY <1>2, <1>3 DEF LogIn, Tables
<1> QED BY <1>4 DEF LogIn, Progress

LEMMA AskWhoKeeps ==
  ASSUME PlainWords, Tables, NEW n \in Name, AskWho(n)
  PROVE  Tables' /\ Progress'
<1>1. Types(n, "who", <<>>, <<>>)
  BY DEF AskWho
<1>2. PICK t : typed' = {t} /\ t.by = n /\ t.kind = "who"
  BY <1>1, Begins
<1>3. n \in online /\ online' = online /\ shown' = <<>>
  BY <1>1, Begins
<1>4. wire' = Frame("server", n, Msg("WHO", <<>>, <<>>))
  BY DEF AskWho
<1>5. Carries(wire', "server", n, Msg("WHO", <<>>, <<>>))
  BY <1>4, FrameCarries, CommandRead DEF NoContent
<1>6. Way(t)'
  BY <1>2, <1>3, <1>5 DEF Way, WhoWay, OnWire, LineKinds
<1>7. Asked(t)'
  BY <1>2, <1>3 DEF Asked, LineKinds
<1>8. Tables'
  BY <1>3, TablesStay DEF AskWho
<1> QED BY <1>2, <1>6, <1>7, <1>8, UnderWay

LEMMA ChatKeeps ==
  ASSUME Tables, NEW n \in Name, NEW p \in Name, Chat(n, p)
  PROVE  Tables' /\ Progress'
<1>1. Types(n, "chat", p, <<>>)
  BY DEF Chat
<1>2. PICK t : typed' = {t} /\ t.by = n /\ t.kind = "chat"
  BY <1>1, Begins
<1>3. n \in online /\ online' = online /\ shown' = <<>> /\ wire' = {}
  BY <1>1, Begins DEF Chat
<1>4. Way(t)' /\ Asked(t)'
  BY <1>2, <1>3 DEF Way, Asked, LineKinds
<1>5. Tables'
  BY <1>3 DEF Chat, Tables
<1> QED BY <1>2, <1>4, <1>5, UnderWay

LEMMA E2EKeeps ==
  ASSUME PlainWords, Tables, NEW n \in Name, NEW p \in Name, E2E(n, p)
  PROVE  Tables' /\ Progress'
<1>1. Types(n, "e2e", p, <<>>)
  BY DEF E2E
<1>2. PICK t : /\ typed' = {t} /\ t.by = n /\ t.kind = "e2e" /\ t.to = p
               /\ t.fresh = (p \in Name /\ pending[n][p] = {})
  BY <1>1, Begins
<1>3. n \in online /\ online' = online /\ shown' = <<>>
  BY <1>1, Begins
<1>4. PICK dh \in DHkeypair :
        /\ pending' = [pending EXCEPT ![n][p] = IF @ = {} THEN {dh} ELSE @]
        /\ wire' = Frame("server", n, Msg("MSG", p, InitMark \o <<Hex(dh.public_key)>>))
  BY DEF E2E
<1>5. Carries(wire', "server", n, Msg("MSG", p, Asks(dh)))
  <2>1. wire' = Frame("server", n, Msg("MSG", p, Asks(dh)))
    BY <1>4 DEF Asks
  <2>2. parse_message(serialize_message(Msg("MSG", p, Asks(dh)))) = Msg("MSG", p, Asks(dh))
    BY AsksString, NamedRead DEF NameAndContent
  <2> QED BY <2>1, <2>2, FrameCarries
<1>6. /\ pending' \in [Name -> [Name -> {{}} \cup {{d} : d \in DHkeypair}]]
      /\ pending[n][p] = {} => pending'[n][p] = {dh}
  BY <1>4 DEF Tables
<1>7. ExchangeWith(t, dh, dh)'
  BY <1>2, <1>3, <1>5, <1>6 DEF ExchangeWith, OnWire
<1>8. Way(t)'
  BY <1>2, <1>4, <1>7 DEF Way, ExchangeWay, LineKinds
<1>9. Asked(t)'
  BY <1>2, <1>3 DEF Asked, LineKinds
<1>10. Tables'
  <2>1. inits' \in 0..MaxInits /\ aes_keys' = aes_keys /\ current_chat' = current_chat
    BY BoundAssumption DEF E2E, Tables
  <2> QED BY <1>3, <1>6, <2>1 DEF Tables
<1> QED BY <1>2, <1>8, <1>9, <1>10, UnderWay

LEMMA QuitKeeps ==
  ASSUME PlainWords, Tables, NEW n \in Name, Quit(n)
  PROVE  Tables' /\ Progress'
<1>1. Types(n, "quit", <<>>, <<>>)
  BY DEF Quit
<1>2. PICK t : typed' = {t} /\ t.by = n /\ t.kind = "quit"
  BY <1>1, Begins
<1>3. n \in online /\ online' = online /\ shown' = <<>>
  BY <1>1, Begins
<1>4. wire' = Frame("server", n, Msg("QUIT", <<>>, <<>>))
  BY DEF Quit
<1>5. Carries(wire', "server", n, Msg("QUIT", <<>>, <<>>))
  BY <1>4, FrameCarries, CommandRead DEF NoContent
<1>6. Way(t)' /\ Asked(t)'
  BY <1>2, <1>3, <1>5 DEF Way, OnWire, LineKinds, Asked
<1>7. Tables'
  <2>1. /\ current_chat' = [current_chat EXCEPT ![n] = <<>>]
        /\ pending' = [pending EXCEPT ![n] = [p \in Name |-> {}]]
        /\ aes_keys' = [aes_keys EXCEPT ![n] = [p \in Name |-> {}]] /\ inits' = inits
    BY DEF Quit
  <2>2. /\ aes_keys' = [m \in Name |-> [p \in Name |-> aes_keys'[m][p]]]
        /\ \A m, p \in Name : AtMostOne(aes_keys'[m][p])
    <3>1. aes_keys = [m \in Name |-> [p \in Name |-> aes_keys[m][p]]]
      BY DEF Tables
    <3>2. \A m \in Name : aes_keys'[m] = IF m = n THEN [p \in Name |-> {}] ELSE aes_keys[m]
      BY <2>1, <3>1
    <3>3. \A m \in Name : aes_keys'[m] = [p \in Name |-> aes_keys'[m][p]]
      BY <3>1, <3>2
    <3>4. aes_keys' = [m \in Name |-> aes_keys'[m]]
      BY <2>1, <3>1
    <3>5. \A m, p \in Name : AtMostOne(aes_keys'[m][p])
      <4>1. \A m, p \in Name : aes_keys'[m][p] = {} \/ aes_keys'[m][p] = aes_keys[m][p]
        BY <3>2
      <4>2. \A m, p \in Name : AtMostOne(aes_keys[m][p])
        BY DEF Tables
      <4> QED BY <4>1, <4>2 DEF AtMostOne
    <3> QED BY <3>3, <3>4, <3>5
  <2>3. pending' \in [Name -> [Name -> {{}} \cup {{d} : d \in DHkeypair}]]
    BY <2>1 DEF Tables
  <2>4. current_chat' \in [Name -> Name \cup {<<>>}]
    BY <2>1 DEF Tables
  <2> QED BY <1>3, <2>1, <2>2, <2>3, <2>4 DEF Tables
<1> QED BY <1>2, <1>6, <1>7, UnderWay

LEMMA LineSent ==
  ASSUME PlainWords, NEW t, t.kind \in LineKinds, Asked(t),
         NEW w, w = Frame("server", t.by, Msg("MSG", t.to, Said(t)))
  PROVE  Carries(w, "server", t.by, Msg("MSG", t.to, Said(t)))
<1>1. t.to \in Name /\ IsString(Said(t)) /\ Said(t) # <<>>
  BY SaidString DEF Asked
<1> QED BY <1>1, NamedRead, FrameCarries DEF NameAndContent

LEMMA OneKey ==
  ASSUME Tables, NEW n \in Name, NEW p \in Name
  PROVE  AtMostOne(aes_keys[n][p])
BY DEF Tables

\* A line under a key is sealed as it was typed, another is sent as its words.
LEMMA SaidIs ==
  ASSUME NEW t, NEW input, input = Line(t),
         t.key = {} => (IF IsDirect(input) THEN Unprefixed(input) ELSE input) = t.text
  PROVE  Content(input, t.key) = Said(t)
BY DEF Content, Said

LEMMA SayHereKeeps ==
  ASSUME PlainWords, Tables, NEW n \in Name, NEW text \in Text, SayHere(n, text)
  PROVE  Tables' /\ Progress'
<1>1. Types(n, "line", current_chat[n], text) /\ Say(n, text)
  BY DEF SayHere
<1>2. PICK t : /\ typed' = {t} /\ t.by = n /\ t.kind = "line" /\ t.to = current_chat[n]
               /\ t.text = text
               /\ t.key = IF current_chat[n] \in Name THEN aes_keys[n][current_chat[n]] ELSE {}
  BY <1>1, Begins
<1>3. n \in online /\ online' = online /\ shown' = <<>>
  BY <1>1, Begins
<1>4. ~IsDirect(text)
  BY DEF PlainWords, IsDirect
<1>5. /\ t.to # <<>> /\ current_chat' = [current_chat EXCEPT ![n] = t.to]
      /\ wire' = Frame("server", n, Msg("MSG", t.to, Content(text, aes_keys[n][t.to])))
      /\ UNCHANGED sessionVars
  BY <1>1, <1>2, <1>4 DEF Say
<1>6. t.to \in Name /\ t.key = aes_keys[n][t.to]
  BY <1>2, <1>5 DEF Tables
<1>7. Asked(t) /\ Asked(t)'
  BY <1>2, <1>3, <1>6, OneKey DEF Asked, LineKinds
<1>8. Content(text, t.key) = Said(t)
  BY <1>2, <1>4, SaidIs DEF Line
<1>9. Carries(wire', "server", t.by, Msg("MSG", t.to, Said(t)))
  BY <1>2, <1>5, <1>6, <1>7, <1>8, LineSent DEF LineKinds
<1>10. Way(t)'
  BY <1>2, <1>3, <1>9 DEF Way, LineWay, OnWire, LineKinds
<1>11. Tables'
  <2>1. current_chat' \in [Name -> Name \cup {<<>>}]
    BY <1>5, <1>6 DEF Tables
  <2> QED BY <2>1, <1>3, <1>5 DEF Tables, sessionVars
<1> QED BY <1>2, <1>7, <1>10, <1>11, UnderWay

\* The words after  @peer  and a space are those that were typed.
LEMMA DirectSplit ==
  ASSUME PlainWords, NEW p \in Name, NEW text \in Text,
         NEW input, input = <<"@">> \o p \o <<SPACE>> \o text
  PROVE  IsDirect(input) /\ Addressee(input) = p /\ Unprefixed(input) = text
<1>1. PICK s : s = <<"@">> \o p
  OBVIOUS
<1>2. IsString(<<"@">>) /\ IsString(p) /\ IsString(text) /\ text # <<>>
  BY NameString, Symbol, NonemptyAssumption DEF PlainWords, IsString
<1>3. /\ IsString(s) /\ Len(s) = 1 + Len(p) /\ s[1] = "@" /\ Len(p) \in Nat
      /\ \A i \in 1..Len(p) : s[1 + i] = p[i]
  <2>1. PICK a : a = <<"@">>
    OBVIOUS
  <2>2. IsString(a) /\ Len(a) = 1 /\ a[1] = "@"
    BY <2>1, Symbol
  <2>3. /\ IsString(a \o p) /\ Len(a \o p) = Len(a) + Len(p) /\ Len(p) \in Nat
        /\ \A i \in 1..Len(a) : (a \o p)[i] = a[i]
        /\ \A i \in 1..Len(p) : (a \o p)[Len(a) + i] = p[i]
    <3>1. IsString(a) /\ IsString(p)
      BY <1>2, <2>2
    <3> QED BY <3>1, Cat
  <2> QED BY <1>1, <2>1, <2>2, <2>3
<1>4. SPACE \notin ToSet(s)
  <2> SUFFICES ASSUME NEW i \in 1..Len(s), s[i] = SPACE PROVE FALSE
    BY <1>3 DEF ToSet, IsString
  <2>1. CASE i = 1
    BY <2>1, <1>3 DEF SPACE
  <2>2. CASE i # 1
    <3>1. i - 1 \in 1..Len(p) /\ 1 + (i - 1) = i
      BY <2>2, <1>3
    <3>2. p[i - 1] = SPACE /\ p[i - 1] \in ToSet(p)
      <4>1. p[i - 1] = SPACE
        BY <3>1, <1>3
      <4>2. p[i - 1] \in ToSet(p)
        BY <3>1, <1>2 DEF ToSet, IsString
      <4> QED BY <4>1, <4>2
    <3> QED BY <3>2, NameString
  <2> QED BY <2>1, <2>2
<1>5. /\ First(input, SPACE) = Len(s) + 1 /\ SubSeq(input, 1, Len(s)) = s
      /\ SubSeq(input, Len(s) + 2, Len(input)) = text
  <2>1. input = (s \o <<SPACE>>) \o text
    BY <1>1
  <2>2. IsString(s) /\ IsString(text) /\ SPACE \notin ToSet(s)
    BY <1>2, <1>3, <1>4
  <2>3. PICK x : x = SPACE
    OBVIOUS
  <2>4. LET z == (s \o <<x>>) \o text
        IN /\ First(z, x) = Len(s) + 1 /\ SubSeq(z, 1, Len(s)) = s
           /\ SubSeq(z, Len(s) + 2, Len(z)) = text
    BY <2>2, <2>3, FirstAt
  <2> QED BY <2>1, <2>3, <2>4
<1>6. FindSpace(input) = Len(s) + 1
  BY <1>5, FindFirst
<1>7. IsString(input) /\ Len(input) >= Len(s) /\ \A i \in 1..Len(s) : input[i] = s[i]
  <2>1. PICK b : b = s \o <<SPACE>>
    OBVIOUS
  <2>2. IsString(<<SPACE>>) /\ Len(<<SPACE>>) = 1
    BY Symbol
  <2>3. IsString(b) /\ Len(b) = Len(s) + 1 /\ \A i \in 1..Len(s) : b[i] = s[i]
    BY <1>3, <2>1, <2>2, Cat
  <2>4. /\ IsString(b \o text) /\ Len(b \o text) = Len(b) + Len(text) /\ Len(text) \in Nat
        /\ \A i \in 1..Len(b) : (b \o text)[i] = b[i]
    BY <1>2, <2>3, Cat
  <2>5. input = b \o text
    BY <1>1, <2>1
  <2>6. IsString(input) /\ Len(input) >= Len(s)
    <3>1. IsString(input)
      BY <2>4, <2>5
    <3>2. Len(input) = Len(b) + Len(text)
      BY <2>4, <2>5
    <3>3. Len(b) = Len(s) + 1 /\ Len(s) \in Nat /\ Len(text) \in Nat
      BY <2>3, <2>4, <1>3
    <3> QED BY <3>1, <3>2, <3>3
  <2>7. ASSUME NEW i \in 1..Len(s) PROVE input[i] = s[i]
    <3>1. i \in 1..Len(b)
      BY <2>3, <1>3
    <3> QED BY <3>1, <2>3, <2>4, <2>5
  <2> QED BY <2>6, <2>7
<1>8. IsDirect(input)
  BY <1>3, <1>7 DEF IsDirect, IsString
<1>9. Addressee(input) = p
  <2>1. Addressee(input) = SubSeq(input, 2, Len(s))
    BY <1>3, <1>6 DEF Addressee
  <2>2. /\ Len(SubSeq(input, 2, Len(s))) = Len(p)
        /\ \A i \in 1..Len(p) : SubSeq(input, 2, Len(s))[i] = p[i]
        /\ SubSeq(input, 2, Len(s)) \in Seq(ToSet(input))
    BY <1>3, <1>7 DEF IsString
  <2>3. PICK q : q = SubSeq(input, 2, Len(s))
    OBVIOUS
  <2>4. q = p
    BY <2>2, <2>3, <1>2 DEF IsString
  <2> QED BY <2>1, <2>3, <2>4
<1>10. Unprefixed(input) = text
  <2>1. Unprefixed(input) = SubSeq(input, Len(s) + 2, Len(input))
    <3>1. FindSpace(input) + 1 = Len(s) + 2
      BY <1>3, <1>6
    <3> QED BY <3>1 DEF Unprefixed
  <2> QED BY <2>1, <1>5
<1> QED BY <1>8, <1>9, <1>10

LEMMA SayToKeeps ==
  ASSUME PlainWords, Tables, NEW n \in Name, NEW p \in Name, NEW text \in Text,
         SayTo(n, p, text)
  PROVE  Tables' /\ Progress'
<1>0. PICK input : input = <<"@">> \o p \o <<SPACE>> \o text
  OBVIOUS
<1>1. Types(n, "@line", p, text) /\ Say(n, input)
  BY <1>0 DEF SayTo
<1>2. PICK t : /\ typed' = {t} /\ t.by = n /\ t.kind = "@line" /\ t.to = p
               /\ t.text = text /\ t.key = aes_keys[n][p]
  BY <1>1, Begins
<1>3. n \in online /\ online' = online /\ shown' = <<>>
  BY <1>1, Begins
<1>4. IsDirect(input) /\ Addressee(input) = p /\ Unprefixed(input) = text
  BY <1>0, DirectSplit
<1>5. /\ current_chat' = [current_chat EXCEPT ![n] = p]
      /\ wire' = Frame("server", n, Msg("MSG", p, Content(input, aes_keys[n][p])))
      /\ UNCHANGED sessionVars
  BY <1>1, <1>4 DEF Say
<1>7. Asked(t) /\ Asked(t)'
  BY <1>2, <1>3, OneKey DEF Asked, LineKinds
<1>8. Content(input, t.key) = Said(t)
  <2>1. input = Line(t)
    BY <1>0, <1>2 DEF Line
  <2> QED BY <2>1, <1>2, <1>4, SaidIs
<1>9. Carries(wire', "server", t.by, Msg("MSG", t.to, Said(t)))
  BY <1>2, <1>5, <1>7, <1>8, LineSent DEF LineKinds
<1>10. Way(t)'
  BY <1>2, <1>3, <1>9 DEF Way, LineWay, OnWire, LineKinds
<1>11. Tables'
  <2>1. current_chat' \in [Name -> Name \cup {<<>>}]
    BY <1>5 DEF Tables
  <2> QED BY <2>1, <1>3, <1>5 DEF Tables, sessionVars
<1> QED BY <1>2, <1>7, <1>10, <1>11, UnderWay

(***************************************************************************)
(* The frames keep it: what the server and the receivers read is what the  *)
(* command under way has put on the wire.                                  *)
(***************************************************************************)
\* What the server reads of the command t.
AskedServer(t, n, m) ==
  \/ /\ t.kind \in LineKinds /\ n = t.by /\ m = Msg("MSG", t.to, Said(t)) /\ shown = <<>>
  \/ /\ t.kind = "who" /\ n = t.by /\ m = Msg("WHO", <<>>, <<>>) /\ shown = <<>>
  \/ /\ t.kind = "quit" /\ n = t.by /\ m = Msg("QUIT", <<>>, <<>>) /\ shown = <<>>
  \/ /\ t.kind = "e2e"
     /\ \E dh, peer \in DHkeypair :
          /\ t.fresh => pending[t.by][t.to] = {dh}
          /\ \/ n = t.by /\ m = Msg("MSG", t.to, Asks(dh)) /\ shown = <<>>
             \/ n = t.to /\ m = Msg("MSG", t.by, Answers(peer)) /\ Answered(t, dh, peer)

\* What a client reads of it.
ToldClient(t, n, m) ==
  \/ /\ t.kind \in LineKinds /\ n = t.to /\ t.to \in online /\ shown = <<>>
     /\ m = Msg("FROM", t.by, Said(t))
  \/ /\ t.kind \in LineKinds \cup {"e2e"} /\ n = t.by /\ t.to \notin online /\ shown = <<>>
     /\ m = Refusal
  \/ /\ t.kind = "who" /\ n = t.by /\ shown = <<>>
     /\ \E us \in SetToSeqs(online) : m = Msg("USERS", <<>>, who_content(us))
  \/ /\ t.kind = "e2e"
     /\ \E dh, peer \in DHkeypair :
          /\ t.fresh => pending[t.by][t.to] = {dh}
          /\ \/ /\ n = t.to /\ t.to \in online /\ shown = <<>>
                /\ m = Msg("FROM", t.by, Asks(dh))
             \/ /\ n = t.by /\ Answered(t, dh, peer)
                /\ m = Msg("FROM", t.to, Answers(peer))

LEMMA WireIs ==
  ASSUME NEW f \in wire, NEW to, NEW by, NEW m
  PROVE  OnWire(to, by, m) => f.to = to /\ f.by = by /\ parse_message(f.payload) = m
BY CarriesOne DEF OnWire

LEMMA ServerReads ==
  ASSUME NEW t, Asked(t), Way(t), NEW f \in wire, f.to = "server"
  PROVE  AskedServer(t, f.by, parse_message(f.payload))
<1>1. CASE t.kind \in LineKinds
  <2>1. LineWay(t) /\ wire # {}
    BY <1>1 DEF Way
  <2> QED BY <1>1, <2>1, WireIs DEF LineWay, AskedServer
<1>2. CASE t.kind = "who"
  <2>1. WhoWay(t) /\ wire # {}
    BY <1>2 DEF Way
  <2> QED BY <1>2, <2>1, WireIs DEF WhoWay, AskedServer
<1>3. CASE t.kind = "quit"
  <2>1. shown = <<>> /\ OnWire("server", t.by, Msg("QUIT", <<>>, <<>>))
    BY <1>3 DEF Way
  <2> QED BY <1>3, <2>1, WireIs DEF AskedServer
<1>4. CASE t.kind = "e2e"
  <2>1. PICK dh \in DHkeypair, peer \in DHkeypair : ExchangeWith(t, dh, peer)
    BY <1>4 DEF Way, ExchangeWay
  <2>2. /\ t.fresh => pending[t.by][t.to] = {dh}
        /\ \/ OnWire("server", t.by, Msg("MSG", t.to, Asks(dh))) /\ shown = <<>>
           \/ OnWire("server", t.to, Msg("MSG", t.by, Answers(peer))) /\ Answered(t, dh, peer)
    BY <2>1, WireIs DEF ExchangeWith
  <2> QED BY <1>4, <2>2, WireIs DEF AskedServer
<1>5. CASE t.kind = "chat"
  BY <1>5 DEF Way
<1> QED BY <1>1, <1>2, <1>3, <1>4, <1>5 DEF Asked

LEMMA ClientReads ==
  ASSUME NEW t, Asked(t), Way(t), NEW f \in wire, f.to = "client"
  PROVE  ToldClient(t, f.by, parse_message(f.payload))
<1>1. CASE t.kind \in LineKinds
  <2>1. LineWay(t) /\ wire # {}
    BY <1>1 DEF Way
  <2> QED BY <1>1, <2>1, WireIs DEF LineWay, ToldClient
<1>2. CASE t.kind = "who"
  <2>1. WhoWay(t) /\ wire # {}
    BY <1>2 DEF Way
  <2> QED BY <1>2, <2>1, WireIs DEF WhoWay, ToldClient
<1>3. t.kind # "quit"
  <2>1. ASSUME t.kind = "quit" PROVE OnWire("server", t.by, Msg("QUIT", <<>>, <<>>))
    BY <2>1 DEF Way
  <2> QED BY <2>1, WireIs
<1>4. CASE t.kind = "e2e"
  <2>1. PICK dh \in DHkeypair, peer \in DHkeypair : ExchangeWith(t, dh, peer)
    BY <1>4 DEF Way, ExchangeWay
  <2>2. CASE t.to \notin online /\ OnWire("client", t.by, Refusal) /\ shown = <<>>
    BY <1>4, <2>2, WireIs DEF ToldClient
  <2>3. CASE
        /\ t.fresh => pending[t.by][t.to] = {dh}
        /\ \/ /\ t.to \in online /\ shown = <<>>
              /\ OnWire("client", t.to, Msg("FROM", t.by, Asks(dh)))
           \/ OnWire("client", t.by, Msg("FROM", t.to, Answers(peer))) /\ Answered(t, dh, peer)
    BY <1>4, <2>3, WireIs DEF ToldClient
  <2> QED BY <2>1, <2>2, <2>3, WireIs DEF ExchangeWith
<1>5. CASE t.kind = "chat"
  BY <1>5 DEF Way
<1> QED BY <1>1, <1>2, <1>3, <1>4, <1>5 DEF Asked

LEMMA StillAsked ==
  ASSUME NEW t, typed = {t}, Asked(t), typed' = typed, online' = online, Way(t)'
  PROVE  Progress'
<1>1. Asked(t)'
  BY DEF Asked
<1> QED BY <1>1 DEF Progress

\* The server answers or relays.
LEMMA HandleMessageKeeps ==
  ASSUME PlainWords, ListsReadBack, Tables, NEW t, typed = {t}, Asked(t), Way(t),
         NEW n, NEW m, handle_message(n, m)
  PROVE  Tables' /\ Progress'
<1>1. AskedServer(t, n, m) /\ m.type # "QUIT"
  BY ServerReads DEF handle_message, AtServer
<1>2. wire' \in Answer(n, m)
  BY DEF handle_message
<1>3. UNCHANGED <<online, current_chat, pending, aes_keys, inits, typed, shown>>
  BY DEF handle_message
<1>4. Tables'
  BY <1>3, TablesStay
<1>5. ASSUME m.type = "MSG", m.who \in online
      PROVE  wire' = Frame("client", m.who, Msg("FROM", n, m.content))
  BY <1>2, <1>5, MsgFields DEF Answer, Invalid
<1>6. ASSUME m.type = "MSG", m.who \notin online PROVE wire' = Frame("client", n, Refusal)
  BY <1>2, <1>6, MsgFields DEF Answer, Refusal, Invalid
<1>7. ASSUME wire' = Frame("client", n, Refusal) PROVE OnWire("client", n, Refusal)'
  BY <1>7, RefusalRead, FrameCarries DEF OnWire
<1>8. ASSUME NEW p, NEW c, n \in Name, IsString(c), c # <<>>,
             wire' = Frame("client", p, Msg("FROM", n, c))
      PROVE  OnWire("client", p, Msg("FROM", n, c))'
  BY <1>8, NamedRead, FrameCarries DEF OnWire, NameAndContent
<1>9. CASE t.kind \in LineKinds
  <2>1. n = t.by /\ m = Msg("MSG", t.to, Said(t)) /\ shown = <<>>
    BY <1>1, <1>9 DEF AskedServer, LineKinds
  <2>2. m.type = "MSG" /\ m.who = t.to /\ m.content = Said(t)
    BY <2>1, MsgFields
  <2>3. n \in Name /\ IsString(Said(t)) /\ Said(t) # <<>>
    BY <1>9, <2>1, SaidString DEF Asked
  <2>4. CASE t.to \in online
    <3>1. OnWire("client", t.to, Msg("FROM", t.by, Said(t)))'
      BY <1>2, <1>5, <1>8, <2>1, <2>2, <2>3, <2>4
    <3>2. Way(t)'
      BY <3>1, <2>1, <2>4, <1>3, <1>9 DEF Way, LineWay, LineKinds
    <3> QED BY <3>2, <1>3, <1>4, StillAsked
  <2>5. CASE t.to \notin online
    <3>1. OnWire("client", t.by, Refusal)'
      BY <1>2, <1>6, <1>7, <2>1, <2>2, <2>5
    <3>2. Way(t)'
      BY <3>1, <2>1, <2>5, <1>3, <1>9 DEF Way, LineWay, LineKinds
    <3> QED BY <3>2, <1>3, <1>4, StillAsked
  <2> QED BY <2>4, <2>5
<1>10. CASE t.kind = "who"
  <2>1. n = t.by /\ m = Msg("WHO", <<>>, <<>>) /\ shown = <<>>
    BY <1>1, <1>10 DEF AskedServer, LineKinds
  <2>2. PICK us \in SetToSeqs(online) :
          wire' = Frame("client", n, Msg("USERS", <<>>, who_content(us)))
    BY <1>2, <2>1, MsgFields DEF Answer, Invalid
  <2>3. online # {}
    BY <1>10 DEF Asked
  <2>4. LET list == Msg("USERS", <<>>, who_content(us))
        IN parse_message(serialize_message(list)) = list
    BY <2>2, <2>3, ListRead
  <2>5. OnWire("client", t.by, Msg("USERS", <<>>, who_content(us)))'
    BY <1>2, <2>1, <2>2, <2>4, FrameCarries DEF OnWire
  <2>6. Way(t)'
    BY <2>1, <2>5, <1>3, <1>10 DEF Way, WhoWay, LineKinds
  <2> QED BY <2>6, <1>3, <1>4, StillAsked
<1>11. CASE t.kind = "e2e"
  <2>1. PICK dh \in DHkeypair, peer \in DHkeypair :
          /\ t.fresh => pending[t.by][t.to] = {dh}
          /\ \/ n = t.by /\ m = Msg("MSG", t.to, Asks(dh)) /\ shown = <<>>
             \/ n = t.to /\ m = Msg("MSG", t.by, Answers(peer)) /\ Answered(t, dh, peer)
    BY <1>1, <1>11 DEF AskedServer, LineKinds
  <2>2. t.by \in Name /\ t.to \in Name /\ t.by \in online
    BY <1>11 DEF Asked
  <2>3. ASSUME ExchangeWith(t, dh, peer)' PROVE Tables' /\ Progress'
    <3>1. Way(t)'
      BY <1>11, <2>3 DEF Way, ExchangeWay, LineKinds
    <3> QED BY <3>1, <1>3, <1>4, StillAsked
  <2>4. CASE n = t.by /\ m = Msg("MSG", t.to, Asks(dh)) /\ shown = <<>>
    <3>1. m.type = "MSG" /\ m.who = t.to /\ m.content = Asks(dh)
      BY <2>4, MsgFields
    <3>2. CASE t.to \in online
      <4>1. OnWire("client", t.to, Msg("FROM", t.by, Asks(dh)))'
        BY <1>2, <1>5, <1>8, <2>2, <2>4, <3>1, <3>2, AsksString
      <4> QED BY <4>1, <3>2, <2>1, <2>3, <2>4, <1>3 DEF ExchangeWith
    <3>3. CASE t.to \notin online
      <4>1. OnWire("client", t.by, Refusal)'
        BY <1>2, <1>6, <1>7, <2>4, <3>1, <3>3
      <4> QED BY <4>1, <3>3, <2>3, <2>4, <1>3 DEF ExchangeWith
    <3> QED BY <3>2, <3>3
  <2>5. CASE n = t.to /\ m = Msg("MSG", t.by, Answers(peer)) /\ Answered(t, dh, peer)
    <3>1. m.type = "MSG" /\ m.who = t.by /\ m.content = Answers(peer)
      BY <2>5, MsgFields
    <3>2. OnWire("client", t.by, Msg("FROM", t.to, Answers(peer)))'
      BY <1>2, <1>5, <1>8, <2>2, <2>5, <3>1, AnswersString
    <3>3. Answered(t, dh, peer)'
      BY <2>5, <1>3 DEF Answered
    <3> QED BY <3>2, <3>3, <2>1, <2>3, <1>3 DEF ExchangeWith
  <2> QED BY <2>1, <2>4, <2>5
<1>12. t.kind # "quit"
  BY <1>1, MsgFields DEF AskedServer, LineKinds
<1>13. t.kind # "chat"
  BY <1>1 DEF AskedServer, LineKinds
<1> QED BY <1>9, <1>10, <1>11, <1>12, <1>13 DEF Asked

LEMMA HandleQuitKeeps ==
  ASSUME Tables, NEW t, typed = {t}, Asked(t), Way(t), NEW n, NEW m, HandleQuit(n, m)
  PROVE  Tables' /\ Progress'
<1>1. AskedServer(t, n, m) /\ m.type = "QUIT"
  BY ServerReads DEF HandleQuit, AtServer
<1>2. t.kind = "quit" /\ shown = <<>>
  BY <1>1, MsgFields DEF AskedServer
<1>3. /\ online' = online \ {n} /\ wire' = {}
      /\ UNCHANGED <<current_chat, pending, aes_keys, inits, typed, shown>>
  BY DEF HandleQuit
<1>4. Tables'
  <2>1. IsFiniteSet(online')
    BY <1>3, FS_RemoveElement DEF Tables
  <2> QED BY <2>1, <1>3 DEF Tables
<1>5. Asked(t)'
  BY <1>2 DEF Asked, LineKinds
<1>6. Way(t)'
  BY <1>2, <1>3 DEF Way, LineKinds
<1> QED BY <1>3, <1>4, <1>5, <1>6 DEF Progress

\* The receivers: what is told to a client is for it alone to act on.
LEMMA Reads ==
  ASSUME NEW t, Asked(t), Way(t), NEW n, NEW type, NEW m, Receives(n, type, m)
  PROVE  /\ ToldClient(t, n, m) /\ m.type = type
         /\ UNCHANGED <<online, current_chat, inits, typed>>
BY ClientReads DEF Receives

\* The sender's name and content of a FROM that a client is told.
LEMMA FromTold ==
  ASSUME PlainWords, NEW t, Asked(t), NEW n, NEW m, ToldClient(t, n, m), m.type = "FROM"
  PROVE  \/ /\ t.kind \in LineKinds /\ n = t.to /\ t.to \in online /\ shown = <<>>
            /\ m.who = t.by /\ m.content = Said(t)
         \/ /\ t.kind = "e2e"
            /\ \E dh, peer \in DHkeypair :
                 /\ t.fresh => pending[t.by][t.to] = {dh}
                 /\ \/ /\ n = t.to /\ t.to \in online /\ shown = <<>>
                       /\ m.who = t.by /\ m.content = Asks(dh)
                    \/ /\ n = t.by /\ Answered(t, dh, peer)
                       /\ m.who = t.to /\ m.content = Answers(peer)
<1>1. m # Refusal /\ \A us : m # Msg("USERS", <<>>, who_content(us))
  BY MsgFields DEF Refusal
<1>2. CASE t.kind \in LineKinds
  BY <1>1, <1>2, MsgFields DEF ToldClient, LineKinds
<1>3. CASE t.kind = "e2e"
  <2>1. PICK dh \in DHkeypair, peer \in DHkeypair :
          /\ t.fresh => pending[t.by][t.to] = {dh}
          /\ \/ /\ n = t.to /\ t.to \in online /\ shown = <<>>
                /\ m = Msg("FROM", t.by, Asks(dh))
             \/ /\ n = t.by /\ Answered(t, dh, peer)
                /\ m = Msg("FROM", t.to, Answers(peer))
    BY <1>1, <1>3 DEF ToldClient, LineKinds
  <2> QED BY <1>3, <2>1, MsgFields
<1> QED BY <1>1, <1>2, <1>3 DEF ToldClient

\* A session key is filed for a name: the tables keep their shape.
LEMMA KeyFiled ==
  ASSUME Tables, NEW n \in Name, NEW p \in Name, NEW k,
         aes_keys' = [aes_keys EXCEPT ![n][p] = {k}]
  PROVE  /\ aes_keys' = [u \in Name |-> [q \in Name |-> aes_keys'[u][q]]]
         /\ \A u, q \in Name : AtMostOne(aes_keys'[u][q])
         /\ aes_keys'[n][p] = {k}
         /\ \A u, q \in Name : <<u, q>> # <<n, p>> => aes_keys'[u][q] = aes_keys[u][q]
<1>1. aes_keys = [u \in Name |-> [q \in Name |-> aes_keys[u][q]]]
  BY DEF Tables
<1>2. \A u, q \in Name : aes_keys'[u][q] = IF u = n /\ q = p THEN {k} ELSE aes_keys[u][q]
  BY <1>1
<1>3. \A u \in Name : aes_keys'[u] = [q \in Name |-> aes_keys'[u][q]]
  BY <1>1
<1>4. aes_keys' = [u \in Name |-> aes_keys'[u]]
  BY <1>1
<1>5. ASSUME NEW u \in Name, NEW q \in Name PROVE AtMostOne(aes_keys'[u][q])
  <2>1. AtMostOne({k}) /\ AtMostOne(aes_keys[u][q])
    BY DEF AtMostOne, Tables
  <2> QED BY <1>2, <2>1
<1>6. aes_keys' = [u \in Name |-> [q \in Name |-> aes_keys'[u][q]]]
  BY <1>3, <1>4
<1>7. aes_keys'[n][p] = {k}
  BY <1>2
<1>8. \A u, q \in Name : <<u, q>> # <<n, p>> => aes_keys'[u][q] = aes_keys[u][q]
  BY <1>2
<1> QED BY <1>5, <1>6, <1>7, <1>8

\* The session keys change by one that two keypairs share, or not at all.
Filed ==
  \/ UNCHANGED aes_keys
  \/ \E n, p \in Name, dh, peer \in DHkeypair :
       aes_keys' = [aes_keys EXCEPT ![n][p] = {KeyWith(dh, peer)}]

LEMMA ReceiveInitKeeps ==
  ASSUME PlainWords, Tables, NEW t, typed = {t}, Asked(t), Way(t), NEW n, NEW m,
         ReceiveInit(n, m)
  PROVE  Tables' /\ Progress' /\ Filed
<1>1. /\ ToldClient(t, n, m) /\ m.type = "FROM" /\ Marked(InitMark, m.content)
      /\ UNCHANGED <<online, current_chat, inits, typed, pending>>
  BY Reads DEF ReceiveInit
<1>2. t.kind = "e2e"
  BY <1>1, FromTold, SaidString
<1>3. PICK dh \in DHkeypair :
        /\ t.fresh => pending[t.by][t.to] = {dh}
        /\ n = t.to /\ t.to \in online /\ shown = <<>> /\ m.who = t.by /\ m.content = Asks(dh)
  <2>1. PICK dh \in DHkeypair, peer \in DHkeypair :
          /\ t.fresh => pending[t.by][t.to] = {dh}
          /\ \/ /\ n = t.to /\ t.to \in online /\ shown = <<>>
                /\ m.who = t.by /\ m.content = Asks(dh)
             \/ m.content = Answers(peer)
    BY <1>1, <1>2, FromTold DEF LineKinds
  <2>2. ~Marked(InitMark, Answers(peer))
    BY AnswersString
  <2> QED BY <2>1, <2>2, <1>1
<1>4. PICK peer \in DHkeypair :
        LET key == SessionKey(peer, m.content, InitMark)
        IN /\ aes_keys' = [aes_keys EXCEPT ![n][m.who] = {key}]
           /\ Shows(n, "session", m.who, key)
           /\ wire' = Frame("server", n, Msg("MSG", m.who, AckMark \o <<Hex(peer.public_key)>>))
  BY DEF ReceiveInit
<1>5. SessionKey(peer, m.content, InitMark) = KeyWith(peer, dh)
  BY <1>3, AsksString, SymbolIs, MarksDiffer DEF SessionKey, KeyWith
<1>6. t.by \in Name /\ t.to \in Name
  BY <1>2 DEF Asked
<1>7. /\ aes_keys' = [aes_keys EXCEPT ![t.to][t.by] = {KeyWith(peer, dh)}]
      /\ shown' = <<SessionShown(t.to, t.by, KeyWith(peer, dh))>>
      /\ wire' = Frame("server", t.to, Msg("MSG", t.by, Answers(peer)))
  BY <1>3, <1>4, <1>5 DEF Shows, SessionShown, Answers
<1>8. OnWire("server", t.to, Msg("MSG", t.by, Answers(peer)))'
  <2>1. parse_message(serialize_message(Msg("MSG", t.by, Answers(peer)))) =
          Msg("MSG", t.by, Answers(peer))
    BY <1>6, AnswersString, NamedRead DEF NameAndContent
  <2> QED BY <1>7, <2>1, FrameCarries DEF OnWire
<1>9. Answered(t, dh, peer)'
  <2>1. aes_keys'[t.to][t.by] = {KeyWith(peer, dh)}
    <3>1. PICK k : k = KeyWith(peer, dh)
      OBVIOUS
    <3>2. aes_keys' = [aes_keys EXCEPT ![t.to][t.by] = {k}]
      BY <3>1, <1>7
    <3>3. aes_keys = [u \in Name |-> [q \in Name |-> aes_keys[u][q]]]
      BY DEF Tables
    <3> QED BY <3>1, <3>2, <3>3, <1>6
  <2> QED BY <2>1, <1>1, <1>3, <1>7 DEF Answered
<1>10. ExchangeWith(t, dh, peer)'
  BY <1>1, <1>3, <1>8, <1>9 DEF ExchangeWith
<1>11. Way(t)'
  BY <1>2, <1>10 DEF Way, ExchangeWay, LineKinds
<1>12. Tables'
  BY <1>1, <1>6, <1>7, KeyFiled DEF Tables
<1>13. Filed
  BY <1>6, <1>7 DEF Filed
<1> QED BY <1>1, <1>11, <1>12, <1>13, StillAsked

LEMMA ReceiveAckKeeps ==
  ASSUME PlainWords, Tables, NEW t, typed = {t}, Asked(t), Way(t), NEW n, NEW m,
         ReceiveAck(n, m)
  PROVE  Tables' /\ Progress' /\ Filed
<1>1. /\ ToldClient(t, n, m) /\ m.type = "FROM" /\ Marked(AckMark, m.content)
      /\ UNCHANGED <<online, current_chat, inits, typed>>
  BY Reads DEF ReceiveAck
<1>2. t.kind = "e2e"
  BY <1>1, FromTold, SaidString
<1>3. PICK dh \in DHkeypair, peer \in DHkeypair :
        /\ t.fresh => pending[t.by][t.to] = {dh}
        /\ n = t.by /\ Answered(t, dh, peer) /\ m.who = t.to /\ m.content = Answers(peer)
  BY <1>1, <1>2, FromTold, AsksString DEF LineKinds
<1>4. t.by \in Name /\ t.to \in Name
  BY <1>2 DEF Asked
<1>5. ASSUME ExchangeWith(t, dh, peer)' PROVE Way(t)'
  BY <1>2, <1>5 DEF Way, ExchangeWay, LineKinds
<1>6. CASE pending[n][m.who] = {} /\ Shows(n, "unexpected", m.who, <<>>) /\ Done
  <2>1. ~t.fresh /\ wire' = {} /\ UNCHANGED <<pending, aes_keys>>
    BY <1>3, <1>6 DEF Done
  <2>2. ExchangeWith(t, dh, peer)'
    BY <2>1 DEF ExchangeWith
  <2>3. Filed
    BY <2>1 DEF Filed
  <2> QED BY <2>1, <2>2, <2>3, <1>1, <1>5, TablesStay, StillAsked
<1>7. ASSUME NEW our_dh \in pending[n][m.who],
             LET key == SessionKey(our_dh, m.content, AckMark)
             IN /\ aes_keys' = [aes_keys EXCEPT ![n][m.who] = {key}]
                /\ pending' = [pending EXCEPT ![n][m.who] = {}]
                /\ Shows(n, "session", m.who, key)
                /\ wire' = {}
      PROVE  Tables' /\ Progress' /\ Filed
  <2>1. SessionKey(our_dh, m.content, AckMark) = KeyWith(our_dh, peer)
    BY <1>3, AnswersString, SymbolIs, MarksDiffer DEF SessionKey, KeyWith
  <2>2. /\ aes_keys' = [aes_keys EXCEPT ![t.by][t.to] = {KeyWith(our_dh, peer)}]
        /\ pending' = [pending EXCEPT ![t.by][t.to] = {}]
        /\ shown' = <<SessionShown(t.to, t.by, KeyWith(peer, dh)),
                      SessionShown(t.by, t.to, KeyWith(our_dh, peer))>>
        /\ wire' = {}
    <3>1. PICK a, b : /\ a = SessionShown(t.to, t.by, KeyWith(peer, dh))
                      /\ b = SessionShown(t.by, t.to, KeyWith(our_dh, peer))
      OBVIOUS
    <3>2. shown = <<a>>
      BY <1>3, <3>1 DEF Answered
    <3>3. shown' = Append(shown, b)
      BY <1>3, <1>7, <2>1, <3>1 DEF Shows, SessionShown
    <3>4. shown' = <<a, b>>
      BY <3>2, <3>3, TwoSymbols
    <3>5. /\ aes_keys' = [aes_keys EXCEPT ![t.by][t.to] = {KeyWith(our_dh, peer)}]
          /\ pending' = [pending EXCEPT ![t.by][t.to] = {}] /\ wire' = {}
      BY <1>3, <1>7, <2>1
    <3> QED BY <3>1, <3>4, <3>5
  <2>3. t.fresh => our_dh = dh
    BY <1>3, <1>7
  <2>4. t.fresh => ExchangeDone(t, dh, peer)'
    <3>1. /\ aes_keys'[t.by][t.to] = {KeyWith(our_dh, peer)}
          /\ t.by # t.to => aes_keys'[t.to][t.by] = aes_keys[t.to][t.by]
      <4>1. PICK k : k = KeyWith(our_dh, peer)
        OBVIOUS
      <4>2. aes_keys' = [aes_keys EXCEPT ![t.by][t.to] = {k}]
        BY <2>2, <4>1
      <4>3. aes_keys = [u \in Name |-> [q \in Name |-> aes_keys[u][q]]]
        BY DEF Tables
      <4> QED BY <4>1, <4>2, <4>3, <1>4
    <3>2. aes_keys[t.to][t.by] = {KeyWith(peer, dh)}
      BY <1>3 DEF Answered
    <3> QED BY <3>1, <3>2, <2>2, <2>3 DEF ExchangeDone
  <2>5. Way(t)'
    BY <1>5, <2>2, <2>4 DEF ExchangeWith
  <2>6. pending' \in [Name -> [Name -> {{}} \cup {{d} : d \in DHkeypair}]]
    BY <1>4, <2>2 DEF Tables
  <2>7. Tables'
    BY <1>1, <1>4, <2>2, <2>6, KeyFiled DEF Tables
  <2>8. Filed
    <3>1. our_dh \in DHkeypair
      <4>1. pending[t.by][t.to] \in {{}} \cup {{d} : d \in DHkeypair}
        <5>1. PICK D : D = {{}} \cup {{d} : d \in DHkeypair}
          OBVIOUS
        <5>2. pending \in [Name -> [Name -> D]]
          BY <5>1 DEF Tables
        <5> QED BY <1>4, <5>1, <5>2
      <4>2. our_dh \in pending[t.by][t.to]
        BY <1>3, <1>7
      <4> QED BY <4>1, <4>2
    <3> QED BY <1>4, <2>2, <3>1 DEF Filed
  <2> QED BY <2>5, <2>7, <2>8, <1>1, StillAsked
<1> QED BY <1>6, <1>7 DEF ReceiveAck

\* The receiver of a line shows it, or why it cannot.
LEMMA LineRead ==
  ASSUME Tables, NEW t, typed = {t}, Asked(t), t.kind \in LineKinds,
         t.to \in online, shown = <<>>, NEW as, NEW what, Shows(t.to, as, t.by, what), Done,
         UNCHANGED <<online, current_chat, inits, typed>>,
         \/ t.key = {} /\ as = "plain" /\ what = t.text
         \/ t.key # {} /\ aes_keys[t.to][t.by] = t.key /\ as = "sealed" /\ what = Line(t)
         \/ t.key # {} /\ aes_keys[t.to][t.by] = {} /\ as = "ignored"
         \/ t.key # {} /\ aes_keys[t.to][t.by] \notin {{}, t.key} /\ as = "failed"
  PROVE  Tables' /\ Progress'
<1>1. /\ shown' = <<[at |-> t.to, as |-> as, from |-> t.by, what |-> what]>>
      /\ wire' = {} /\ aes_keys' = aes_keys /\ pending' = pending
  BY DEF Shows, Done
<1>2. LineDone(t)'
  <2>1. /\ Len(shown') = 1 /\ shown'[1].at = t.to /\ shown'[1].as = as
        /\ shown'[1].from = t.by /\ shown'[1].what = what
    BY <1>1
  <2> QED BY <1>1, <2>1 DEF LineDone
<1>3. Way(t)'
  BY <1>1, <1>2 DEF Way, LineWay, LineKinds
<1> QED BY <1>1, <1>3, TablesStay, StillAsked

\* What a line carries under one key opens under that key alone.
LEMMA Opens ==
  ASSUME NEW k, NEW key, NEW line
  PROVE  aes_gcm_decrypt(key, FromHex(Hex(aes_gcm_encrypt(k, line)))) =
           IF key = k THEN {line} ELSE {}
BY DEF aes_gcm_decrypt, aes_gcm_encrypt, FromHex, Hex

LEMMA ReceiveSealedKeeps ==
  ASSUME PlainWords, Tables, NEW t, typed = {t}, Asked(t), Way(t), NEW n, NEW m,
         ReceiveSealed(n, m)
  PROVE  Tables' /\ Progress'
<1>1. /\ ToldClient(t, n, m) /\ m.type = "FROM" /\ Marked(SealedMark, m.content) /\ Done
      /\ UNCHANGED <<online, current_chat, inits, typed>>
  BY Reads DEF ReceiveSealed
<1>2. t.kind \in LineKinds
  <2>1. t.kind \in LineKinds \/ \E dh : m.content = Asks(dh) \/ m.content = Answers(dh)
    BY <1>1, FromTold
  <2> QED BY <1>1, <2>1, AsksString, AnswersString
<1>3. /\ n = t.to /\ t.to \in online /\ shown = <<>> /\ m.who = t.by /\ m.content = Said(t)
  BY <1>1, <1>2, FromTold DEF LineKinds
<1>4. PICK k : t.key = {k} /\ Said(t)[3] = Hex(aes_gcm_encrypt(k, Line(t)))
  <2>1. PICK k \in t.key : TRUE
    BY <1>1, <1>2, <1>3, SaidString
  <2>2. t.key = {k}
    BY <1>2, <2>1 DEF Asked, AtMostOne
  <2>3. Said(t)[3] = Hex(aes_gcm_encrypt(k, Line(t)))
    BY <1>2, <2>1, SaidString
  <2> QED BY <2>2, <2>3
<1>5. t.by \in Name /\ t.to \in Name
  BY <1>2 DEF Asked
<1>6. AtMostOne(aes_keys[t.to][t.by])
  BY <1>5, OneKey
<1>7. \A key : aes_gcm_decrypt(key, FromHex(m.content[Len(SealedMark) + 1])) =
                 IF key = k THEN {Line(t)} ELSE {}
  <2>1. m.content[Len(SealedMark) + 1] = Hex(aes_gcm_encrypt(k, Line(t)))
    BY <1>3, <1>4, MarksDiffer
  <2> QED BY <2>1, Opens
<1>8. ASSUME NEW as, NEW what, Shows(t.to, as, t.by, what),
             \/ aes_keys[t.to][t.by] = t.key /\ as = "sealed" /\ what = Line(t)
             \/ aes_keys[t.to][t.by] = {} /\ as = "ignored"
             \/ aes_keys[t.to][t.by] \notin {{}, t.key} /\ as = "failed"
      PROVE  Tables' /\ Progress'
  <2>1. t.key # {}
    BY <1>4
  <2> QED BY <1>1, <1>2, <1>3, <1>8, <2>1, LineRead
<1>9. CASE aes_keys[n][m.who] = {} /\ Shows(n, "ignored", m.who, <<>>)
  BY <1>3, <1>8, <1>9
<1>10. ASSUME NEW key \in aes_keys[n][m.who],
              \E plaintext \in aes_gcm_decrypt(key, FromHex(m.content[Len(SealedMark) + 1])) :
                 Shows(n, "sealed", m.who, plaintext)
       PROVE  Tables' /\ Progress'
  <2>1. key = k /\ Shows(t.to, "sealed", t.by, Line(t))
    BY <1>3, <1>7, <1>10
  <2>2. aes_keys[t.to][t.by] = t.key
    BY <1>3, <1>4, <1>6, <1>10, <2>1 DEF AtMostOne
  <2> QED BY <1>8, <2>1, <2>2
<1>11. ASSUME NEW key \in aes_keys[n][m.who],
              aes_gcm_decrypt(key, FromHex(m.content[Len(SealedMark) + 1])) = {},
              Shows(n, "failed", m.who, <<>>)
       PROVE  Tables' /\ Progress'
  <2>1. key # k
    BY <1>7, <1>11
  <2>2. aes_keys[t.to][t.by] \notin {{}, t.key}
    BY <1>3, <1>4, <1>11, <2>1
  <2> QED BY <1>3, <1>8, <1>11, <2>2
<1> QED BY <1>9, <1>10, <1>11 DEF ReceiveSealed

LEMMA ReceivePlainKeeps ==
  ASSUME PlainWords, Tables, NEW t, typed = {t}, Asked(t), Way(t), NEW n, NEW m,
         ReceivePlain(n, m)
  PROVE  Tables' /\ Progress'
<1>1. /\ ToldClient(t, n, m) /\ m.type = "FROM" /\ Done
      /\ ~Marked(InitMark, m.content) /\ ~Marked(AckMark, m.content)
      /\ ~Marked(SealedMark, m.content)
      /\ Shows(n, "plain", m.who, m.content)
      /\ UNCHANGED <<online, current_chat, inits, typed>>
  BY Reads DEF ReceivePlain
<1>2. t.kind \in LineKinds
  <2>1. t.kind \in LineKinds \/ \E dh : m.content = Asks(dh) \/ m.content = Answers(dh)
    BY <1>1, FromTold
  <2> QED BY <1>1, <2>1, AsksString, AnswersString
<1>3. /\ n = t.to /\ t.to \in online /\ shown = <<>> /\ m.who = t.by /\ m.content = Said(t)
  BY <1>1, <1>2, FromTold DEF LineKinds
<1>4. t.key = {} /\ Said(t) = t.text
  <2>1. t.key = {}
    BY <1>1, <1>2, <1>3, SaidString
  <2> QED BY <2>1 DEF Said
<1> QED BY <1>1, <1>2, <1>3, <1>4, LineRead

LEMMA ReceiveUsersKeeps ==
  ASSUME PlainWords, ListsReadBack, Tables, NEW t, typed = {t}, Asked(t), Way(t),
         NEW n, NEW m, ReceiveUsers(n, m)
  PROVE  Tables' /\ Progress'
<1>1. /\ ToldClient(t, n, m) /\ m.type = "USERS" /\ Done
      /\ Shows(n, "users", <<>>, Split(m.content))
      /\ UNCHANGED <<online, current_chat, inits, typed>>
  BY Reads DEF ReceiveUsers
<1>2. PICK us \in SetToSeqs(online) :
        /\ t.kind = "who" /\ n = t.by /\ shown = <<>>
        /\ m = Msg("USERS", <<>>, who_content(us))
  BY <1>1, MsgFields DEF ToldClient, Refusal
<1>3. Split(m.content) = us
  <2>1. online # {}
    BY <1>2 DEF Asked
  <2> QED BY <1>2, <2>1, MsgFields, ListRead
<1>4. shown' = ListShown(t.by, us)
  BY <1>1, <1>2, <1>3 DEF Shows, ListShown
<1>5. WhoWay(t)'
  BY <1>1, <1>4 DEF WhoWay, Done
<1>6. Way(t)'
  BY <1>2, <1>5 DEF Way, LineKinds
<1> QED BY <1>1, <1>6, TablesStay, StillAsked DEF Done

LEMMA ReceiveErrorKeeps ==
  ASSUME Tables, NEW t, typed = {t}, Asked(t), Way(t), NEW n, NEW m, ReceiveError(n, m)
  PROVE  Tables' /\ Progress'
<1>1. /\ ToldClient(t, n, m) /\ m.type = "ERROR" /\ Done
      /\ Shows(n, "error", <<>>, m.content)
      /\ UNCHANGED <<online, current_chat, inits, typed>>
  BY Reads DEF ReceiveError
<1>2. /\ t.kind \in LineKinds \cup {"e2e"} /\ n = t.by /\ t.to \notin online /\ shown = <<>>
  BY <1>1, MsgFields DEF ToldClient
<1>3. ASSUME Way(t)' PROVE Tables' /\ Progress'
  BY <1>1, <1>3, TablesStay, StillAsked DEF Done
<1>4. CASE t.kind \in LineKinds
  <2>1. /\ shown' = <<[at |-> t.by, as |-> "error", from |-> <<>>, what |-> m.content]>>
        /\ wire' = {} /\ online' = online
    BY <1>1, <1>2 DEF Shows, Done
  <2>2. Len(shown') = 1 /\ shown'[1].at = t.by /\ shown'[1].as = "error"
    BY <2>1
  <2>3. LineDone(t)'
    BY <1>2, <2>1, <2>2 DEF LineDone
  <2>4. Way(t)'
    BY <1>4, <2>1, <2>3 DEF Way, LineWay, LineKinds
  <2> QED BY <1>3, <2>4
<1>5. CASE t.kind = "e2e"
  <2>1. PICK dh \in DHkeypair, peer \in DHkeypair : ExchangeWith(t, dh, peer)
    BY <1>5 DEF Way, ExchangeWay
  <2>2. ExchangeWith(t, dh, peer)'
    BY <1>1, <1>2 DEF ExchangeWith, Done
  <2>3. Way(t)'
    BY <1>5, <2>2 DEF Way, ExchangeWay, LineKinds
  <2> QED BY <1>3, <2>3
<1> QED BY <1>2, <1>4, <1>5

(***************************************************************************)
(* Every step keeps it.                                                    *)
(***************************************************************************)
LEMMA InitCInv ==
  ASSUME Init
  PROVE  CInv
<1>1. Tables
  <2>1. IsFiniteSet(online)
    BY FS_EmptySet DEF Init
  <2>2. /\ current_chat \in [Name -> Name \cup {<<>>}]
        /\ pending \in [Name -> [Name -> {{}} \cup {{dh} : dh \in DHkeypair}]]
        /\ inits \in 0..MaxInits
    BY BoundAssumption DEF Init
  <2>3. /\ aes_keys = [n \in Name |-> [p \in Name |-> aes_keys[n][p]]]
        /\ \A n, p \in Name : AtMostOne(aes_keys[n][p])
    BY DEF Init, AtMostOne
  <2> QED BY <2>1, <2>2, <2>3 DEF Init, Tables
<1>2. Progress
  BY DEF Init, Progress
<1> QED BY <1>1, <1>2 DEF CInv

LEMMA CommandKeeps ==
  ASSUME PlainWords, Tables, NEW n \in Name, Command(n)
  PROVE  Tables' /\ Progress'
BY AskWhoKeeps, QuitKeeps, ChatKeeps, E2EKeeps, SayHereKeeps, SayToKeeps DEF Command

\* What happens to a frame that is under way.
Handled(n, m) == handle_message(n, m) \/ HandleQuit(n, m)
Received(n, m) ==
  \/ ReceiveInit(n, m) \/ ReceiveAck(n, m) \/ ReceiveSealed(n, m)
  \/ ReceivePlain(n, m) \/ ReceiveUsers(n, m) \/ ReceiveError(n, m)

LEMMA FrameKeeps ==
  ASSUME PlainWords, ListsReadBack, CInv, NEW n, NEW m, Handled(n, m) \/ Received(n, m)
  PROVE  Tables' /\ Progress'
<1>1. wire # {}
  BY DEF Handled, Received, handle_message, HandleQuit, AtServer, Receives, ReceiveInit,
         ReceiveAck, ReceiveSealed, ReceivePlain, ReceiveUsers, ReceiveError
<1>2. PICK t : typed = {t} /\ Asked(t) /\ Way(t)
  BY <1>1 DEF CInv, Progress
<1>3. Tables
  BY DEF CInv
<1>4. CASE Handled(n, m)
  BY <1>2, <1>3, <1>4, HandleMessageKeeps, HandleQuitKeeps DEF Handled
<1>5. CASE ReceiveInit(n, m) \/ ReceiveAck(n, m)
  BY <1>2, <1>3, <1>5, ReceiveInitKeeps, ReceiveAckKeeps
<1>6. CASE ReceiveSealed(n, m) \/ ReceivePlain(n, m)
  BY <1>2, <1>3, <1>6, ReceiveSealedKeeps, ReceivePlainKeeps
<1>7. CASE ReceiveUsers(n, m) \/ ReceiveError(n, m)
  BY <1>2, <1>3, <1>7, ReceiveUsersKeeps, ReceiveErrorKeeps
<1> QED BY <1>4, <1>5, <1>6, <1>7 DEF Received

LEMMA StutterKeeps ==
  ASSUME CInv, UNCHANGED vars
  PROVE  CInv'
<1>1. /\ online' = online /\ current_chat' = current_chat /\ pending' = pending
      /\ aes_keys' = aes_keys /\ inits' = inits /\ typed' = typed /\ wire' = wire
      /\ shown' = shown
  BY DEF vars
<1>2. Tables'
  BY <1>1, TablesStay DEF CInv
<1>3. ASSUME NEW t PROVE Way(t)' <=> Way(t)
  BY <1>1 DEF Way, LineWay, LineDone, WhoWay, ExchangeWay, ExchangeWith, Answered,
              ExchangeDone, OnWire
<1>4. ASSUME NEW t PROVE Asked(t)' <=> Asked(t)
  BY <1>1 DEF Asked
<1>5. Progress'
  BY <1>1, <1>3, <1>4 DEF CInv, Progress
<1> QED BY <1>2, <1>5 DEF CInv

LEMMA NextIs ==
  ASSUME Next
  PROVE  \E n \in Name : \/ LogIn(n) \/ Command(n)
                         \/ \E m : Handled(n, m) \/ Received(n, m)
BY DEF Next, Handled, Received

LEMMA NextCInv ==
  ASSUME PlainWords, ListsReadBack, CInv, [Next]_vars
  PROVE  CInv'
<1>1. CASE UNCHANGED vars
  BY <1>1, StutterKeeps
<1>2. CASE Next
  <2>1. PICK n \in Name : \/ LogIn(n) \/ Command(n)
                          \/ \E m : Handled(n, m) \/ Received(n, m)
    BY <1>2, NextIs
  <2>2. Tables
    BY DEF CInv
  <2>3. CASE LogIn(n) \/ Command(n)
    BY <2>2, <2>3, LogInKeeps, CommandKeeps DEF CInv
  <2>4. ASSUME NEW m, Handled(n, m) \/ Received(n, m) PROVE CInv'
    BY <2>4, FrameKeeps DEF CInv
  <2> QED BY <2>1, <2>3, <2>4
<1> QED BY <1>1, <1>2

LEMMA AlwaysCInv ==
  ASSUME PlainWords, ListsReadBack
  PROVE  Spec => []CInv
<1>1. Init => CInv
  BY InitCInv
<1>2. CInv /\ [Next]_vars => CInv'
  BY NextCInv
<1> QED BY <1>1, <1>2, PTL DEF Spec

(***************************************************************************)
(* Theorems.  What the operators on strings and keys compute is folded or  *)
(* raised to a power, which is out of the provers' reach: that names are   *)
(* words (PlainWords), that the list of names is split where it was joined *)
(* (ListsReadBack) and that both ends of an exchange compute one secret    *)
(* (KeysAgree) are hypotheses, and TLC evaluates them (MCConsole).         *)
(***************************************************************************)
LEMMA NothingOnWire ==
  ASSUME wire = {}, NEW to, NEW by, NEW m
  PROVE  ~OnWire(to, by, m)
BY DEF OnWire, Carries

\* Whatever is typed, a chat line is displayed once, by the console it is for,
\* under the name of the one who typed it and word for word, or one of the two
\* consoles says why not, for any names, texts and group.
THEOREM LinesShown ==
  PlainWords /\ ListsReadBack /\ Spec => []LineShown
<1> SUFFICES ASSUME PlainWords, ListsReadBack PROVE Spec => []LineShown
  OBVIOUS
<1>1. CInv => LineShown
  <2> SUFFICES ASSUME CInv, NEW t \in typed, t.kind \in {"line", "@line"}, wire = {}
               PROVE  LineDone(t)
    BY DEF LineShown, LineDone, Line
  <2>1. LineWay(t)
    BY DEF CInv, Progress, Way, LineKinds
  <2> QED BY <2>1, NothingOnWire DEF LineWay
<1> QED BY <1>1, AlwaysCInv, PTL

\* Under a session key the server relays one word of hex under __E2E_MSG__,
\* and nothing else of the line, whoever its addressee is and however given.
THEOREM LinesOpaque ==
  PlainWords /\ ListsReadBack /\ Spec => []OpaqueToServer
<1> SUFFICES ASSUME PlainWords, ListsReadBack PROVE Spec => []OpaqueToServer
  OBVIOUS
<1>1. CInv => OpaqueToServer
  <2> SUFFICES ASSUME CInv, NEW t \in typed, NEW f \in wire,
                      t.kind \in {"line", "@line"}, t.key # {},
                      parse_message(f.payload).type \in {"MSG", "FROM"}
               PROVE  LET c == parse_message(f.payload).content
                      IN Marked(SealedMark, c) /\ Len(c) = Len(SealedMark) + 1
    BY DEF OpaqueToServer
  <2>1. LineWay(t) /\ Asked(t) /\ t.kind \in LineKinds
    BY DEF CInv, Progress, Way, LineKinds
  <2>2. parse_message(f.payload) \in {Msg("MSG", t.to, Said(t)), Msg("FROM", t.by, Said(t)), Refusal}
    BY <2>1, WireIs DEF LineWay
  <2>3. Refusal.type = "ERROR"
    BY DEF Refusal, Msg
  <2>4. parse_message(f.payload).content = Said(t)
    BY <2>2, <2>3, MsgFields
  <2>5. Marked(SealedMark, Said(t)) /\ Len(Said(t)) = 3 /\ Len(SealedMark) = 2
    BY <2>1, SaidString, MarksDiffer
  <2> QED BY <2>4, <2>5
<1> QED BY <1>1, AlwaysCInv, PTL

LEMMA Listed ==
  ASSUME NEW S, IsFiniteSet(S), NEW us \in SetToSeqs(S)
  PROVE  Len(us) = Cardinality(S) /\ ToSet(us) = S
<1>1. PICK n \in Nat : n = Cardinality(S)
  BY FS_CardinalityType
<1>2. us \in [1..n -> S] /\ \A i, j \in 1..n : i # j => us[i] # us[j]
  BY <1>1 DEF SetToSeqs
<1>3. us \in Seq(S) /\ Len(us) = n
  BY <1>2
<1>4. us \in Injection(1..n, S)
  BY <1>2 DEF Injection, IsInjective
<1>5. IsFiniteSet(1..n) /\ Cardinality(1..n) = n
  BY FS_Interval
<1>6. us \in Surjection(1..n, S)
  BY <1>1, <1>4, <1>5, FS_Injection
<1>7. ToSet(us) = S
  BY <1>2, <1>3, <1>6 DEF Surjection, ToSet
<1> QED BY <1>1, <1>3, <1>7

\* The answer to /who is displayed as the names in the registry, each once, in
\* whatever order the server has packed them.
THEOREM WhoLists ==
  PlainWords /\ ListsReadBack /\ Spec => []WhoShowsOnline
<1> SUFFICES ASSUME PlainWords, ListsReadBack PROVE Spec => []WhoShowsOnline
  OBVIOUS
<1>1. CInv => WhoShowsOnline
  <2> SUFFICES ASSUME CInv, NEW t \in typed, t.kind = "who", wire = {}
               PROVE  /\ Len(shown) = 1 /\ shown[1].at = t.by
                      /\ Len(shown[1].what) = Cardinality(online)
                      /\ ToSet(shown[1].what) = online
    BY DEF WhoShowsOnline
  <2>1. WhoWay(t) /\ IsFiniteSet(online)
    BY DEF CInv, Progress, Way, Tables
  <2>2. PICK us \in SetToSeqs(online) : shown = ListShown(t.by, us)
    BY <2>1, NothingOnWire DEF WhoWay
  <2>3. Len(shown) = 1 /\ shown[1].at = t.by /\ shown[1].what = us
    BY <2>2 DEF ListShown
  <2> QED BY <2>1, <2>3, Listed
<1> QED BY <1>1, AlwaysCInv, PTL

\* An exchange with a user who is logged in, with none left open, ends with one
\* fingerprint on both consoles and the key in both sessions, for any group
\* in which both ends compute one secret.
THEOREM FingerprintsShown ==
  PlainWords /\ ListsReadBack /\ KeysAgree /\ Spec => []FingerprintsMatch
<1> SUFFICES ASSUME PlainWords, ListsReadBack, KeysAgree PROVE Spec => []FingerprintsMatch
  OBVIOUS
<1>1. CInv => FingerprintsMatch
  <2> SUFFICES ASSUME CInv, NEW t \in typed, t.kind = "e2e", t.fresh, t.to \in online,
                      wire = {}
               PROVE  /\ Len(shown) = 2
                      /\ shown[1].at = t.to /\ shown[1].from = t.by
                      /\ shown[2].at = t.by /\ shown[2].from = t.to
                      /\ shown[1].as = "session" /\ shown[2].as = "session"
                      /\ shown[1].what = shown[2].what
                      /\ aes_keys[t.by][t.to] = aes_keys[t.to][t.by]
    BY DEF FingerprintsMatch
  <2>1. ExchangeWay(t)
    BY DEF CInv, Progress, Way
  <2>2. PICK dh \in DHkeypair, peer \in DHkeypair : ExchangeDone(t, dh, peer)
    BY <2>1, NothingOnWire DEF ExchangeWay, ExchangeWith
  <2>3. PICK k : k = KeyWith(dh, peer) /\ k = KeyWith(peer, dh)
    BY DEF KeysAgree, KeyWith
  <2>4. shown = <<SessionShown(t.to, t.by, k), SessionShown(t.by, t.to, k)>>
    BY <2>2, <2>3 DEF ExchangeDone
  <2>5. /\ Len(shown) = 2 /\ shown[1] = SessionShown(t.to, t.by, k)
        /\ shown[2] = SessionShown(t.by, t.to, k)
    BY <2>4
  <2>6. aes_keys[t.by][t.to] = aes_keys[t.to][t.by]
    BY <2>2, <2>3 DEF ExchangeDone
  <2> QED BY <2>5, <2>6 DEF SessionShown
<1> QED BY <1>1, AlwaysCInv, PTL

(***************************************************************************)
(* Types: the keys are those of the group, the frames and displays those   *)
(* of users.                                                               *)
(***************************************************************************)
KeysTyped == aes_keys \in [Name -> [Name -> {{}} \cup {{k} : k \in AesKey}]]

LEMMA SecretsTyped ==
  ASSUME KeysAgree, NEW dh \in DHkeypair, NEW peer \in DHkeypair
  PROVE  KeyWith(dh, peer) \in AesKey
<1>1. PICK p \in Nat \ {0} : p = DH_Prime
  BY GroupAssumption
<1>2. \A b, e \in Nat : b # 0 => (b ^ e) % p \in 0..(p - 1)
  <2> SUFFICES ASSUME NEW b \in Nat, NEW e \in Nat, b # 0 PROVE (b ^ e) % p \in 0..(p - 1)
    OBVIOUS
  <2>1. PICK q : q = b ^ e
    OBVIOUS
  <2>2. q \in Int
    BY <2>1
  <2> QED BY <2>1, <2>2
<1>3. dh.private_key \in Nat /\ peer.private_key \in Nat
  <2>1. \A d \in DHkeypair : d.private_key \in Private
    BY DEF DHkeypair, dh_generate_keypair
  <2> QED BY <2>1 DEF KeysAgree
<1>4. peer.public_key = (DH_base ^ peer.private_key) % p
  BY <1>1 DEF DHkeypair, dh_generate_keypair, ModExp
<1>5. DH_base \in Nat /\ DH_base # 0
  BY GroupAssumption
<1>6. peer.public_key \in Nat /\ peer.public_key # 0
  <2>1. peer.public_key # 0
    BY DEF KeysAgree
  <2> QED BY <2>1, <1>1, <1>2, <1>3, <1>4, <1>5
<1>7. dhGetSecret(dh, peer.public_key) \in 0..(DH_Prime - 1)
  BY <1>1, <1>2, <1>3, <1>6 DEF dhGetSecret, ModExp
<1> QED BY <1>7 DEF KeyWith, AesKey

\* What a step displays, and the keys that it files.
Displayed ==
  \/ shown' = shown \/ shown' = <<>>
  \/ \E r : r.at \in Name /\ shown' = Append(shown, r)
Emptied ==
  \E n \in Name : aes_keys' = [aes_keys EXCEPT ![n] = [p \in Name |-> {}]]

LEMMA CommandDoes ==
  ASSUME NEW n \in Name, LogIn(n) \/ Command(n)
  PROVE  Displayed /\ (Filed \/ Emptied)
BY DEF LogIn, Command, AskWho, Quit, Chat, E2E, SayHere, SayTo, Say, Types, sessionVars,
       Displayed, Filed, Emptied

LEMMA ShowsAt ==
  ASSUME NEW n \in Name, NEW as, NEW from, NEW what, Shows(n, as, from, what)
  PROVE  Displayed
<1>1. PICK r : r = [at |-> n, as |-> as, from |-> from, what |-> what]
  OBVIOUS
<1>2. r.at = n /\ shown' = Append(shown, r)
  BY <1>1 DEF Shows
<1> QED BY <1>2 DEF Displayed

LEMMA FrameDoes ==
  ASSUME PlainWords, CInv, NEW n \in Name, NEW m, Handled(n, m) \/ Received(n, m)
  PROVE  Displayed /\ (Filed \/ Emptied)
<1>1. wire # {}
  BY DEF Handled, Received, handle_message, HandleQuit, AtServer, Receives, ReceiveInit,
         ReceiveAck, ReceiveSealed, ReceivePlain, ReceiveUsers, ReceiveError
<1>2. PICK t : typed = {t} /\ Asked(t) /\ Way(t)
  BY <1>1 DEF CInv, Progress
<1>3. CASE Handled(n, m)
  BY <1>3 DEF Handled, handle_message, HandleQuit, Displayed, Filed
<1>4. CASE ReceiveInit(n, m) \/ ReceiveAck(n, m)
  <2>1. Filed
    BY <1>2, <1>4, ReceiveInitKeeps, ReceiveAckKeeps DEF CInv
  <2>2. \E as, from, what : Shows(n, as, from, what)
    BY <1>4 DEF ReceiveInit, ReceiveAck
  <2> QED BY <2>1, <2>2, ShowsAt
<1>5. CASE \/ ReceiveSealed(n, m) \/ ReceivePlain(n, m)
           \/ ReceiveUsers(n, m) \/ ReceiveError(n, m)
  <2>1. Filed
    BY <1>5 DEF ReceiveSealed, ReceivePlain, ReceiveUsers, ReceiveError, Done, Filed
  <2>2. \E as, from, what : Shows(n, as, from, what)
    BY <1>5 DEF ReceiveSealed, ReceivePlain, ReceiveUsers, ReceiveError
  <2> QED BY <2>1, <2>2, ShowsAt
<1> QED BY <1>3, <1>4, <1>5 DEF Received

LEMMA FilingKeeps ==
  ASSUME KeysAgree, KeysTyped, Filed \/ Emptied
  PROVE  KeysTyped'
<1>1. PICK D : D = {{}} \cup {{k} : k \in AesKey}
  OBVIOUS
<1>2. aes_keys \in [Name -> [Name -> D]]
  BY <1>1 DEF KeysTyped
<1>3. ASSUME NEW n \in Name, NEW p \in Name, NEW v \in D,
             aes_keys' = [aes_keys EXCEPT ![n][p] = v]
      PROVE  aes_keys' \in [Name -> [Name -> D]]
  BY <1>2, <1>3
<1>4. ASSUME NEW n \in Name, aes_keys' = [aes_keys EXCEPT ![n] = [p \in Name |-> {}]]
      PROVE  aes_keys' \in [Name -> [Name -> D]]
  <2>1. [p \in Name |-> {}] \in [Name -> D]
    BY <1>1
  <2> QED BY <1>2, <1>4, <2>1
<1>5. \A dh, peer \in DHkeypair : {KeyWith(dh, peer)} \in D
  BY <1>1, SecretsTyped
<1>6. aes_keys' \in [Name -> [Name -> D]]
  BY <1>2, <1>3, <1>4, <1>5 DEF Filed, Emptied
<1> QED BY <1>1, <1>6 DEF KeysTyped

LEMMA DisplayKeeps ==
  ASSUME Displays, Displayed
  PROVE  Displays'
<1>1. CASE shown' = shown
  BY <1>1 DEF Displays, IsString
<1>2. CASE shown' = <<>>
  BY <1>2, EmptyString DEF Displays
<1>3. ASSUME NEW r, r.at \in Name, shown' = Append(shown, r)
      PROVE  Displays'
  <2>1. PICK S : S = ToSet(shown) \cup {r}
    OBVIOUS
  <2>2. shown \in Seq(S) /\ r \in S
    <3>1. \A q, A, B : q \in Seq(A) /\ A \subseteq B => q \in Seq(B)
      OBVIOUS
    <3>2. ToSet(shown) \subseteq S /\ r \in S
      BY <2>1
    <3> QED BY <3>1, <3>2 DEF Displays, IsString
  <2>3. /\ shown' \in Seq(S) /\ Len(shown') = Len(shown) + 1
        /\ \A i \in 1..Len(shown) : shown'[i] = shown[i]
        /\ shown'[Len(shown) + 1] = r
    BY <1>3, <2>2, AppendProperties
  <2>4. IsString(shown')
    BY <2>3, StringOver
  <2>5. \A i \in 1..Len(shown') : shown'[i].at \in Name
    BY <1>3, <2>2, <2>3 DEF Displays
  <2> QED BY <2>4, <2>5 DEF Displays
<1> QED BY <1>1, <1>2, <1>3 DEF Displayed

LEMMA NextDoes ==
  ASSUME PlainWords, CInv, [Next]_vars
  PROVE  Displayed /\ (Filed \/ Emptied)
<1>1. CASE UNCHANGED vars
  BY <1>1 DEF vars, Displayed, Filed
<1>2. CASE Next
  <2>1. PICK n \in Name : \/ LogIn(n) \/ Command(n)
                          \/ \E m : Handled(n, m) \/ Received(n, m)
    BY <1>2, NextIs
  <2> QED BY <2>1, CommandDoes, FrameDoes
<1> QED BY <1>1, <1>2

\* A frame under way is one that parse_message accepts, from or to a user.
LEMMA FramesTyped ==
  ASSUME CInv, NEW f \in wire
  PROVE  /\ f.to \in {"server", "client"} /\ f.by \in Name
         /\ parse_message(f.payload) # Invalid
<1>1. PICK t : typed = {t} /\ Asked(t) /\ Way(t)
  BY DEF CInv, Progress
<1>2. t.by \in Name /\ (t.kind \in LineKinds \cup {"e2e"} => t.to \in Name)
  BY <1>1 DEF Asked
<1>3. \E to, by, m : /\ OnWire(to, by, m) /\ to \in {"server", "client"} /\ by \in Name
                     /\ m.type # "invalid"
  <2>1. \A type, who, c : Msg(type, who, c).type = type
    BY MsgFields
  <2>2. CASE t.kind \in LineKinds
    BY <1>1, <1>2, <2>1, <2>2 DEF Way, LineWay, Refusal
  <2>3. CASE t.kind = "who"
    BY <1>1, <1>2, <2>1, <2>3 DEF Way, WhoWay
  <2>4. CASE t.kind = "e2e"
    BY <1>1, <1>2, <2>1, <2>4 DEF Way, ExchangeWay, ExchangeWith, Refusal
  <2>5. CASE t.kind \in {"chat", "quit"}
    BY <1>1, <1>2, <2>1, <2>5 DEF Way
  <2> QED BY <1>1, <2>2, <2>3, <2>4, <2>5 DEF Asked
<1> QED BY <1>3, WireIs, MsgFields DEF Invalid

\* Type correctness: sessions hold keys of the group and nothing else, and every
\* frame on its way is a message, from or to a user.
THEOREM TypeCorrect ==
  PlainWords /\ ListsReadBack /\ KeysAgree /\ Spec => []TypeOK
<1> SUFFICES ASSUME PlainWords, ListsReadBack, KeysAgree PROVE Spec => []TypeOK
  OBVIOUS
<1>1. Init => KeysTyped /\ Displays
  BY EmptyString DEF Init, KeysTyped, Displays
<1>2. CInv /\ KeysTyped /\ Displays /\ [Next]_vars => KeysTyped' /\ Displays'
  BY NextDoes, FilingKeeps, DisplayKeeps
<1>3. CInv /\ KeysTyped /\ Displays => TypeOK
  <2> SUFFICES ASSUME CInv, KeysTyped, Displays PROVE TypeOK
    OBVIOUS
  <2>1. \A t \in typed : t.by \in Name
    BY DEF CInv, Progress, Asked
  <2> QED BY <2>1, FramesTyped DEF TypeOK, CInv, Tables, KeysTyped, Displays
<1> QED BY <1>1, <1>2, <1>3, AlwaysCInv, PTL DEF Spec
=============================================================================
