------------------------------- MODULE Console -------------------------------
(***************************************************************************)
(* What users type and what they see in phase 4: the commands of the       *)
(* client, the server's answers and the client's receiver, with every      *)
(* message in the form it has on its way (phase4/src/client/client.cpp,    *)
(* server/server.cpp).                                                     *)
(*                                                                         *)
(* One command is under way at a time: how the frames of several clients   *)
(* and threads interleave is the matter of SecureServer and E2ESession,    *)
(* and the frames' encryption between client and server is left out.  A    *)
(* line is a sequence of symbols (Protocol), the space and "@" among them. *)
(* Lines that are no command begin neither with "/" nor with one of the    *)
(* "__E2E_" prefixes.                                                      *)
(***************************************************************************)
EXTENDS Protocol, DiffieHellman, FiniteSets

CONSTANTS
  Name,      \* names users log in with: words
  Text,      \* what they have to say
  MaxInits   \* bound: key exchanges that are asked for

ASSUME NonemptyAssumption == <<>> \notin Name \cup Text
ASSUME BoundAssumption == MaxInits \in Nat

VARIABLES
  online,        \* names in the registry
  current_chat,  \* current_chat[n]: whom n's plain lines go to, <<>> for nobody
  pending,       \* pending[n][p]: n's keypair that awaits p's answer, {} for none
  aes_keys,      \* aes_keys[n][p]: n's session key for p, {} for none
  inits,         \* number of exchanges asked for so far
  typed,         \* the command under way or carried out last
  wire,          \* the frame under way, {} for none
  shown          \* what the consoles displayed since it was typed

vars == <<online, current_chat, pending, aes_keys, inits, typed, wire, shown>>
sessionVars == <<pending, aes_keys, inits>>

\* bytes_to_hex and BN_bn2hex give one word, whatever the bytes are.
Hex(v) == [hex |-> v]
FromHex(w) == w.hex
\* The kinds of content that the clients send each other.
InitMark == <<"__E2E_INIT__">> \o Bar
AckMark == <<"__E2E_ACK__">> \o Bar
SealedMark == <<"__E2E_MSG__">> \o Bar
Marked(mark, content) == IsPrefix(mark, content)

Init ==
  /\ online = {}
  /\ current_chat = [n \in Name |-> <<>>]
  /\ pending = [n \in Name |-> [p \in Name |-> {}]]
  /\ aes_keys = [n \in Name |-> [p \in Name |-> {}]]
  /\ inits = 0
  /\ typed = {} /\ wire = {} /\ shown = <<>>

Frame(to, by, m) == {[to |-> to, by |-> by, payload |-> serialize_message(m)]}

\* A login with a free name: the registry has the name that was parsed.
LogIn(n) ==
  /\ wire = {}
  /\ LET m == parse_message(serialize_message(Msg("LOGIN", n, <<>>)))
     IN m.type = "LOGIN" /\ m.who \notin online /\ online' = online \cup {m.who}
  /\ typed' = {} /\ shown' = <<>>
  /\ UNCHANGED <<current_chat, pending, aes_keys, inits, wire>>

-----------------------------------------------------------------------------
(* The commands.                                                           *)

\* n types a command of this kind, about p if it names somebody.
Types(n, kind, p, text) ==
  /\ wire = {} /\ n \in online
  /\ typed' = {[by |-> n, kind |-> kind, to |-> p, text |-> text,
                key |-> IF p \in Name THEN aes_keys[n][p] ELSE {},
                fresh |-> p \in Name /\ pending[n][p] = {}]}
  /\ shown' = <<>>
  /\ UNCHANGED online

AskWho(n) ==
  /\ Types(n, "who", <<>>, <<>>)
  /\ wire' = Frame("server", n, Msg("WHO", <<>>, <<>>))
  /\ UNCHANGED <<current_chat, pending, aes_keys, inits>>

Chat(n, p) ==
  /\ Types(n, "chat", p, <<>>)
  /\ current_chat' = [current_chat EXCEPT ![n] = p]
  /\ UNCHANGED <<pending, aes_keys, inits, wire>>

\* emplace leaves a keypair that is already pending, and the new one is sent.
E2E(n, p) ==
  /\ inits < MaxInits /\ inits' = inits + 1
  /\ Types(n, "e2e", p, <<>>)
  /\ \E our_dh \in DHkeypair :
       /\ pending' = [pending EXCEPT ![n][p] = IF @ = {} THEN {our_dh} ELSE @]
       /\ wire' = Frame("server", n, Msg("MSG", p, InitMark \o <<Hex(our_dh.public_key)>>))
  /\ UNCHANGED <<current_chat, aes_keys>>

\* The process ends, and with it what it remembers.
Quit(n) ==
  /\ Types(n, "quit", <<>>, <<>>)
  /\ wire' = Frame("server", n, Msg("QUIT", <<>>, <<>>))
  /\ current_chat' = [current_chat EXCEPT ![n] = <<>>]
  /\ pending' = [pending EXCEPT ![n] = [p \in Name |-> {}]]
  /\ aes_keys' = [aes_keys EXCEPT ![n] = [p \in Name |-> {}]]
  /\ UNCHANGED inits

SPACE == " "
IsDirect(input) == Head(input) = "@"
FindSpace(s) == SelectInSeq(s, LAMBDA a : a = SPACE)
\* ss2 >> peer on  @peer text.
Addressee(input) == SubSeq(input, 2, FindSpace(input) - 1)
\* input.substr(input.find(' ')+1)
Unprefixed(input) == SubSeq(input, FindSpace(input) + 1, Len(input))

\* The content of the MSG frame: sealed as a whole under a session key, or the
\* words as they are, without the  @peer  in front.
Content(input, key) ==
  IF key # {}
    THEN LET k == CHOOSE k \in key : TRUE
         IN SealedMark \o <<Hex(aes_gcm_encrypt(k, input))>>
    ELSE IF IsDirect(input) THEN Unprefixed(input) ELSE input

\* Faulty variant: the session is looked up before  @peer  is.
SayOldSession(n, input) ==
  LET to == IF IsDirect(input) THEN Addressee(input) ELSE current_chat[n]
      key == IF current_chat[n] = <<>> THEN {} ELSE aes_keys[n][current_chat[n]]
  IN /\ to # <<>>
     /\ current_chat' = [current_chat EXCEPT ![n] = to]
     /\ wire' = Frame("server", n, Msg("MSG", to, Content(input, key)))
     /\ UNCHANGED sessionVars

\* A line that is no command goes to the peer after  @ , who is the current
\* one from then on, or to the current one; with a session, if there is one.
Say(n, input) ==
  LET to == IF IsDirect(input) THEN Addressee(input) ELSE current_chat[n]
  IN /\ to # <<>>
     /\ current_chat' = [current_chat EXCEPT ![n] = to]
     /\ wire' = Frame("server", n, Msg("MSG", to, Content(input, aes_keys[n][to])))
     /\ UNCHANGED sessionVars

SayHere(n, text) == Types(n, "line", current_chat[n], text) /\ Say(n, text)
SayTo(n, p, text) ==
  Types(n, "@line", p, text) /\ Say(n, <<"@">> \o p \o <<SPACE>> \o text)

Command(n) ==
  \/ AskWho(n) \/ Quit(n)
  \/ \E p \in Name : Chat(n, p) \/ E2E(n, p)
  \/ \E text \in Text : SayHere(n, text)
  \/ \E p \in Name, text \in Text : SayTo(n, p, text)

-----------------------------------------------------------------------------
(* The server.                                                             *)

\* What may be sent for a frame of n: by handle_message, nothing for a type that
\* it does not know, or by the loop that calls it, for one that does not parse.
Answer(n, m) ==
  CASE m.type = "MSG" /\ m.who \in online ->
         {Frame("client", m.who, Msg("FROM", n, m.content))}
    [] m.type = "WHO" ->
         {Frame("client", n, Msg("USERS", <<>>, who_content(us))) : us \in SetToSeqs(online)}
    [] (m.type = "MSG" /\ m.who \notin online) \/ m = Invalid ->
         {Frame("client", n, Msg("ERROR", <<>>, <<"reason">>))}
    [] OTHER -> {{}}

AtServer(n, m) == \E f \in wire : f.to = "server" /\ f.by = n /\ m = parse_message(f.payload)

handle_message(n, m) ==
  /\ AtServer(n, m) /\ m.type # "QUIT"
  /\ wire' \in Answer(n, m)
  /\ UNCHANGED <<online, current_chat, pending, aes_keys, inits, typed, shown>>

HandleQuit(n, m) ==
  /\ AtServer(n, m) /\ m.type = "QUIT"
  /\ online' = online \ {n}
  /\ wire' = {}
  /\ UNCHANGED <<current_chat, pending, aes_keys, inits, typed, shown>>

-----------------------------------------------------------------------------
(* The receiver: receive_messages.                                         *)

Receives(n, type, m) ==
  /\ \E f \in wire : f.to = "client" /\ f.by = n /\ m = parse_message(f.payload)
  /\ m.type = type
  /\ UNCHANGED <<online, current_chat, inits, typed>>
Shows(n, as, from, what) ==
  shown' = Append(shown, [at |-> n, as |-> as, from |-> from, what |-> what])
Done == wire' = {} /\ UNCHANGED <<pending, aes_keys>>

\* Faulty variant: the own public key is taken for the peer's.
SessionKeyOwn(our_dh, content, mark) ==
  deriveAesKey(dhGetSecret(our_dh, our_dh.public_key))
SessionKey(our_dh, content, mark) ==
  deriveAesKey(dhGetSecret(our_dh, FromHex(content[Len(mark) + 1])))

ReceiveInit(n, m) ==
  /\ Receives(n, "FROM", m) /\ Marked(InitMark, m.content)
  /\ \E our_dh \in DHkeypair :
       LET e2e_key == SessionKey(our_dh, m.content, InitMark)
       IN /\ aes_keys' = [aes_keys EXCEPT ![n][m.who] = {e2e_key}]
          /\ Shows(n, "session", m.who, e2e_key)
          /\ wire' = Frame("server", n,
                           Msg("MSG", m.who, AckMark \o <<Hex(our_dh.public_key)>>))
  /\ UNCHANGED pending

ReceiveAck(n, m) ==
  /\ Receives(n, "FROM", m) /\ Marked(AckMark, m.content)
  /\ \/ pending[n][m.who] = {} /\ Shows(n, "unexpected", m.who, <<>>) /\ Done
     \/ \E our_dh \in pending[n][m.who] :
          LET e2e_key == SessionKey(our_dh, m.content, AckMark)
          IN /\ aes_keys' = [aes_keys EXCEPT ![n][m.who] = {e2e_key}]
             /\ pending' = [pending EXCEPT ![n][m.who] = {}]
             /\ Shows(n, "session", m.who, e2e_key)
             /\ wire' = {}

ReceiveSealed(n, m) ==
  /\ Receives(n, "FROM", m) /\ Marked(SealedMark, m.content)
  /\ LET Opened(key) == aes_gcm_decrypt(key, FromHex(m.content[Len(SealedMark) + 1]))
     IN \/ aes_keys[n][m.who] = {} /\ Shows(n, "ignored", m.who, <<>>)
        \/ \E key \in aes_keys[n][m.who] :
             \/ \E plaintext \in Opened(key) : Shows(n, "sealed", m.who, plaintext)
             \/ Opened(key) = {} /\ Shows(n, "failed", m.who, <<>>)
  /\ Done

ReceivePlain(n, m) ==
  /\ Receives(n, "FROM", m)
  /\ \A mark \in {InitMark, AckMark, SealedMark} : ~Marked(mark, m.content)
  /\ Shows(n, "plain", m.who, m.content)
  /\ Done

\* Faulty variant: the list is shown as it comes.
ReceiveUsersRaw(n, m) ==
  /\ Receives(n, "USERS", m)
  /\ Shows(n, "users", <<>>, <<m.content>>)
  /\ Done
ReceiveUsers(n, m) ==
  /\ Receives(n, "USERS", m)
  /\ Shows(n, "users", <<>>, Split(m.content))
  /\ Done

ReceiveError(n, m) ==
  /\ Receives(n, "ERROR", m)
  /\ Shows(n, "error", <<>>, m.content)
  /\ Done

Next ==
  \E n \in Name :
    \/ LogIn(n) \/ Command(n)
    \/ \E m \in {parse_message(f.payload) : f \in wire} :
         \/ handle_message(n, m) \/ HandleQuit(n, m)
         \/ ReceiveInit(n, m) \/ ReceiveAck(n, m) \/ ReceiveSealed(n, m)
         \/ ReceivePlain(n, m) \/ ReceiveUsers(n, m) \/ ReceiveError(n, m)

Spec == Init /\ [][Next]_vars

-----------------------------------------------------------------------------
(* Properties.  They are about names of words, lists of such names and the *)
(* keys of a group.                                                        *)

\* Names have neither separator nor space in them, and lines that are no
\* command begin with neither "@" nor a prefix.
PlainWords ==
  /\ SEPARATOR \notin {"LOGIN"} \cup NoContent \cup ContentOnly \cup NameAndContent
  /\ \A n \in Name : n \in Seq(ToSet(n)) /\ {SEPARATOR, SPACE} \cap ToSet(n) = {}
  /\ \A text \in Text :
       /\ text \in Seq(ToSet(text)) /\ text[1] # "@"
       /\ \A mark \in {InitMark, AckMark, SealedMark} : ~Marked(mark, text)

\* The client splits the list of names where the server has joined it.
ListsReadBack ==
  \A S \in SUBSET Name : \A us \in SetToSeqs(S) :
    IsFiniteSet(S) /\ S # {} =>
      LET list == who_content(us)
      IN list \in Seq(ToSet(list)) /\ list # <<>> /\ Split(list) = us

TypeOK ==
  /\ online \subseteq Name
  /\ current_chat \in [Name -> Name \cup {<<>>}]
  /\ pending \in [Name -> [Name -> {{}} \cup {{dh} : dh \in DHkeypair}]]
  /\ aes_keys \in [Name -> [Name -> {{}} \cup {{k} : k \in AesKey}]]
  /\ inits \in 0..MaxInits
  /\ \A t \in typed : t.by \in Name
  /\ \A f \in wire : f.to \in {"server", "client"} /\ f.by \in Name
                     /\ parse_message(f.payload) # Invalid
  /\ \A i \in 1..Len(shown) : shown[i].at \in Name

\* A chat line ends at the console it is for, under the name of the one who
\* typed it, and word for word, whatever separators, spaces and type words are
\* in it: without a session as text, with one sealed, with the  @peer  that
\* was typed.  Where that cannot be, one of the two consoles says so: the
\* addressee is not logged in, or its end of the session is missing or another.
LineShown ==
  \A t \in typed :
    t.kind \in {"line", "@line"} /\ wire = {} =>
      LET s == shown[1]
          line == IF t.kind = "line" THEN t.text ELSE <<"@">> \o t.to \o <<SPACE>> \o t.text
          key == aes_keys[t.to][t.by]
      IN /\ Len(shown) = 1
         /\ \/ t.to \notin online /\ s.at = t.by /\ s.as = "error"
            \/ /\ t.to \in online /\ s.at = t.to /\ s.from = t.by
               /\ CASE t.key = {} -> s.as = "plain" /\ s.what = t.text
                    [] t.key # {} /\ key = t.key -> s.as = "sealed" /\ s.what = line
                    [] t.key # {} /\ key = {} -> s.as = "ignored"
                    [] OTHER -> s.as = "failed"

\* Once a console has a session with the one a line is for, what the server
\* relays and writes to its log is one word of hex under __E2E_MSG__
\* (phase4/README.md:73), however the addressee was given.
OpaqueToServer ==
  \A t \in typed, f \in wire :
    LET m == parse_message(f.payload)
    IN t.kind \in {"line", "@line"} /\ t.key # {} /\ m.type \in {"MSG", "FROM"} =>
         Marked(SealedMark, m.content) /\ Len(m.content) = Len(SealedMark) + 1

\* An exchange with a user who is logged in, with none left open, ends with
\* the same fingerprint on both consoles and the key in both sessions.
FingerprintsMatch ==
  \A t \in typed :
    t.kind = "e2e" /\ t.fresh /\ t.to \in online /\ wire = {} =>
      /\ Len(shown) = 2
      /\ shown[1].at = t.to /\ shown[1].from = t.by
      /\ shown[2].at = t.by /\ shown[2].from = t.to
      /\ shown[1].as = "session" /\ shown[2].as = "session"
      /\ shown[1].what = shown[2].what
      /\ aes_keys[t.by][t.to] = aes_keys[t.to][t.by]

\* What a user sees in answer to /who are the names in the registry, each once.
WhoShowsOnline ==
  \A t \in typed :
    t.kind = "who" /\ wire = {} =>
      /\ Len(shown) = 1 /\ shown[1].at = t.by
      /\ Len(shown[1].what) = Cardinality(online)
      /\ ToSet(shown[1].what) = online
=============================================================================
