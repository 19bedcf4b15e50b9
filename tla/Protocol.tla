------------------------------ MODULE Protocol ------------------------------
(***************************************************************************)
(* The text format of the frames: parse_message and serialize_message      *)
(* (phase5/src/network/protocol.cpp), and the list of names that the       *)
(* server packs into one of them and the client splits again.              *)
(*                                                                         *)
(* A string is a sequence of symbols: words, whose letters do not matter,  *)
(* and separators.                                                         *)
(***************************************************************************)
EXTENDS Naturals, Sequences, SequencesExt

CONSTANT SEPARATOR   \* "|", a symbol that is no word

-----------------------------------------------------------------------------
(* parse_message and serialize_message.                                    *)

Bar == <<SEPARATOR>>

\* Faulty variants: rfind for find.
BeforeLast(s) == SubSeq(s, 1, SelectLastInSeq(s, LAMBDA a : a = SEPARATOR) - 1)
AfterLast(s) == SubSeq(s, SelectLastInSeq(s, LAMBDA a : a = SEPARATOR) + 1, Len(s))

\* payload.find("|") and the two substrings beside it; not found is 0.
Find(s) == SelectInSeq(s, LAMBDA a : a = SEPARATOR)
Before(s) == SubSeq(s, 1, Find(s) - 1)
After(s) == SubSeq(s, Find(s) + 1, Len(s))

\* A message: who is its name field, sender or receiver by the type.
NoContent == {"WHO", "QUIT"}
ContentOnly == {"OK", "ERROR", "USERS", "DH_HELLO", "CERT", "CHALLENGE", "CHALLENGE_RESP"}
NameAndContent == {"MSG", "FROM"}
Msg(type, who, content) == [type |-> type, who |-> who, content |-> content]
Invalid == Msg("invalid", <<>>, <<>>)

parse_message(payload) ==
  LET type == Before(payload)
      rest == After(payload)
  IN CASE \E t \in NoContent : payload = <<t>> -> Msg(payload[1], <<>>, <<>>)
       [] Find(payload) > 0 /\ type = <<"LOGIN">> /\ rest # <<>> ->
            Msg("LOGIN", rest, <<>>)
       [] Find(payload) > 0 /\ (\E t \in ContentOnly : type = <<t>>) /\ rest # <<>> ->
            Msg(type[1], <<>>, rest)
       [] /\ Find(payload) > 0 /\ \E t \in NameAndContent : type = <<t>>
          /\ Find(rest) > 0 /\ Before(rest) # <<>> /\ After(rest) # <<>> ->
            Msg(type[1], Before(rest), After(rest))
       [] OTHER -> Invalid

serialize_message(m) ==
  CASE m.type \in NoContent -> <<m.type>>
    [] m.type = "LOGIN" -> <<m.type>> \o Bar \o m.who
    [] m.type \in ContentOnly -> <<m.type>> \o Bar \o m.content
    [] m.type \in NameAndContent -> <<m.type>> \o Bar \o m.who \o Bar \o m.content

\* The answer to WHO is built with a separator between the names, in the
\* order of the registry's hash map, and split again by the client.
who_content(users) ==
  FoldLeft(LAMBDA acc, u : IF acc = <<>> THEN u ELSE acc \o Bar \o u, <<>>, users)
Split(s) ==
  FoldLeft(LAMBDA acc, a : IF a = SEPARATOR THEN Append(acc, <<>>)
                             ELSE Append(Front(acc), Append(Last(acc), a)),
           <<(<<>>)>>, s)
=============================================================================
