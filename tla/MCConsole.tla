----------------------------- MODULE MCConsole ------------------------------
(***************************************************************************)
(* Instances of Console for TLC: names without a separator, one of them a  *)
(* type word, and texts of up to two words, spaces and separators.         *)
(***************************************************************************)
EXTENDS Console, TLC

PlainNames == {<<"ada">>, <<"QUIT">>}
Texts == LET A == {"hi", SPACE, SEPARATOR} IN {<<a>> : a \in A \cup {"WHO"}} \cup (A \X A)

\* What the proofs about Console take of its operators, and of a second group.
Group13 == INSTANCE DiffieHellman WITH DH_Prime <- 13, DH_base <- 2, PrivateBits <- 3
ASSUME OperatorsAssumption ==
  PlainWords /\ ListsReadBack /\ KeysAgree /\ Group13!KeysAgree
=============================================================================
