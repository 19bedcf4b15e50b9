--------------------------- MODULE MCSecureServer ---------------------------
(***************************************************************************)
(* Instances of SecureServer for TLC.                                      *)
(***************************************************************************)
EXTENDS SecureServer, TLC

CONSTANT c1

OneEach == [c \in Conn |-> 1]
\* The first connection's client sends two, the others none.
TwoByFirst == [c \in Conn |-> IF c = c1 THEN 2 ELSE 0]

Symmetry == Permutations(User) \cup Permutations(Conn)
=============================================================================
