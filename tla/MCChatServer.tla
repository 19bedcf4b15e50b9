---------------------------- MODULE MCChatServer ----------------------------
(***************************************************************************)
(* Instances of ChatServer for TLC.                                        *)
(***************************************************************************)
EXTENDS ChatServer, TLC

Symmetry == Permutations(User) \cup Permutations(Conn)
=============================================================================
