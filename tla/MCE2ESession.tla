--------------------------- MODULE MCE2ESession ---------------------------
(***************************************************************************)
(* Instances of E2ESession for TLC.  The usernames are ada < bob < cyd.    *)
(***************************************************************************)
EXTENDS E2ESession, TLC

CONSTANTS ada, bob, cyd

MCRank == [u \in User |-> CASE u = ada -> 1 [] u = bob -> 2 [] OTHER -> 3]
BothWays == {<<ada, bob>>, <<bob, ada>>}
BobAsks == {<<bob, ada>>}
BothAskAda == {<<bob, ada>>, <<cyd, ada>>}
CydToAdaToBob == {<<cyd, ada>>, <<ada, bob>>}
AdaTalks == {<<ada, bob>>}
=============================================================================
