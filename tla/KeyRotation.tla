---------------------------- MODULE KeyRotation ----------------------------
(***************************************************************************)
(* What a pair of chat clients is promised about its session keys: the two *)
(* ends agree, except that while a key exchange completes the end that     *)
(* answers is ahead: it has the new key already.  The other end then takes *)
(* that very key, and always does; nothing else changes a key.             *)
(***************************************************************************)
CONSTANT User
VARIABLES
  keys,    \* keys[u][p]: the key u holds for p, {} for none
  ahead    \* <<p, u>>: p has the new key, u has it not yet

vars == <<keys, ahead>>

Init ==
  /\ keys = [u \in User |-> [p \in User |-> {}]]
  /\ ahead = {}

\* The end p, in agreement with u, installs a key that is new to it.
Renew(p, u) ==
  /\ ahead \cap {<<p, u>>, <<u, p>>} = {}
  /\ keys[p][u] = keys[u][p]
  /\ LET k == keys'[p][u] IN
       /\ k \notin {{}, keys[p][u]}
       /\ keys' = [keys EXCEPT ![p][u] = k]
  /\ ahead' = ahead \cup {<<p, u>>}

\* The end u, behind p, takes the key p holds.
Follow(u, p) ==
  /\ <<p, u>> \in ahead
  /\ keys' = [keys EXCEPT ![u][p] = keys[p][u]]
  /\ ahead' = ahead \ {<<p, u>>}

Next == \E u, p \in User : u # p /\ (Renew(p, u) \/ Follow(u, p))
Fairness == \A u, p \in User : WF_vars(Follow(u, p))

Safety == Init /\ [][Next]_vars
Spec == Safety /\ Fairness
=============================================================================
