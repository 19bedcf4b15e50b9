------------------------------ MODULE Channel -------------------------------
(***************************************************************************)
(* What the handshake of phases 2 to 5 promises for each connection: it    *)
(* opens at both ends at once, with one key that no other connection has,  *)
(* or the ends give up.  An end that has opened is left by the client      *)
(* first; the handler follows.  SecureServer takes its handshake in this   *)
(* one step; Handshake is shown to implement it.                           *)
(***************************************************************************)
CONSTANTS Conn, NoKey, Key

VARIABLES client, handler, clientKey, handlerKey
vars == <<client, handler, clientKey, handlerKey>>

Init ==
  /\ client = [c \in Conn |-> "none"]
  /\ handler = [c \in Conn |-> "none"]
  /\ clientKey = [c \in Conn |-> NoKey]
  /\ handlerKey = [c \in Conn |-> NoKey]

Connect(c) ==
  /\ client[c] = "none" /\ handler[c] = "none"
  /\ client' = [client EXCEPT ![c] = "handshake"]
  /\ handler' = [handler EXCEPT ![c] = "handshake"]
  /\ UNCHANGED <<clientKey, handlerKey>>

Open(c) ==
  /\ client[c] = "handshake" /\ handler[c] = "handshake"
  /\ \E k \in Key :
       /\ \A d \in Conn : k \notin {clientKey[d], handlerKey[d]}
       /\ clientKey' = [clientKey EXCEPT ![c] = k]
       /\ handlerKey' = [handlerKey EXCEPT ![c] = k]
  /\ client' = [client EXCEPT ![c] = "open"]
  /\ handler' = [handler EXCEPT ![c] = "open"]

ClientCloses(c) ==
  /\ client[c] \in {"handshake", "open"}
  /\ client' = [client EXCEPT ![c] = "closed"]
  /\ UNCHANGED <<handler, clientKey, handlerKey>>

HandlerCloses(c) ==
  /\ handler[c] = "handshake" \/ (handler[c] = "open" /\ client[c] = "closed")
  /\ handler' = [handler EXCEPT ![c] = "closed"]
  /\ UNCHANGED <<client, clientKey, handlerKey>>

Next == \E c \in Conn : Connect(c) \/ Open(c) \/ ClientCloses(c) \/ HandlerCloses(c)

Spec == Init /\ [][Next]_vars
=============================================================================
