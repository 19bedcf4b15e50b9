----------------------------- MODULE Directory -----------------------------
(***************************************************************************)
(* What the chat server promises about names: a name in use belongs to one *)
(* connection, from the login that took it until that connection's client  *)
(* is gone; nobody else takes or frees it meanwhile, and a connection      *)
(* holds at most one name.                                                 *)
(***************************************************************************)
CONSTANTS User, Conn, NoConn
VARIABLES
  holder,   \* holder[u]: the connection logged in as u, NoConn for none
  gone      \* connections whose client has quit or died

vars == <<holder, gone>>

Init == holder = [u \in User |-> NoConn] /\ gone = {}

Take(u, c) ==
  /\ holder[u] = NoConn
  /\ \A v \in User : holder[v] # c
  /\ holder' = [holder EXCEPT ![u] = c]
  /\ UNCHANGED gone

Free(u) ==
  /\ holder[u] \in gone
  /\ holder' = [holder EXCEPT ![u] = NoConn]
  /\ UNCHANGED gone

Go(c) == c \notin gone /\ gone' = gone \cup {c} /\ UNCHANGED holder

Next == \/ \E u \in User, c \in Conn : Take(u, c)
        \/ \E u \in User : Free(u)
        \/ \E c \in Conn : Go(c)
Spec == Init /\ [][Next]_vars
=============================================================================
