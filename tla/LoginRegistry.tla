--------------------------- MODULE LoginRegistry ---------------------------
(***************************************************************************)
(* What the server promises about users: the first login of a user sets    *)
(* its password, later logins need that password, and a user is logged in  *)
(* on one connection at a time.  StompBroker implements this module when   *)
(* one thread processes the frames; with two threads it does not.  No code *)
(* of the server logs a user out, so Logout has no counterpart there.      *)
(***************************************************************************)
CONSTANTS Conns, Users, Passwords,
          None   \* no password, no connection

VARIABLES account,  \* [Users -> Passwords \cup {None}]
          holder,   \* [Users -> Conns \cup {None}], who is logged in as a user
          granted   \* the logins that were granted, [conn, user, pass]

vars == <<account, holder, granted>>

Init ==
    /\ account = [u \in Users |-> None]
    /\ holder = [u \in Users |-> None]
    /\ granted = {}

Register(u, p) ==
    /\ account[u] = None
    /\ account' = [account EXCEPT ![u] = p]
    /\ UNCHANGED <<holder, granted>>

Login(c, u, p) ==
    /\ account[u] = p
    /\ holder[u] = None
    /\ holder' = [holder EXCEPT ![u] = c]
    /\ granted' = granted \cup {[conn |-> c, user |-> u, pass |-> p]}
    /\ UNCHANGED account

Logout(u) ==
    /\ holder[u] # None
    /\ holder' = [holder EXCEPT ![u] = None]
    /\ UNCHANGED <<account, granted>>

Next ==
    \E u \in Users :
        \/ \E p \in Passwords : Register(u, p)
        \/ \E c \in Conns, p \in Passwords : Login(c, u, p)
        \/ Logout(u)

Spec == Init /\ [][Next]_vars
=============================================================================
