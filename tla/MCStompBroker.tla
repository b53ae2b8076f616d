---------------------------- MODULE MCStompBroker ----------------------------
EXTENDS StompBroker, TLC

CONSTANTS c1, c2, c3, u1, u2, p1, p2, t1, t2

TwoConns == {c1, c2}
ThreeConns == {c1, c2, c3}

Logins == {"CONNECT"}
Topical == {"SUBSCRIBE", "UNSUBSCRIBE", "SEND", "DISCONNECT", "malformed"}
Everything == Logins \cup Topical

\* Connections, passwords and topics are interchangeable.
SymmetryTwo == Permutations(TwoConns) \cup Permutations({p1, p2})
SymmetryThree == Permutations(ThreeConns) \cup Permutations({t1, t2})
=============================================================================
