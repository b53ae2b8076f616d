----------------------------- MODULE MCReactor -----------------------------
EXTENDS Reactor, TLC

CONSTANTS c1, c2

TwoConns == {c1, c2}

Symmetry == Permutations(TwoConns)

\* Bound on the frames of each client.
OneEach == [c \in TwoConns |-> 1]

\* Nothing is explored after the selector loop was left.
LoopRuns == sel \notin {"ended", "crashed"}

NoEvents == {}
Leave == {"leave"}
AllEvents == {"leave", "close"}

AllOutcomes == {"reply", "error", "disconnect", "send"}
NoErrors == {"reply", "disconnect", "send"}
NoLogout == {"reply", "send"}
=============================================================================
