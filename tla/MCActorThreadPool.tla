------------------------- MODULE MCActorThreadPool -------------------------
EXTENDS ActorThreadPool

CONSTANTS a1, a2, s1, s2, w1, w2

MCActs == {a1, a2}
TwoSubmitters == {s1, s2}
MCWorkers == {w1, w2}
=============================================================================
