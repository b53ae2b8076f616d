-------------------------- MODULE MCThreadPerClient --------------------------
EXTENDS ThreadPerClient

CONSTANTS c1, c2
=============================================================================
