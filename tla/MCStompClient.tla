---------------------------- MODULE MCStompClient ----------------------------
EXTENDS StompClient

CONSTANTS ch1, ch2, me, you
=============================================================================
