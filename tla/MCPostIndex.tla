----------------------------- MODULE MCPostIndex -----------------------------
EXTENDS Feed

CONSTANTS p1, w1
=============================================================================
