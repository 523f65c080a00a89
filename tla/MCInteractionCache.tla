------------------------- MODULE MCInteractionCache -------------------------
EXTENDS InteractionCache, TLC

CONSTANTS u1, u2, u3, p1, p2

NoFaults == [f \in FaultNames |-> 0]

QuietDay == [NoFaults EXCEPT !["expire"] = 1]

\* Anything may fail once between a client and Elasticsearch, except that the
\* filter itself is lost.
Faults == [f \in FaultNames |-> IF f \in {"restart", "bloom"} THEN 0 ELSE 1]

\* A handler dies, Redis or the filter loses what it knew.
Outage == [NoFaults EXCEPT !["crash"] = 1, !["restart"] = 1, !["bloom"] = 1]

Symmetry == Permutations({p1, p2})
UserSymmetry == Permutations({p1, p2}) \cup Permutations({u1, u2})
=============================================================================
