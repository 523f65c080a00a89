----------------------------- MODULE MCComments -----------------------------
EXTENDS Comments, TLC

CONSTANTS c1, c2, c3, b1, p1, p2, ann, bob

\* Two comments of a reader, one of the post's author, one of the AI.
Writers == c1 :> ann @@ c2 :> ann @@ c3 :> bob @@ b1 :> Bot

Symmetry == Permutations({p1, p2})
=============================================================================
