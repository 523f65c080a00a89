---------------------------- MODULE MCAuthTokens ----------------------------
EXTENDS Gateway, TLC

CONSTANTS p1, p2, j1, j2, j3

Everything == OpNames

\* Requests that write the row do not overlap; the others do.
OneWriter == RowWriters

PairSymmetry == Permutations({j1, j2, j3})
HandlerSymmetry == Permutations({p1, p2}) \cup Permutations({j1, j2})
=============================================================================
