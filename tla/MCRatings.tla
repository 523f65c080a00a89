----------------------------- MODULE MCRatings ------------------------------
(* Two users, one of whom has rated the post before. *)
EXTENDS Ratings, TLC

CONSTANTS u1, u2

OneRated == [u \in Users |-> IF u = u1 THEN 1 ELSE None]

Interchangeable == Permutations(Procs) \cup Permutations(Consumers)
=============================================================================
