-------------------------- MODULE MCNotifications ---------------------------
(* Two receivers; the database holds two documents with the state key a.     *)
EXTENDS Notifications, TLC

CONSTANTS a, b, h, u1, u2

For == (a :> u1) @@ (b :> u2) @@ (h :> u1)

Old == <<[key |-> a, read |-> FALSE, at |-> 0], [key |-> a, read |-> TRUE, at |-> 0],
         [key |-> h, read |-> TRUE, at |-> 0]>>

Interchangeable == Permutations(Callers)
=============================================================================
