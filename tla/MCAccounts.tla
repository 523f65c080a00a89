----------------------------- MODULE MCAccounts -----------------------------
(* One registered account, one free id, two addresses. *)
EXTENDS Accounts, TLC

CONSTANTS u1, u2, e1, e2

MCRegistered == [u \in Users |-> IF u = u1 THEN e1 ELSE None]

\* Register and bind the free address, reset the password of the other; a code
\* may be presented for another scene than it was mailed for.
MCRequests ==
    {r \in Request :
        /\ r.op = "verify" => r.scene = "bind_email"
        /\ r.op \in {"delete", "bind_email"} => r.user = u1
        /\ r.op = "delete" => r.scene = "register"
        /\ r.email = IF r.scene = "reset_password" THEN e1 ELSE e2}

Interchangeable == Permutations(Codes) \cup Permutations(Procs)
=============================================================================
