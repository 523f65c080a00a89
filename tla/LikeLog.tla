------------------------------ MODULE LikeLog ------------------------------
(***************************************************************************)
(* What the write-behind of InteractionCache promises the readers of        *)
(* MongoDB and Elasticsearch, without Redis, handlers and listener steps:   *)
(* the choices of the users form a log, and the records and both counts are *)
(* what comes out when the log is applied in its order, each entry once and *)
(* as a whole.                                                              *)
(***************************************************************************)
EXTENDS Integers, Sequences, FiniteSets

CONSTANTS
    Users,       \* everybody who may like the target
    Residents,   \* those whose like is stored before the run
    Indexed      \* Elasticsearch has the count too

VARIABLES
    log,         \* choices that are not applied yet, oldest first
    stored,      \* users with a record
    likeCount,   \* the count in MongoDB
    esCount      \* the count in Elasticsearch

vars == <<log, stored, likeCount, esCount>>

Choice == [user : Users, act : {"ADD", "REMOVE"}]

Init ==
    /\ log = <<>>
    /\ stored = Residents
    /\ likeCount = Cardinality(Residents)
    /\ esCount = Cardinality(Residents)

Choose(e) ==
    /\ log' = Append(log, e)
    /\ UNCHANGED <<stored, likeCount, esCount>>

CountBy(n) ==
    /\ likeCount' = likeCount + n
    /\ esCount' = IF Indexed THEN esCount + n ELSE esCount

\* A like that is there already changes nothing; a removal always counts.
Apply ==
    /\ log # <<>>
    /\ log' = Tail(log)
    /\ LET e == Head(log) IN
        \/ /\ e.act = "ADD" /\ e.user \in stored
           /\ UNCHANGED <<stored, likeCount, esCount>>
        \/ /\ e.act = "ADD" /\ e.user \notin stored
           /\ stored' = stored \cup {e.user}
           /\ CountBy(1)
        \/ /\ e.act = "REMOVE"
           /\ stored' = stored \ {e.user}
           /\ CountBy(-1)

Next == (\E e \in Choice : Choose(e)) \/ Apply

Spec == Init /\ [][Next]_vars
=============================================================================
