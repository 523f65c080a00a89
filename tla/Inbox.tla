------------------------------- MODULE Inbox --------------------------------
(***************************************************************************)
(* What notification-rpc promises for the notifications of states once     *)
(* its unique index exists: a state has one notification, which keeps its  *)
(* id; one that is sent shows up at one instant, as a whole, or not at     *)
(* all; and nobody but its receiver makes it read.  That storing one takes *)
(* two commands, that storings overlap, are refused and tried again, that  *)
(* the service restarts or an operator cleans up, cannot be seen.          *)
(***************************************************************************)
EXTENDS Naturals

CONSTANTS
    Keys,        \* what notifications are about
    Receiver,    \* Receiver[k]: whom a notification about k is for
    Callers,     \* those who send
    None

VARIABLES
    guarded,     \* the unique index exists
    waiting,     \* waiting[p]: what p has sent and is not yet stored, or None
    box          \* box[k]: the notifications about k

vars == <<guarded, waiting, box>>

Occurrence   == [key : Keys, at : Nat]
Notification == [id : Nat, read : BOOLEAN, at : Nat]

Single == \A k \in Keys : \A d, e \in box[k] : d = e

TypeOK ==
    /\ guarded \in BOOLEAN
    /\ waiting \in [Callers -> Occurrence \cup {None}]
    /\ box \in [Keys -> SUBSET Notification]

\* An old database may have duplicates; then there is no index.
Init ==
    /\ TypeOK
    /\ waiting = [p \in Callers |-> None]
    /\ guarded => Single

\* Without the index nothing is promised, but that it is only built over notifications
\* that are the only ones of their states.
Unguarded ==
    /\ ~guarded
    /\ TypeOK'
    /\ guarded' => Single'

Send(p) ==
    /\ waiting[p] = None
    /\ waiting'[p] \in Occurrence
    /\ waiting' = [waiting EXCEPT ![p] = waiting'[p]]
    /\ UNCHANGED <<guarded, box>>

\* The notification is new, or the one that is there shows the later occurrence.
Store(p) ==
    /\ waiting[p] # None
    /\ LET k == waiting[p].key
       IN  \E d \in box'[k] :
             /\ ~d.read /\ d.at = waiting[p].at
             /\ \A e \in box[k] : e.id = d.id
             /\ box' = [box EXCEPT ![k] = {d}]
    /\ waiting' = [waiting EXCEPT ![p] = None]
    /\ UNCHANGED guarded

\* Callers whose notifications are lost, with an error or a restart.
Lose(P) ==
    /\ waiting' = [p \in Callers |-> IF p \in P THEN None ELSE waiting[p]]
    /\ UNCHANGED <<guarded, box>>

\* A receiver has seen some of the notifications.
See(u, K) ==
    /\ \A k \in K : Receiver[k] = u
    /\ box' = [k \in Keys |-> IF k \in K THEN {[d EXCEPT !.read = TRUE] : d \in box[k]}
                              ELSE box[k]]
    /\ UNCHANGED <<guarded, waiting>>

Next ==
    \/ Unguarded
    \/ guarded /\ \/ \E p \in Callers : Send(p) \/ Store(p)
                  \/ \E P \in SUBSET Callers : Lose(P)
                  \/ \E K \in SUBSET Keys : \E u \in {Receiver[k] : k \in K} : See(u, K)

Spec == Init /\ [][Next]_vars
=============================================================================
