--------------------------- MODULE Notifications ----------------------------
(***************************************************************************)
(* notification-rpc and its callers: the listeners of platform-java store  *)
(* notifications, their receivers read and mark them, and an operator      *)
(* cleans up the duplicates of an old database.                            *)
(*                                                                         *)
(* A notification of a state (a like, collect, rating, follow) has a key:  *)
(* receiver, sender, type and target; a repetition refreshes it.  Comments *)
(* and messages of the system are a history: each is kept.  A partial      *)
(* unique index guards the state keys, but it is missing as long as the    *)
(* duplicates of an old database prevent its creation at start-up.         *)
(*                                                                         *)
(* Names, pictures and previews are left out.  Clocks agree.               *)
(***************************************************************************)
EXTENDS Integers, FiniteSets, Functions, Sequences

CONSTANTS
    StateKeys,
    HistoryKeys,
    Receiver,     \* Receiver[k]: whom a notification with key k is for
    Callers,      \* threads of the listeners
    Cleaners,     \* requests to clean up
    None,
    PageSize,     \* notifications on a page
    OldDocs,      \* the documents of the database at first, in the order of their ids
    MaxWrites,    \* bound: notifications sent
    MaxCleans,    \* bound: clean-ups
    MaxStops      \* bound: errors and restarts

Keys  == StateKeys \cup HistoryKeys
Users == {Receiver[k] : k \in Keys}

\* Documents; at is createdAt.
Doc == [key : Keys, read : BOOLEAN, at : Nat]

\* An upsert under way.
Call == [key : StateKeys, at : Nat, step : {"match", "insert"}]

ASSUME NotificationAssumption ==
    /\ StateKeys \cap HistoryKeys = {}
    /\ None \notin Call \cup [key : StateKeys, at : Nat]
    /\ DOMAIN Receiver = Keys
    /\ OldDocs \in Seq(Doc)
    /\ \A i \in DOMAIN OldDocs : OldDocs[i].at = 0
    /\ PageSize \in Nat \ {0}
    /\ MaxWrites \in Nat /\ MaxCleans \in Nat /\ MaxStops \in Nat

VARIABLES
    docs,       \* the collection: documents by _id
    indexed,    \* the unique index of the state keys exists
    clock,      \* notifications sent so far, which is also the time
    call,       \* call[p]: the upsert p has under way, or None
    doomed,     \* doomed[c]: ids c has still to delete, None: c is idle
    sent,       \* sent[k]: documents with history key k inserted (history)
    pending,    \* state keys written since their receiver marked them (history)
    written,    \* state keys with a document at some time (history)
    disturbed,  \* a write overlapped a clean-up or a later write (history)
    cleans,     \* clean-ups so far
    stops       \* errors and restarts so far

historyVars == <<sent, pending, written, disturbed>>
vars == <<docs, indexed, clock, call, doomed, historyVars, cleans, stops>>

Ids  == DOMAIN docs
With(k) == {i \in Ids : docs[i].key = k}

\* Every document gets an id of its own; at tells notifications apart.
NewId(at) == Len(OldDocs) + at

WithDoc(i, d) == [j \in Ids \cup {i} |-> IF j = i THEN d ELSE docs[j]]

TypeOK ==
    /\ docs \in [Ids -> Doc] /\ Ids \subseteq Nat
    /\ indexed \in BOOLEAN
    /\ clock \in Nat
    /\ call \in [Callers -> Call \cup {None}]
    /\ doomed \in [Cleaners -> {None} \cup SUBSET Nat]
    /\ sent \in [HistoryKeys -> Nat]
    /\ pending \subseteq written /\ written \subseteq StateKeys
    /\ disturbed \in BOOLEAN
    /\ cleans \in Nat /\ stops \in Nat

\* The index can be built: no two documents share a state key.
NoDuplicates == \A k \in StateKeys : Cardinality(With(k)) <= 1

\* ensureNotificationIndexes at the first start.
Init ==
    /\ docs = OldDocs
    /\ indexed = NoDuplicates
    /\ clock = 0
    /\ call = [p \in Callers |-> None]
    /\ doomed = [c \in Cleaners |-> None]
    /\ sent = [k \in HistoryKeys |-> Cardinality(With(k))]
    /\ pending = {}
    /\ written = {k \in StateKeys : With(k) # {}}
    /\ disturbed = FALSE
    /\ cleans = 0 /\ stops = 0
-----------------------------------------------------------------------------
(* Storing a notification: save of the listeners' client. *)

Cleaning == \E c \in Cleaners : doomed[c] # None

\* A state notification is upserted; createdAt is taken first.
Upsert(p, k) ==
    /\ call[p] = None
    /\ clock < MaxWrites
    /\ clock' = clock + 1
    /\ call' = [call EXCEPT ![p] = [key |-> k, at |-> clock + 1, step |-> "match"]]
    /\ UNCHANGED <<docs, indexed, doomed, historyVars, cleans, stops>>

\* What a write of p's notification means for the history variables.
Wrote(p) ==
    LET k == call[p].key
    IN  /\ pending' = pending \cup {k}
        /\ written' = written \cup {k}
        /\ disturbed' = (disturbed \/ Cleaning
                           \/ \E i \in With(k) : docs[i].at > call[p].at)
        /\ UNCHANGED sent

Fresh(p) == [key |-> call[p].key, read |-> FALSE, at |-> call[p].at]

\* A repetition: the document shows up as new again.
Refreshed(p, i) == Fresh(p)

\* UpdateOne refreshes one document with the key, ...
Match(p) ==
    /\ call[p] # None /\ call[p].step = "match"
    /\ \E i \in With(call[p].key) : docs' = [docs EXCEPT ![i] = Refreshed(p, i)]
    /\ Wrote(p)
    /\ call' = [call EXCEPT ![p] = None]
    /\ UNCHANGED <<indexed, clock, doomed, cleans, stops>>

\* ... or finds none.
Miss(p) ==
    /\ call[p] # None /\ call[p].step = "match"
    /\ With(call[p].key) = {}
    /\ call' = [call EXCEPT ![p].step = "insert"]
    /\ UNCHANGED <<docs, indexed, clock, doomed, historyVars, cleans, stops>>

\* Mutant: the index is not unique.
Accepted(k) == FALSE

\* The unique index refuses a second document with a state key.
Refused(k) == indexed /\ k \in StateKeys /\ With(k) # {}

\* The insertion of an upsert, which MongoDB starts again when it is refused.
Insert(p) ==
    /\ call[p] # None /\ call[p].step = "insert"
    /\ IF Refused(call[p].key)
       THEN /\ call' = [call EXCEPT ![p].step = "match"]
            /\ UNCHANGED <<docs, historyVars>>
       ELSE /\ docs' = WithDoc(NewId(call[p].at), Fresh(p))
            /\ call' = [call EXCEPT ![p] = None]
            /\ Wrote(p)
    /\ UNCHANGED <<indexed, clock, doomed, cleans, stops>>

\* A notification of the history is inserted.
Create(p, k) ==
    /\ call[p] = None
    /\ clock < MaxWrites
    /\ clock' = clock + 1
    /\ docs' = WithDoc(NewId(clock + 1), [key |-> k, read |-> FALSE, at |-> clock + 1])
    /\ sent' = [sent EXCEPT ![k] = @ + 1]
    /\ UNCHANGED <<indexed, call, doomed, pending, written, disturbed, cleans, stops>>

\* A type the client calls a status is upserted, every other is created.
Save(p, k) == IF k \in StateKeys THEN Upsert(p, k) ELSE Create(p, k)

\* The call returns an error or times out; the listener logs it and goes on.
CallFails(p) ==
    /\ call[p] # None
    /\ stops < MaxStops
    /\ stops' = stops + 1
    /\ call' = [call EXCEPT ![p] = None]
    /\ UNCHANGED <<docs, indexed, clock, doomed, historyVars, cleans>>
-----------------------------------------------------------------------------
(* Reading. *)

Of(u) == {i \in Ids : Receiver[docs[i].key] = u}

\* The order of the list; createdAt of old documents may be the same.
Before(i, j) == docs[i].at > docs[j].at \/ (docs[i].at = docs[j].at /\ i < j)

\* ListNotifications: page n of u's notifications, the latest first.
Page(u, n) ==
    {i \in Of(u) : Cardinality({j \in Of(u) : Before(j, i)})
                     \in ((n - 1) * PageSize) .. (n * PageSize - 1)}

\* The pages a client asks for, by the total it was told.
Pages(u) == 1 .. ((Cardinality(Of(u)) + PageSize - 1) \div PageSize)

\* Mutant: the update forgets whose notifications they are.
AnyUnread(u, ids) == {i \in ids \cap Ids : ~docs[i].read}

\* The unread notifications of u among ids.
Unread(u, ids) == {i \in ids \cap Ids : Receiver[docs[i].key] = u /\ ~docs[i].read}

MarkRead(u, ids) ==
    LET marked == Unread(u, ids)
    IN  /\ marked # {}
        /\ docs' = [i \in Ids |-> [docs[i] EXCEPT !.read = @ \/ i \in marked]]
        /\ pending' = pending \ {k \in StateKeys : Receiver[k] = u /\ With(k) \cap ids # {}}
        /\ UNCHANGED <<indexed, clock, call, doomed, sent, written, disturbed, cleans,
                       stops>>

MarkAllRead(u) == MarkRead(u, Ids)

\* A client sends any ids; those that are none are skipped.
MarkBatchRead(u) == \E ids \in SUBSET Ids : MarkRead(u, ids)
-----------------------------------------------------------------------------
(* CleanDuplicateNotifications, and a restart. *)

\* Mutant: comments and messages are cleaned as well.
GroupOfAny(i) == With(docs[i].key)

\* The groups are those of the state types.
Group(i) == IF docs[i].key \in StateKeys THEN With(docs[i].key) ELSE {i}

\* Mutant: the whole group is deleted.
Nobody(g) == None

\* The document kept: the first by descending createdAt.
Latest(g) == CHOOSE i \in g : \A j \in g : docs[i].at >= docs[j].at

\* Aggregate, and collect the ids to delete.
Aggregate(c) ==
    /\ doomed[c] = None
    /\ cleans < MaxCleans
    /\ cleans' = cleans + 1
    /\ doomed' = [doomed EXCEPT ![c] =
                    {i \in Ids : Cardinality(Group(i)) > 1 /\ i # Latest(Group(i))}]
    /\ disturbed' = (disturbed \/ Cleaning \/ \E p \in Callers : call[p] # None)
    /\ UNCHANGED <<docs, indexed, clock, call, sent, pending, written, stops>>

\* DeleteMany by id; it is not atomic, and ids may be gone already.
Delete(c) ==
    /\ doomed[c] # None
    /\ \/ /\ doomed[c] = {}
          /\ doomed' = [doomed EXCEPT ![c] = None]
          /\ UNCHANGED docs
       \/ \E i \in doomed[c] :
            /\ docs' = Restrict(docs, Ids \ {i})
            /\ doomed' = [doomed EXCEPT ![c] = @ \ {i}]
    /\ UNCHANGED <<indexed, clock, call, historyVars, cleans, stops>>

\* The service restarts: what it did stops where it was, and the index is built
\* unless duplicates prevent it, which is only logged.
Restart ==
    /\ stops < MaxStops
    /\ stops' = stops + 1
    /\ indexed' = (indexed \/ NoDuplicates)
    /\ call' = [p \in Callers |-> None]
    /\ doomed' = [c \in Cleaners |-> None]
    /\ UNCHANGED <<docs, clock, historyVars, cleans>>
-----------------------------------------------------------------------------
Next ==
    \/ \E p \in Callers :
         \/ \E k \in Keys : Save(p, k)
         \/ Match(p) \/ Miss(p) \/ Insert(p) \/ CallFails(p)
    \/ \E u \in Users : MarkAllRead(u) \/ MarkBatchRead(u)
    \/ \E c \in Cleaners : Aggregate(c) \/ Delete(c)
    \/ Restart

Spec == Init /\ [][Next]_vars
-----------------------------------------------------------------------------
(* Properties. *)

\* Once the index could be built no two notifications share a state key, however
\* upserts overlap.
StateKeyUnique == indexed => NoDuplicates

\* Every notification of the history stays, whatever is cleaned up, and is on one of
\* the pages of its receiver.
HistoryComplete ==
    \A k \in HistoryKeys :
        /\ Cardinality(With(k)) = sent[k]
        /\ \A i \in With(k) :
             Cardinality({n \in Pages(Receiver[k]) : i \in Page(Receiver[k], n)}) = 1

\* No clean-up removes a state notification altogether, although upserts insert
\* and refresh documents between its aggregation and its deletions.
NeverLost == \A k \in written : With(k) # {}

\* A state that occurred again after its receiver marked it is shown as unread,
\* although others mark theirs and duplicates are cleaned up, unless it was
\* written during a clean-up or after a later occurrence.
UnreadKept ==
    ~disturbed => \A k \in pending : With(k) \cap Unread(Receiver[k], Ids) # {}

\* From the moment the index exists the service implements the boxes of Inbox: an upsert
\* takes effect at one instant, and clean-ups and restarts have none.
Waiting == [p \in Callers |-> IF call[p] = None THEN None
                               ELSE [key |-> call[p].key, at |-> call[p].at]]
Letter(i) == [id |-> i, read |-> docs[i].read, at |-> docs[i].at]
Boxes == [k \in StateKeys |-> {Letter(i) : i \in With(k)}]

Box == INSTANCE Inbox WITH
           Keys <- StateKeys, guarded <- indexed, waiting <- Waiting, box <- Boxes

ImplementsInbox == Box!Spec
=============================================================================
