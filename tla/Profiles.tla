------------------------------ MODULE Profiles ------------------------------
(***************************************************************************)
(* The names of users and their copies.  user-rpc keeps a user's name in   *)
(* MySQL; posts, comments, follow relations and notifications in MongoDB   *)
(* and the posts in Elasticsearch carry copies.  When a name changes, or   *)
(* its user is deleted, an event goes to two queues of sync-sidecar, whose *)
(* workers correct the copies statement by statement, while requests and   *)
(* listeners of the other services write documents with the names they     *)
(* have read before.                                                       *)
(*                                                                         *)
(* A name stands for nickname and picture.  Each queue has twenty workers, *)
(* so events may be taken in order and still be handled in any: a queue is *)
(* a set.  The two names of a deleted user, in MySQL and in the copies,    *)
(* differ in their wording only and are one here.                          *)
(***************************************************************************)
EXTENDS Integers, FiniteSets, Functions, Sequences, Topology

CONSTANTS
    Users, Names,
    First,       \* the name everybody has at first
    Gone,        \* the name of a deleted user
    None,
    Changing,    \* the users who change or are deleted
    Tasks,       \* requests and listeners that write documents
    Workers,     \* workers of the sidecar's user queue
    OldDocs,     \* the documents of MongoDB at first, a sequence
    MaxChanges,  \* bound: names changed and users deleted
    MaxWrites,   \* bound: documents written
    MaxFaults    \* bound: errors and crashes

\* post_likes stands for every collection of what a user did in private:
\* likes, collects, ratings and histories.
Colls == {"posts", "comments", "user_follows", "notifications", "post_likes"}

\* user is the author, fan, sender or owner; other is whom a comment answers,
\* whom a fan follows, or a notification's receiver.
Doc == [coll : Colls, user : Users, name : Names \cup {Gone},
        other : Users \cup {None}, otherName : Names \cup {Gone, None}]

Event == [user : Users, name : Names \cup {Gone}, at : Nat]

Task == [kind : {"post", "edit", "comment", "follow", "notice"},
         step : {"parent", "save", "publish", "reread", "index"},
         id : Nat, doc : Doc]

\* What the services write: who else is named, and that nobody follows himself.
Shaped(d) ==
    /\ d.otherName # None => d.coll \in {"comments", "user_follows"} /\ d.other # None
    /\ d.coll = "user_follows" => d.other \notin {d.user, None} /\ d.otherName # None
    /\ d.coll = "post_likes" => d.other = None

ASSUME ProfileAssumption ==
    /\ Changing \subseteq Users
    /\ First \in Names /\ Gone \notin Names /\ None \notin Names \cup {Gone} \cup Users
    /\ None \notin Task \cup [event : Event, step : Nat]
    /\ OldDocs \in Seq(Doc)
    /\ MaxChanges \in Nat /\ MaxWrites \in Nat /\ MaxFaults \in Nat

\* The documents of before fit each other: all have the first names, no relation or
\* notification is there twice, and whoever is followed was told so.
ASSUME OldDocsFit ==
    LET Old == 1..Len(OldDocs)
        Same(i, j) == OldDocs[i].user = OldDocs[j].user /\ OldDocs[i].other = OldDocs[j].other
    IN  \A i \in Old :
          /\ Shaped(OldDocs[i])
          /\ OldDocs[i].name = First /\ OldDocs[i].otherName \in {First, None}
          /\ OldDocs[i].coll \in {"user_follows", "notifications"} =>
               \A j \in Old \ {i} : OldDocs[j].coll = OldDocs[i].coll => ~Same(i, j)
          /\ OldDocs[i].coll = "user_follows" =>
               \E j \in Old : OldDocs[j].coll = "notifications" /\ Same(i, j)

VARIABLES
    row,        \* row[u]: u's name in MySQL
    docs,       \* MongoDB: documents by id
    es,         \* es[i]: the author's name in the index, for indexed posts
    outbox,     \* events that requests have still to publish
    queue,      \* the sidecar's user queue
    esQueue,    \* events of users in its search queue
    worker,     \* worker[w]: the event w handles, and its next statement
    task,       \* task[t]: the document t is writing, or None
    followed,   \* events of new followers, as pairs
    missed,     \* users whose copies something overlapped (history)
    esMissed,   \* the same for the index (history)
    changes, writes, faults

historyVars == <<missed, esMissed>>
eventVars   == <<outbox, queue, esQueue, worker>>
vars == <<row, docs, es, eventVars, task, followed, historyVars, changes, writes, faults>>

Ids   == DOMAIN docs
Posts == {i \in Ids : docs[i].coll = "posts"}

TypeOK ==
    /\ row \in [Users -> Names \cup {Gone}]
    /\ docs \in [Ids -> Doc] /\ Ids \subseteq Nat
    /\ es \in [DOMAIN es -> Names \cup {Gone}] /\ DOMAIN es \subseteq Posts
    /\ outbox \cup queue \cup esQueue \subseteq Event
    /\ worker \in [Workers -> [event : Event, step : Nat] \cup {None}]
    /\ task \in [Tasks -> Task \cup {None}]
    /\ followed \subseteq Users \X Users
    /\ missed \subseteq Users /\ esMissed \subseteq Users
    /\ {changes, writes, faults} \subseteq Nat

Init ==
    /\ row = [u \in Users |-> First]
    /\ docs = OldDocs
    /\ es = [i \in Posts |-> First]
    /\ outbox = {} /\ queue = {} /\ esQueue = {}
    /\ worker = [w \in Workers |-> None]
    /\ task = [t \in Tasks |-> None]
    /\ followed = {}
    /\ missed = {} /\ esMissed = {}
    /\ changes = 0 /\ writes = 0 /\ faults = 0
-----------------------------------------------------------------------------
(* user-rpc changes a row and tells the others. *)

Handled == {worker[w].event : w \in {v \in Workers : worker[v] # None}}
Pending(u) == \E e \in outbox \cup queue \cup esQueue \cup Handled : e.user = u

\* A post of u is being saved or indexed.
Posting(u) == \E t \in Tasks : /\ task[t] # None
                               /\ task[t].kind \in {"post", "edit"}
                               /\ task[t].doc.user = u

Change(u, name) ==
    /\ row[u] # Gone
    /\ changes < MaxChanges
    /\ changes' = changes + 1
    /\ row' = [row EXCEPT ![u] = name]
    /\ outbox' = outbox \cup {[user |-> u, name |-> name, at |-> changes + 1]}
    /\ missed' = IF Pending(u) THEN missed \cup {u} ELSE missed
    /\ esMissed' = IF Pending(u) \/ Posting(u) THEN esMissed \cup {u} ELSE esMissed
    /\ UNCHANGED <<docs, es, queue, esQueue, worker, task, followed, writes, faults>>

\* UpdateProfile; AuthTokens looks at overlapping writes of the row.
Rename(u) == \E n \in Names : Change(u, n)

\* deleteUserAccount, for the user's own request and for an administrator.
DeleteUser(u) == Change(u, Gone)

\* Mutant: the search queue is not bound to user.update.
PublishUnbound(e) ==
    /\ e \in outbox
    /\ outbox' = outbox \ {e}
    /\ queue' = queue \cup {e}
    /\ UNCHANGED <<row, docs, es, esQueue, worker, task, followed, historyVars, changes,
                   writes, faults>>

Class(e) == IF e.name = Gone THEN "UserDeleteEvent" ELSE "UserUpdateEvent"

\* To the queues bound to the key: the search queue is not bound to user.delete.
Publish(e) ==
    LET to == Routes[Class(e)]
    IN  /\ e \in outbox
        /\ outbox' = outbox \ {e}
        /\ queue' = queue \cup {x \in {e} : "user" \in to}
        /\ esQueue' = esQueue \cup {x \in {e} : "es" \in to}
        /\ UNCHANGED <<row, docs, es, worker, task, followed, historyVars, changes,
                       writes, faults>>

Fault(u) ==
    /\ faults < MaxFaults
    /\ faults' = faults + 1
    /\ missed' = missed \cup {u} /\ esMissed' = esMissed \cup {u}

\* The error is logged, or ignored.
PublishFails(e) ==
    /\ e \in outbox
    /\ Fault(e.user)
    /\ outbox' = outbox \ {e}
    /\ UNCHANGED <<row, docs, es, queue, esQueue, worker, task, followed, changes, writes>>
-----------------------------------------------------------------------------
(* The sidecar's user queue.  A statement sets the copies of a name in the  *)
(* documents whose field holds the user, or deletes these documents.        *)

Set(coll, field)    == [coll |-> coll, field |-> field, op |-> "set"]
Remove(coll, field) == [coll |-> coll, field |-> field, op |-> "delete"]

\* Mutant: answers are corrected before the comments they answer.
UpdateRepliesFirst ==
    <<Set("posts", "user"), Set("comments", "other"), Set("comments", "user"),
      Set("user_follows", "user"), Set("user_follows", "other"), Set("notifications", "user")>>

\* handleUserUpdate.
UpdateStatements ==
    <<Set("posts", "user"), Set("comments", "user"), Set("user_follows", "user"),
      Set("user_follows", "other"), Set("comments", "other"), Set("notifications", "user")>>

\* Mutant: the user's followers stay.
DeleteKeepsFans ==
    <<Set("posts", "user"), Set("comments", "user"), Set("comments", "other"),
      Remove("user_follows", "user"), Remove("post_likes", "user"),
      Remove("notifications", "nobody"), Remove("notifications", "other")>>

\* handleUserDelete.  Notifications are also looked for by a field userId, which
\* none of them has, so those the user sent stay.
DeleteStatements ==
    <<Set("posts", "user"), Set("comments", "user"), Set("comments", "other"),
      Remove("user_follows", "user"), Remove("user_follows", "other"),
      Remove("post_likes", "user"), Remove("notifications", "nobody"),
      Remove("notifications", "other")>>

Statements(e) == IF e.name = Gone THEN DeleteStatements ELSE UpdateStatements

Hits(s, d, u) == d.coll = s.coll /\ s.field # "nobody" /\ d[s.field] = u

Renamed(s, d, name) ==
    IF s.field = "user" THEN [d EXCEPT !.name = name] ELSE [d EXCEPT !.otherName = name]

\* UpdateMany, DeleteMany.
Executed(s, e) ==
    IF s.op = "set"
    THEN [i \in Ids |-> IF Hits(s, docs[i], e.user) THEN Renamed(s, docs[i], e.name) ELSE docs[i]]
    ELSE Restrict(docs, {i \in Ids : ~Hits(s, docs[i], e.user)})

\* A document by u, who is still there, with the name read from MySQL.
By(coll, u, other, otherName) ==
    [coll |-> coll, user |-> u, name |-> row[u], other |-> other, otherName |-> otherName]

\* What tasks are about to write, and the notifications of followers to come.
Held == {task[t].doc : t \in {x \in Tasks : task[x] # None}}
          \cup {By("notifications", f[1], f[2], None) : f \in followed}

\* The statement comes too early for a document that will be written.
Overtakes(s, e) ==
    \E d \in Held : Hits(s, d, e.user) /\ (s.op = "delete" \/ d # Renamed(s, d, e.name))

Take(w, e) ==
    /\ worker[w] = None
    /\ e \in queue
    /\ queue' = queue \ {e}
    /\ worker' = [worker EXCEPT ![w] = [event |-> e, step |-> 1]]
    /\ UNCHANGED <<row, docs, es, outbox, esQueue, task, followed, historyVars, changes,
                   writes, faults>>

\* After the last statement the event is acknowledged.
Advance(w) ==
    LET done == worker[w].step = Len(Statements(worker[w].event))
    IN  worker' = [worker EXCEPT ![w] =
                      IF done THEN None ELSE [worker[w] EXCEPT !.step = @ + 1]]

Run(w) ==
    LET e == worker[w].event
        s == Statements(e)[worker[w].step]
    IN  /\ worker[w] # None
        /\ docs' = Executed(s, e)
        /\ es' = Restrict(es, DOMAIN es \cap DOMAIN docs')
        /\ Advance(w)
        /\ missed' = IF Overtakes(s, e) THEN missed \cup {e.user} ELSE missed
        /\ UNCHANGED <<row, outbox, queue, esQueue, task, followed, esMissed, changes,
                       writes, faults>>

\* updateManySafe and deleteManySafe log an error and go on.
StatementFails(w) ==
    /\ worker[w] # None
    /\ Fault(worker[w].event.user)
    /\ Advance(w)
    /\ UNCHANGED <<row, docs, es, outbox, queue, esQueue, task, followed, changes, writes>>

\* The sidecar dies; the event is delivered again and handled from the start.
Dies(w) ==
    /\ worker[w] # None
    /\ faults < MaxFaults
    /\ faults' = faults + 1
    /\ queue' = queue \cup {worker[w].event}
    /\ worker' = [worker EXCEPT ![w] = None]
    /\ UNCHANGED <<row, docs, es, outbox, esQueue, task, followed, historyVars, changes,
                   writes>>
-----------------------------------------------------------------------------
(* The sidecar's search queue. *)

\* handleESUserUpdate.
RenameIndexed(e) ==
    /\ e \in esQueue
    /\ esQueue' = esQueue \ {e}
    /\ es' = [i \in DOMAIN es |-> IF docs[i].user = e.user THEN e.name ELSE es[i]]
    /\ UNCHANGED <<row, docs, outbox, queue, worker, task, followed, historyVars, changes,
                   writes, faults>>

\* The event goes to the dead letters.
RenameIndexedFails(e) ==
    /\ e \in esQueue
    /\ Fault(e.user)
    /\ esQueue' = esQueue \ {e}
    /\ UNCHANGED <<row, docs, es, outbox, queue, worker, task, followed, changes, writes>>
-----------------------------------------------------------------------------
(* Writers of documents.  Whoever is deleted can start no request. *)

Start(t, kind, step, id, doc) ==
    /\ task[t] = None
    /\ writes < MaxWrites
    /\ writes' = writes + 1
    /\ task' = [task EXCEPT ![t] = [kind |-> kind, step |-> step, id |-> id, doc |-> doc]]
    /\ esMissed' = IF kind \in {"post", "edit"} /\ Pending(doc.user)
                   THEN esMissed \cup {doc.user} ELSE esMissed
    /\ UNCHANGED <<row, docs, es, eventVars, missed, changes, faults>>

NewId == Len(OldDocs) + writes + 1

\* createPost reads its author.
CreatePost(t, u) ==
    /\ row[u] # Gone
    /\ Start(t, "post", "save", NewId, By("posts", u, None, None))
    /\ UNCHANGED followed

\* updatePost reads the whole document, and will save it.
UpdatePost(t, i) ==
    /\ i \in Posts /\ row[docs[i].user] # Gone
    /\ Start(t, "edit", "save", i, docs[i])
    /\ UNCHANGED followed

\* The gateway reads the author's profile before it calls comment-rpc.
CreateComment(t, u) ==
    /\ row[u] # Gone
    /\ Start(t, "comment", "parent", NewId, By("comments", u, None, None))
    /\ UNCHANGED followed

\* A task goes on, with this document.
Onward(k, step, doc) == [kind |-> k.kind, step |-> step, id |-> k.id, doc |-> doc]

Answer(d, c) == [coll |-> d.coll, user |-> d.user, name |-> d.name,
                 other |-> c.user, otherName |-> c.name]

\* comment-rpc takes the name of whom the comment answers from that comment.
FindParent(t) ==
    /\ task[t] # None /\ task[t].step = "parent"
    /\ \E d \in {task[t].doc} \cup
               {Answer(task[t].doc, docs[i]) : i \in {j \in Ids : docs[j].coll = "comments"}} :
         task' = [task EXCEPT ![t] = Onward(task[t], "save", d)]
    /\ UNCHANGED <<row, docs, es, eventVars, followed, historyVars, changes, writes, faults>>

Relation(coll, u, v) == {i \in Ids : docs[i].coll = coll /\ docs[i].user = u /\ docs[i].other = v}

\* followUser looks for the relation and reads both users.
FollowUser(t, u, v) ==
    /\ u # v
    /\ row[u] # Gone /\ row[v] # Gone
    /\ Relation("user_follows", u, v) = {}
    /\ Start(t, "follow", "save", NewId, By("user_follows", u, v, row[v]))
    /\ UNCHANGED followed

\* sendFollowNotification reads the follower.
HandleFollow(t, f) ==
    /\ f \in followed
    /\ followed' = followed \ {f}
    /\ IF row[f[1]] = Gone
       THEN UNCHANGED <<row, docs, es, eventVars, task, historyVars, changes, writes, faults>>
       ELSE Start(t, "notice", "save", NewId, By("notifications", f[1], f[2], None))

UnfollowUser(u, v) ==
    /\ row[u] # Gone
    /\ Relation("user_follows", u, v) # {}
    /\ docs' = Restrict(docs, Ids \ Relation("user_follows", u, v))
    /\ UNCHANGED <<row, es, eventVars, task, followed, historyVars, changes, writes, faults>>

\* Mutant: the index on user_follows is not unique.
NeverTaken(d) == FALSE

\* Whether the unique index on user_follows refuses the document.
Taken(d) == d.coll = "user_follows" /\ Relation(d.coll, d.user, d.other) # {}

\* Where the document goes: a notification of a follower has one place.
Place(t) ==
    LET d == task[t].doc
        same == Relation("notifications", d.user, d.other)
    IN  IF task[t].kind = "notice" /\ same # {} THEN CHOOSE i \in same : TRUE ELSE task[t].id

Put(f, i, x) == [j \in DOMAIN f \cup {i} |-> IF j = i THEN x ELSE f[j]]

AfterSave(kind) == IF kind = "post" THEN "index" ELSE IF kind = "edit" THEN "reread" ELSE "publish"

Save(t) ==
    /\ task[t] # None /\ task[t].step = "save"
    /\ IF Taken(task[t].doc)
       THEN task' = [task EXCEPT ![t] = None] /\ UNCHANGED docs
       ELSE /\ docs' = Put(docs, Place(t), task[t].doc)
            /\ task' = IF task[t].kind \in {"comment", "notice"}
                       THEN [task EXCEPT ![t] = None]
                       ELSE [task EXCEPT ![t] =
                               Onward(task[t], AfterSave(task[t].kind), task[t].doc)]
    /\ UNCHANGED <<row, es, eventVars, followed, historyVars, changes, writes, faults>>

\* followUser publishes the event of the new relation.
PublishFollow(t) ==
    /\ task[t] # None /\ task[t].step = "publish"
    /\ followed' = followed \cup {<<task[t].doc.user, task[t].doc.other>>}
    /\ task' = [task EXCEPT ![t] = None]
    /\ UNCHANGED <<row, docs, es, eventVars, historyVars, changes, writes, faults>>

\* The sidecar, told of an update, reads the post again, ...
Reread(t) ==
    /\ task[t] # None /\ task[t].step = "reread"
    /\ task' = [task EXCEPT ![t] = Onward(task[t], "index", docs[task[t].id])]
    /\ UNCHANGED <<row, docs, es, eventVars, followed, historyVars, changes, writes, faults>>

\* ... and indexes it; a new post is indexed as its event has it.
Index(t) ==
    /\ task[t] # None /\ task[t].step = "index"
    /\ es' = Put(es, task[t].id, task[t].doc.name)
    /\ task' = [task EXCEPT ![t] = None]
    /\ UNCHANGED <<row, docs, eventVars, followed, historyVars, changes, writes, faults>>

\* A request or listener ends with an error; what it wrote stays.
TaskFails(t) ==
    /\ task[t] # None
    /\ Fault(task[t].doc.user)
    /\ task' = [task EXCEPT ![t] = None]
    /\ UNCHANGED <<row, docs, es, eventVars, followed, changes, writes>>
-----------------------------------------------------------------------------
Next ==
    \/ \E u \in Changing : Rename(u) \/ DeleteUser(u)
    \/ \E u, v \in Users : UnfollowUser(u, v)
    \/ \E e \in outbox : Publish(e) \/ PublishFails(e)
    \/ \E w \in Workers :
         \/ \E e \in queue : Take(w, e)
         \/ Run(w) \/ StatementFails(w) \/ Dies(w)
    \/ \E e \in esQueue : RenameIndexed(e) \/ RenameIndexedFails(e)
    \/ \E t \in Tasks :
         \/ \E u \in Users : \/ CreatePost(t, u) \/ CreateComment(t, u)
                             \/ \E v \in Users : FollowUser(t, u, v)
         \/ \E i \in Ids : UpdatePost(t, i)
         \/ \E f \in followed : HandleFollow(t, f)
         \/ FindParent(t) \/ Save(t) \/ PublishFollow(t) \/ Reread(t) \/ Index(t)
         \/ TaskFails(t)

Spec == Init /\ [][Next]_vars
-----------------------------------------------------------------------------
(* Properties. *)

Quiet == /\ outbox = {} /\ queue = {} /\ esQueue = {} /\ followed = {}
         /\ \A w \in Workers : worker[w] = None
         /\ \A t \in Tasks : task[t] = None

\* When all is handled, every copy of a name in MongoDB is the one in MySQL, or
\* says that its user is gone, although events are handled again after a crash
\* and documents are written meanwhile; unless a change of a user overlapped
\* another one, a statement overtook a document still to be written, or failed.
\* The notifications a deleted user sent are the exception: they stay as they are.
NamesSettle ==
    Quiet => \A i \in Ids :
        LET d == docs[i] IN
        /\ d.user \notin missed /\ ~(d.coll = "notifications" /\ row[d.user] = Gone)
             => d.coll = "post_likes" \/ d.name = row[d.user]
        /\ d.otherName # None /\ d.other \notin missed => d.otherName = row[d.other]

\* The same for the index, as far as no post of the user was saved or indexed
\* while his name changed: MongoDB and the index are corrected by different
\* queues.  A deleted user keeps his name there.
IndexNamesSettle ==
    Quiet => \A i \in DOMAIN es :
        LET u == docs[i].user IN u \notin esMissed /\ row[u] # Gone => es[i] = row[u]

\* Nobody follows or is followed by a deleted user, nothing of what he did in
\* private is kept and no notification waits for him, under the same provisos.
DeletedLeaveNothing ==
    Quiet => \A u \in Users \ missed : row[u] = Gone =>
        \A i \in Ids :
            /\ docs[i].coll \in {"user_follows", "post_likes"}
                 => u \notin {docs[i].user, docs[i].other}
            /\ docs[i].coll = "notifications" => docs[i].other # u

\* However requests overlap, nobody follows another twice; and whoever is
\* followed has been told so once.
FollowedOnce ==
    \A u, v \in Users :
        /\ Cardinality(Relation("user_follows", u, v)) <= 1
        /\ Quiet /\ {u, v} \cap missed = {} /\ Relation("user_follows", u, v) # {}
             => Cardinality(Relation("notifications", u, v)) = 1
=============================================================================
