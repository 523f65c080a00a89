--------------------------- MODULE ProfilesProofs ----------------------------
(***************************************************************************)
(* Proofs about Profiles and Relations: when all is handled the copies of  *)
(* names are right, deleted users have left nothing behind and relations   *)
(* are shown alike, for any users, names, requests, workers and faults.    *)
(***************************************************************************)
EXTENDS Relations, FiniteSetTheorems, TLAPS

NextIds == 1..(Len(OldDocs) + writes)

WorkersOK ==
    \A w \in Workers : worker[w] # None =>
        worker[w].step \in 1..Len(Statements(worker[w].event))

DocsOK ==
    /\ IsFiniteSet(Ids) /\ Ids \subseteq NextIds
    /\ \A i \in Ids : Shaped(docs[i])

\* The kind of documents a task writes.
CollOf(kind) == CASE kind \in {"post", "edit"} -> "posts"
                  [] kind = "comment"          -> "comments"
                  [] kind = "follow"           -> "user_follows"
                  [] OTHER                     -> "notifications"

\* A task has still to insert its document.
Inserting(t) == task[t] # None /\ task[t].kind # "edit" /\ task[t].step \in {"parent", "save"}

TaskOK(t) ==
    task[t] # None =>
        /\ Shaped(task[t].doc) /\ task[t].doc.coll = CollOf(task[t].kind)
        /\ task[t].step = "parent" => task[t].kind = "comment"
        /\ task[t].step = "publish" => task[t].kind = "follow"
        /\ task[t].step \in {"reread", "index"} => task[t].kind \in {"post", "edit"}
        /\ Inserting(t) => task[t].id \in NextIds \ Ids
        /\ ~Inserting(t) /\ task[t].kind \in {"post", "edit"} =>
              /\ task[t].id \in Posts /\ docs[task[t].id].user = task[t].doc.user

TasksOK ==
    /\ \A t \in Tasks : TaskOK(t)
    /\ \A t, x \in Tasks : Inserting(t) /\ Inserting(x) /\ task[t].id = task[x].id => t = x

TypeInv == TypeOK /\ WorkersOK /\ DocsOK /\ TasksOK
-----------------------------------------------------------------------------
(* The statements and the routes. *)

Plan(n) == IF n = Gone THEN DeleteStatements ELSE UpdateStatements
Statement == [coll : Colls, field : {"user", "other", "nobody"}, op : {"set", "delete"}]

LEMMA UpdatePlan ==
  /\ Len(UpdateStatements) = 6
  /\ UpdateStatements[1] = Set("posts", "user")
  /\ UpdateStatements[2] = Set("comments", "user")
  /\ UpdateStatements[3] = Set("user_follows", "user")
  /\ UpdateStatements[4] = Set("user_follows", "other")
  /\ UpdateStatements[5] = Set("comments", "other")
  /\ UpdateStatements[6] = Set("notifications", "user")
BY DEF UpdateStatements

LEMMA DeletePlan ==
  /\ Len(DeleteStatements) = 8
  /\ DeleteStatements[1] = Set("posts", "user")
  /\ DeleteStatements[2] = Set("comments", "user")
  /\ DeleteStatements[3] = Set("comments", "other")
  /\ DeleteStatements[4] = Remove("user_follows", "user")
  /\ DeleteStatements[5] = Remove("user_follows", "other")
  /\ DeleteStatements[6] = Remove("post_likes", "user")
  /\ DeleteStatements[7] = Remove("notifications", "nobody")
  /\ DeleteStatements[8] = Remove("notifications", "other")
BY DEF DeleteStatements

LEMMA PlanLength ==
  ASSUME NEW n
  PROVE  Len(Plan(n)) \in {6, 8}
BY UpdatePlan, DeletePlan DEF Plan

\* What the statements of a plan are, with their order as far as it matters.
LEMMA PlanParts ==
  ASSUME NEW n, NEW j \in 1..Len(Plan(n))
  PROVE  /\ Plan(n)[j] \in Statement
         /\ Plan(n)[j].op = "set" => Plan(n)[j].coll \in {"posts", "comments", "user_follows", "notifications"}
                                     /\ Plan(n)[j].field \in {"user", "other"}
                                     /\ (Plan(n)[j].field = "other" => Plan(n)[j].coll \in {"comments", "user_follows"})
         /\ Plan(n)[j].op = "delete" => n = Gone /\ Plan(n)[j].coll \in {"user_follows", "post_likes", "notifications"}
         /\ Plan(n)[1] = Set("posts", "user") /\ Plan(n)[2] = Set("comments", "user")
         /\ Plan(n)[j] = Set("comments", "other") => j > 2
         /\ Plan(n)[j].coll = "posts" => j = 1
<1>1. CASE n = Gone
  <2>1. Plan(n) = DeleteStatements /\ j \in 1..8
    BY <1>1, DeletePlan DEF Plan
  <2>2. j \in {1, 2, 3, 4, 5, 6, 7, 8}
    BY <2>1
  <2> QED BY <1>1, <2>1, <2>2, DeletePlan DEF Statement, Colls, Set, Remove
<1>2. CASE n # Gone
  <2>1. Plan(n) = UpdateStatements /\ j \in 1..6
    BY <1>2, UpdatePlan DEF Plan
  <2>2. j \in {1, 2, 3, 4, 5, 6}
    BY <2>1
  <2> QED BY <1>2, <2>1, <2>2, UpdatePlan DEF Statement, Colls, Set, Remove
<1> QED BY <1>1, <1>2

LEMMA PlanOf ==
  ASSUME NEW e
  PROVE  Statements(e) = Plan(e.name)
BY DEF Statements, Plan

\* Both kinds of events reach the queue of users; changes of names the search queue.
LEMMA UserRoutes ==
  ASSUME NEW e \in Event
  PROVE  "user" \in Routes[Class(e)] /\ (e.name # Gone => "es" \in Routes[Class(e)])
<1>1. {"UserUpdateEvent", "UserDeleteEvent"} \subseteq Events
  BY DEF Events, Key
<1>2. /\ "user" \in DOMAIN Handles /\ "es" \in DOMAIN Handles
      /\ Handles["user"] = {"UserUpdateEvent", "UserDeleteEvent"}
      /\ "UserUpdateEvent" \in Handles["es"]
  BY DEF Handles
<1>3. "user" \in Routes["UserUpdateEvent"] /\ "user" \in Routes["UserDeleteEvent"]
      /\ "es" \in Routes["UserUpdateEvent"]
  BY <1>1, <1>2, RoutesFit
<1> QED BY <1>3 DEF Class
-----------------------------------------------------------------------------
(* Types. *)

LEMMA DocParts ==
  ASSUME NEW d \in Doc
  PROVE  /\ d.coll \in Colls /\ d.user \in Users /\ d.name \in Names \cup {Gone}
         /\ d.other \in Users \cup {None} /\ d.otherName \in Names \cup {Gone, None}
         /\ d = [coll |-> d.coll, user |-> d.user, name |-> d.name, other |-> d.other,
                 otherName |-> d.otherName]
BY DEF Doc

LEMMA SetTypes ==
  ASSUME NEW d \in Doc, NEW s \in Statement, NEW n \in Names \cup {Gone}
  PROVE  LET r == Renamed(s, d, n)
         IN  /\ s.field = "user" => r \in Doc
             /\ s.field # "user" /\ d.otherName # None => r \in Doc
             /\ r.coll = d.coll /\ r.user = d.user /\ r.other = d.other
             /\ s.field = "user" => r.name = n /\ r.otherName = d.otherName
             /\ s.field # "user" => r.otherName = n /\ r.name = d.name
BY DEF Renamed, Doc

LEMMA TaskParts ==
  ASSUME NEW k \in Task
  PROVE  /\ k # None /\ k.doc \in Doc /\ k.id \in Nat
         /\ k.kind \in {"post", "edit", "comment", "follow", "notice"}
         /\ k.step \in {"parent", "save", "publish", "reread", "index"}
BY ProfileAssumption DEF Task

LEMMA InitTypeInv == Init => TypeInv
<1> SUFFICES ASSUME Init PROVE TypeInv
  OBVIOUS
<1>1. Len(OldDocs) \in Nat /\ DOMAIN OldDocs = 1..Len(OldDocs) /\ docs = OldDocs /\ writes = 0
      /\ \A i \in 1..Len(OldDocs) : OldDocs[i] \in Doc
  BY ProfileAssumption DEF Init
<1>2. Ids = 1..Len(OldDocs) /\ NextIds = Ids /\ Ids \subseteq Nat
  BY <1>1 DEF Ids, NextIds
<1>3. IsFiniteSet(Ids)
  BY <1>1, <1>2, FS_Interval
<1>4. docs \in [Ids -> Doc]
  BY <1>1, <1>2, ProfileAssumption
<1>5. es \in [DOMAIN es -> Names \cup {Gone}] /\ DOMAIN es = Posts
  BY ProfileAssumption DEF Init
<1>6. \A i \in Ids : Shaped(docs[i])
  BY <1>1, <1>2, OldDocsFit
<1>7. TypeOK
  BY <1>2, <1>4, <1>5, ProfileAssumption DEF TypeOK, Init
<1> QED BY <1>2, <1>3, <1>6, <1>7 DEF Init, TypeInv, WorkersOK, DocsOK, TasksOK, TaskOK, Inserting

LEMMA QuietTypes ==
  ASSUME TypeInv, UNCHANGED <<docs, task, writes>>, TypeOK', WorkersOK'
  PROVE  TypeInv'
<1>1. Ids' = Ids /\ NextIds' = NextIds /\ Posts' = Posts
  BY DEF Ids, NextIds, Posts
<1>2. \A t \in Tasks : Inserting(t)' = Inserting(t)
  BY DEF Inserting
<1>3. DocsOK'
  BY <1>1 DEF TypeInv, DocsOK
<1>4. TasksOK'
  BY <1>1, <1>2 DEF TypeInv, TasksOK, TaskOK
<1> QED BY <1>3, <1>4 DEF TypeInv

LEMMA ChangeTypes ==
  ASSUME TypeInv, NEW u \in Users, NEW n \in Names \cup {Gone}, Change(u, n)
  PROVE  TypeInv'
<1>1. changes \in Nat /\ changes + 1 \in Nat
  BY DEF TypeInv, TypeOK
<1>2. [user |-> u, name |-> n, at |-> changes + 1] \in Event
  BY <1>1 DEF Event
<1>3. missed' \subseteq Users /\ esMissed' \subseteq Users /\ outbox' \subseteq Event
  BY <1>2 DEF Change, TypeInv, TypeOK
<1>4. Ids' = Ids /\ Posts' = Posts
  BY DEF Change, Ids, Posts
<1>5. row' \in [Users -> Names \cup {Gone}]
  BY DEF Change, TypeInv, TypeOK
<1>6. TypeOK'
  BY <1>1, <1>3, <1>4, <1>5 DEF Change, TypeInv, TypeOK
<1>7. WorkersOK'
  BY DEF Change, TypeInv, WorkersOK
<1> QED BY <1>6, <1>7, QuietTypes DEF Change

LEMMA FaultTypes ==
  ASSUME TypeInv, NEW u \in Users, Fault(u)
  PROVE  missed' \subseteq Users /\ esMissed' \subseteq Users /\ faults' \in Nat
BY DEF Fault, TypeInv, TypeOK

LEMMA PublishTypes ==
  ASSUME TypeInv, NEW e \in outbox, Publish(e) \/ PublishFails(e)
  PROVE  TypeInv'
<1>1. e \in Event /\ e.user \in Users
  BY DEF TypeInv, TypeOK, Event
<1>2. Ids' = Ids /\ Posts' = Posts /\ writes' = writes
  BY DEF Publish, PublishFails, Ids, Posts
<1>3. missed' \subseteq Users /\ esMissed' \subseteq Users /\ faults' \in Nat
  BY <1>1, FaultTypes DEF Publish, PublishFails, historyVars, TypeInv, TypeOK
<1>4. outbox' \cup queue' \cup esQueue' \subseteq Event
  BY <1>1 DEF Publish, PublishFails, TypeInv, TypeOK
<1>5. TypeOK'
  BY <1>2, <1>3, <1>4 DEF Publish, PublishFails, TypeInv, TypeOK
<1>6. WorkersOK'
  BY DEF Publish, PublishFails, TypeInv, WorkersOK
<1> QED BY <1>5, <1>6, QuietTypes DEF Publish, PublishFails

LEMMA WorkerParts ==
  ASSUME TypeInv, NEW w \in Workers, worker[w] # None
  PROVE  /\ worker[w] \in [event : Event, step : Nat]
         /\ worker[w].event \in Event /\ worker[w].event.user \in Users
         /\ worker[w].event.name \in Names \cup {Gone}
         /\ worker[w].step \in 1..Len(Statements(worker[w].event))
         /\ worker[w].step \in 1..Len(Plan(worker[w].event.name))
         /\ Statements(worker[w].event) = Plan(worker[w].event.name)
<1>1. worker[w] \in [event : Event, step : Nat]
  BY DEF TypeInv, TypeOK
<1>2. worker[w].event \in Event
  BY <1>1
<1>3. worker[w].event.user \in Users /\ worker[w].event.name \in Names \cup {Gone}
  BY <1>2 DEF Event
<1>4. worker[w].step \in 1..Len(Statements(worker[w].event))
  BY DEF TypeInv, WorkersOK
<1> QED BY <1>1, <1>2, <1>3, <1>4, PlanOf

\* After a statement w has ended its event, or goes on with it.
LEMMA AdvanceParts ==
  ASSUME TypeInv, NEW w \in Workers, worker[w] # None, Advance(w)
  PROVE  /\ worker' \in [Workers -> [event : Event, step : Nat] \cup {None}]
         /\ WorkersOK'
         /\ \A v \in Workers \ {w} : worker'[v] = worker[v]
         /\ worker'[w] # None => /\ worker'[w].event = worker[w].event
                                 /\ worker'[w].step = worker[w].step + 1
         /\ worker'[w] = None <=> worker[w].step = Len(Plan(worker[w].event.name))
<1> DEFINE e == worker[w].event
           j == worker[w].step
           next == [event |-> e, step |-> j + 1]
<1>1. /\ worker[w] \in [event : Event, step : Nat] /\ e \in Event /\ j \in 1..Len(Plan(e.name))
      /\ Statements(e) = Plan(e.name) /\ Len(Plan(e.name)) \in Nat
  BY WorkerParts, PlanLength
<1>2. j \in Nat /\ j + 1 \in Nat /\ next \in [event : Event, step : Nat] /\ next # None
  BY <1>1, ProfileAssumption
<1>3. [worker[w] EXCEPT !.step = @ + 1] = next
  BY <1>1
<1>4. worker' = [worker EXCEPT ![w] = IF j = Len(Plan(e.name)) THEN None ELSE next]
  BY <1>1, <1>3 DEF Advance
<1> HIDE DEF next, e, j
<1>5. j # Len(Plan(e.name)) => j + 1 \in 1..Len(Plan(e.name))
  <2> DEFINE m == Len(Plan(e.name))
  <2>1. m \in Nat /\ j \in 1..m
    BY <1>1
  <2> HIDE DEF m
  <2>2. j # m => j + 1 \in 1..m
    BY <2>1
  <2> QED BY <2>2 DEF m
<1>6. worker \in [Workers -> [event : Event, step : Nat] \cup {None}]
  BY DEF TypeInv, TypeOK
<1>7. worker'[w] = IF j = Len(Plan(e.name)) THEN None ELSE next
  BY <1>4, <1>6
<1>8. \A v \in Workers \ {w} : worker'[v] = worker[v]
  BY <1>4, <1>6
<1>9. worker' \in [Workers -> [event : Event, step : Nat] \cup {None}]
  BY <1>2, <1>4, <1>6
<1>10. next.event = e /\ next.step = j + 1
  BY DEF next
<1>11. WorkersOK'
  <2> SUFFICES ASSUME NEW v \in Workers, worker'[v] # None
               PROVE  worker'[v].step \in 1..Len(Statements(worker'[v].event))
    BY DEF WorkersOK
  <2>1. CASE v = w
    BY <1>1, <1>5, <1>7, <1>10, <2>1 DEF e
  <2>2. CASE v # w
    BY <1>8, <2>2 DEF TypeInv, WorkersOK
  <2> QED BY <2>1, <2>2
<1> QED BY <1>2, <1>7, <1>8, <1>9, <1>10, <1>11 DEF e, j

LEMMA TakeTypes ==
  ASSUME TypeInv, NEW w \in Workers, NEW e \in queue, Take(w, e)
  PROVE  TypeInv'
<1>1. e \in Event /\ queue' \subseteq Event
  BY DEF TypeInv, TypeOK, Take
<1>2. Ids' = Ids /\ Posts' = Posts
  BY DEF Take, Ids, Posts
<1>3. [event |-> e, step |-> 1] \in [event : Event, step : Nat]
  BY <1>1
<1>4. worker' = [worker EXCEPT ![w] = [event |-> e, step |-> 1]]
  BY DEF Take
<1>5. worker' \in [Workers -> [event : Event, step : Nat] \cup {None}]
  BY <1>3, <1>4 DEF TypeInv, TypeOK
<1>6. TypeOK'
  BY <1>1, <1>2, <1>5 DEF Take, TypeInv, TypeOK, historyVars
<1>7. 1 \in 1..Len(Statements(e))
  BY PlanOf, PlanLength
<1>8. \A v \in Workers \ {w} : worker'[v] = worker[v]
  BY <1>4 DEF TypeInv, TypeOK
<1>9. worker'[w] = [event |-> e, step |-> 1]
  BY <1>4 DEF TypeInv, TypeOK
<1>10. WorkersOK'
  BY <1>7, <1>8, <1>9 DEF TypeInv, WorkersOK
<1> QED BY <1>6, <1>10, QuietTypes DEF Take

LEMMA StatementFailsTypes ==
  ASSUME TypeInv, NEW w \in Workers, StatementFails(w)
  PROVE  TypeInv'
<1>1. worker[w] # None /\ Advance(w) /\ UNCHANGED <<docs, task, writes>>
  BY DEF StatementFails
<1>2. WorkersOK' /\ worker' \in [Workers -> [event : Event, step : Nat] \cup {None}]
  BY <1>1, AdvanceParts
<1>3. missed' \subseteq Users /\ esMissed' \subseteq Users /\ faults' \in Nat
  BY <1>1, FaultTypes, WorkerParts DEF StatementFails
<1>4. Ids' = Ids /\ Posts' = Posts
  BY <1>1 DEF Ids, Posts
<1>5. TypeOK'
  BY <1>1, <1>2, <1>3, <1>4 DEF StatementFails, TypeInv, TypeOK
<1> QED BY <1>1, <1>2, <1>5, QuietTypes

LEMMA DiesTypes ==
  ASSUME TypeInv, NEW w \in Workers, Dies(w)
  PROVE  TypeInv'
<1>1. worker[w].event \in Event /\ queue' \subseteq Event
  BY WorkerParts DEF TypeInv, TypeOK, Dies
<1>2. Ids' = Ids /\ Posts' = Posts
  BY DEF Dies, Ids, Posts
<1>3. /\ worker' \in [Workers -> [event : Event, step : Nat] \cup {None}]
      /\ \A v \in Workers : worker'[v] \in {worker[v], None}
  BY DEF Dies, TypeInv, TypeOK
<1>4. TypeOK'
  BY <1>1, <1>2, <1>3 DEF Dies, TypeInv, TypeOK, historyVars
<1>5. WorkersOK'
  BY <1>3 DEF TypeInv, WorkersOK
<1> QED BY <1>4, <1>5, QuietTypes DEF Dies

LEMMA IndexedTypes ==
  ASSUME TypeInv, NEW e \in esQueue, RenameIndexed(e) \/ RenameIndexedFails(e)
  PROVE  TypeInv'
<1>1. e \in Event /\ e.user \in Users /\ e.name \in Names \cup {Gone}
  BY DEF TypeInv, TypeOK, Event
<1>2. Ids' = Ids /\ Posts' = Posts /\ UNCHANGED <<docs, task, writes, worker>>
  BY DEF RenameIndexed, RenameIndexedFails, Ids, Posts
<1>3. missed' \subseteq Users /\ esMissed' \subseteq Users /\ faults' \in Nat
  BY <1>1, FaultTypes DEF RenameIndexed, RenameIndexedFails, historyVars, TypeInv, TypeOK
<1>4. es' \in [DOMAIN es' -> Names \cup {Gone}] /\ DOMAIN es' = DOMAIN es
  BY <1>1 DEF RenameIndexed, RenameIndexedFails, TypeInv, TypeOK
<1>5. TypeOK'
  BY <1>2, <1>3, <1>4 DEF RenameIndexed, RenameIndexedFails, TypeInv, TypeOK
<1>6. WorkersOK'
  BY <1>2 DEF TypeInv, WorkersOK
<1> QED BY <1>2, <1>5, <1>6, QuietTypes

\* What a statement does to the documents: it renames those it hits or removes them,
\* and never removes a post.
LEMMA RunParts ==
  ASSUME TypeInv, NEW w \in Workers, Run(w),
         NEW e, e = worker[w].event, NEW s, s = Plan(e.name)[worker[w].step]
  PROVE  /\ worker[w] # None /\ e \in Event /\ s \in Statement
         /\ s.op = "set" => /\ Ids' = Ids
                            /\ \A i \in Ids : docs'[i] = IF Hits(s, docs[i], e.user)
                                                         THEN Renamed(s, docs[i], e.name) ELSE docs[i]
         /\ s.op # "set" => /\ Ids' = {i \in Ids : ~Hits(s, docs[i], e.user)}
                            /\ \A i \in Ids' : docs'[i] = docs[i]
         /\ \A i \in Ids' : /\ i \in Ids /\ docs'[i] \in Doc /\ Shaped(docs'[i])
                            /\ docs'[i].coll = docs[i].coll /\ docs'[i].user = docs[i].user
                            /\ docs'[i].other = docs[i].other
         /\ docs' \in [Ids' -> Doc] /\ Posts' = Posts /\ es' = es
<1>1. worker[w] # None
  BY DEF Run
<1>2. /\ e \in Event /\ e.user \in Users /\ e.name \in Names \cup {Gone}
      /\ Statements(e) = Plan(e.name) /\ worker[w].step \in 1..Len(Plan(e.name))
  BY <1>1, WorkerParts
<1>3. /\ s \in Statement
      /\ s.op = "set" => s.coll # "post_likes" /\ s.field \in {"user", "other"}
                           /\ (s.field = "other" => s.coll \in {"comments", "user_follows"})
      /\ s.op = "delete" => s.coll # "posts"
  BY <1>2, PlanParts
<1>4. docs' = Executed(s, e)
  BY <1>2 DEF Run
<1>5. \A i \in Ids : docs[i] \in Doc /\ Shaped(docs[i])
  BY DEF TypeInv, TypeOK, DocsOK
<1>6. s.op = "set" => /\ Ids' = Ids
                      /\ \A i \in Ids : docs'[i] = IF Hits(s, docs[i], e.user)
                                                   THEN Renamed(s, docs[i], e.name) ELSE docs[i]
  BY <1>4 DEF Executed, Ids
<1>7. s.op # "set" => /\ Ids' = {i \in Ids : ~Hits(s, docs[i], e.user)}
                      /\ \A i \in Ids' : docs'[i] = docs[i]
  BY SMTT(30), <1>4 DEF Executed, Ids, Restrict
<1>8. ASSUME NEW i \in Ids, s.op = "set", Hits(s, docs[i], e.user)
      PROVE  /\ Renamed(s, docs[i], e.name) \in Doc /\ Shaped(Renamed(s, docs[i], e.name))
             /\ Renamed(s, docs[i], e.name).coll = docs[i].coll
             /\ Renamed(s, docs[i], e.name).user = docs[i].user
             /\ Renamed(s, docs[i], e.name).other = docs[i].other
  <2>1. docs[i] \in Doc /\ Shaped(docs[i]) /\ docs[i].coll = s.coll
    BY SMTT(30), <1>5, <1>8 DEF Hits
  <2>2. CASE s.field = "user"
    BY SMTT(30), <1>2, <1>3, <2>1, <2>2, SetTypes DEF Shaped
  <2>3. CASE s.field = "other"
    <3>1. docs[i].other = e.user
      BY <1>8, <2>3 DEF Hits
    <3>2. /\ Renamed(s, docs[i], e.name).coll = docs[i].coll
          /\ Renamed(s, docs[i], e.name).user = docs[i].user
          /\ Renamed(s, docs[i], e.name).other = docs[i].other
          /\ Renamed(s, docs[i], e.name).otherName = e.name
      BY <1>2, <1>3, <2>1, <2>3, SetTypes
    <3>3. Renamed(s, docs[i], e.name) \in Doc
      BY <1>2, <2>1, <2>3 DEF Renamed, Doc
    <3>4. e.name # None /\ e.user # None
      BY <1>2, ProfileAssumption
    <3> QED BY <1>3, <1>8, <2>1, <2>3, <3>1, <3>2, <3>3, <3>4 DEF Shaped
  <2> QED BY <1>3, <1>8, <2>2, <2>3
<1>9. \A i \in Ids' : /\ i \in Ids /\ docs'[i] \in Doc /\ Shaped(docs'[i])
                      /\ docs'[i].coll = docs[i].coll /\ docs'[i].user = docs[i].user
                      /\ docs'[i].other = docs[i].other
  BY SMTT(30), <1>5, <1>6, <1>7, <1>8
<1>10. docs' \in [Ids' -> Doc]
  <2>1. docs' = [i \in Ids' |-> docs'[i]]
    BY <1>4 DEF Executed, Ids, Restrict
  <2> QED BY SMTT(30), <1>9, <2>1
<1>11. Posts' = Posts
  <2>1. ASSUME NEW i \in Posts PROVE i \in Ids'
    <3>1. i \in Ids /\ docs[i].coll = "posts"
      BY SMTT(30) DEF Posts
    <3>2. s.op # "set" => ~Hits(s, docs[i], e.user)
      BY <1>3, <3>1 DEF Hits, Statement
    <3> QED BY SMTT(30), <1>6, <1>7, <3>1, <3>2
  <2> QED BY <1>9, <2>1 DEF Posts
<1>12. es' = es
  <2>1. DOMAIN es \subseteq Posts
    BY DEF TypeInv, TypeOK
  <2>2. DOMAIN es \cap DOMAIN docs' = DOMAIN es
    BY <1>11, <2>1 DEF Posts, Ids
  <2>3. es' = Restrict(es, DOMAIN es)
    BY <2>2 DEF Run
  <2> QED BY <2>3 DEF Restrict, TypeInv, TypeOK
<1> QED BY <1>1, <1>2, <1>3, <1>6, <1>7, <1>9, <1>10, <1>11, <1>12

\* Fewer documents, of the same kinds and persons, and the same tasks.
LEMMA FewerTypes ==
  ASSUME TypeInv, UNCHANGED <<task, writes>>, TypeOK', WorkersOK', Posts' = Posts,
         \A i \in Ids' : i \in Ids /\ Shaped(docs'[i]) /\ docs'[i].user = docs[i].user
  PROVE  TypeInv'
<1>1. NextIds' = NextIds /\ Ids' \subseteq Ids
  BY DEF NextIds
<1>2. DocsOK'
  BY <1>1, FS_Subset DEF TypeInv, DocsOK
<1>3. \A t \in Tasks : Inserting(t)' = Inserting(t)
  BY DEF Inserting
<1>4. \A i \in Posts : docs'[i].user = docs[i].user
  BY DEF Posts
<1>5. TasksOK'
  BY <1>1, <1>3, <1>4 DEF TypeInv, TasksOK, TaskOK
<1> QED BY <1>2, <1>5 DEF TypeInv

LEMMA RunTypes ==
  ASSUME TypeInv, NEW w \in Workers, Run(w)
  PROVE  TypeInv'
<1> DEFINE e == worker[w].event
           s == Plan(e.name)[worker[w].step]
<1>1. /\ worker[w] # None /\ e \in Event /\ e.user \in Users
      /\ \A i \in Ids' : i \in Ids /\ Shaped(docs'[i]) /\ docs'[i].user = docs[i].user
      /\ docs' \in [Ids' -> Doc] /\ Posts' = Posts /\ es' = es /\ Ids' \subseteq Nat
  <2>1. worker[w] # None
    BY DEF Run
  <2>2. Ids \subseteq Nat
    BY SMTT(30) DEF TypeInv, TypeOK
  <2> HIDE DEF e, s
  <2>3. e = worker[w].event /\ s = Plan(e.name)[worker[w].step]
    BY SMTT(30) DEF e, s
  <2>4. e.user \in Users
    BY <2>1, <2>3, WorkerParts
  <2> QED BY <2>1, <2>2, <2>3, <2>4, RunParts
<1>2. worker' \in [Workers -> [event : Event, step : Nat] \cup {None}] /\ WorkersOK'
  BY <1>1, AdvanceParts DEF Run
<1>3. missed' \subseteq Users
  BY SMTT(30), <1>1 DEF Run, TypeInv, TypeOK
<1>4. TypeOK'
  <2> HIDE DEF e, s
  <2> QED BY <1>1, <1>2, <1>3 DEF Run, TypeInv, TypeOK
<1>5. UNCHANGED <<task, writes>>
  BY DEF Run
<1> QED BY <1>1, <1>2, <1>4, <1>5, FewerTypes

LEMMA UnfollowTypes ==
  ASSUME TypeInv, NEW u \in Users, NEW v \in Users, UnfollowUser(u, v)
  PROVE  TypeInv'
<1>1. Ids' = Ids \ Relation("user_follows", u, v) /\ \A i \in Ids' : docs'[i] = docs[i]
  BY DEF UnfollowUser, Ids, Restrict
<1>2. docs' \in [Ids' -> Doc] /\ Ids' \subseteq Nat
  BY <1>1 DEF UnfollowUser, Ids, Restrict, TypeInv, TypeOK
<1>3. Posts' = Posts
  BY <1>1 DEF Posts, Relation
<1>4. TypeOK'
  BY <1>2, <1>3 DEF UnfollowUser, eventVars, historyVars, TypeInv, TypeOK
<1>5. WorkersOK' /\ UNCHANGED <<task, writes>>
  BY DEF UnfollowUser, eventVars, TypeInv, WorkersOK
<1> QED BY <1>1, <1>3, <1>4, <1>5, FewerTypes DEF TypeInv, DocsOK

\* The types of what a task leaves alone.
LEMMA TaskStepTypes ==
  ASSUME TypeInv, UNCHANGED <<row, es, eventVars, changes>>, Posts \subseteq Posts', Ids' \subseteq Nat,
         docs' \in [Ids' -> Doc], task' \in [Tasks -> Task \cup {None}],
         followed' \subseteq Users \X Users, missed' \subseteq Users, esMissed' \subseteq Users,
         writes' \in Nat, faults' \in Nat
  PROVE  TypeOK' /\ WorkersOK'
<1>1. DOMAIN es' \subseteq Posts'
  BY DEF TypeInv, TypeOK
<1>2. TypeOK'
  BY <1>1 DEF eventVars, TypeInv, TypeOK
<1>3. WorkersOK'
  BY DEF eventVars, TypeInv, WorkersOK
<1> QED BY <1>2, <1>3

LEMMA IdTypes ==
  ASSUME TypeInv
  PROVE  /\ Len(OldDocs) \in Nat /\ writes \in Nat /\ NewId \in Nat /\ NewId \notin NextIds
         /\ NextIds \cup {NewId} = 1..(Len(OldDocs) + (writes + 1)) /\ NextIds \subseteq Nat
<1>1. Len(OldDocs) \in Nat /\ writes \in Nat
  BY ProfileAssumption DEF TypeInv, TypeOK
<1>2. \A m, n \in Nat : /\ m + n + 1 \in Nat /\ m + n + 1 \notin 1..(m + n)
                        /\ 1..(m + n) \cup {m + n + 1} = 1..(m + (n + 1))
                        /\ 1..(m + n) \subseteq Nat
  OBVIOUS
<1> QED BY <1>1, <1>2 DEF NewId, NextIds

LEMMA StartTypes ==
  ASSUME TypeInv, NEW t \in Tasks, NEW kind, NEW step \in {"parent", "save"}, NEW id, NEW doc \in Doc,
         kind \in {"post", "edit", "comment", "follow", "notice"},
         Start(t, kind, step, id, doc), followed' \subseteq Users \X Users,
         Shaped(doc), doc.coll = CollOf(kind), step = "parent" => kind = "comment",
         kind # "edit" => id = NewId,
         kind = "edit" => id \in Posts /\ docs[id].user = doc.user
  PROVE  TypeInv'
<1> DEFINE k == [kind |-> kind, step |-> step, id |-> id, doc |-> doc]
<1>1. k.kind = kind /\ k.step = step /\ k.id = id /\ k.doc = doc
  OBVIOUS
<1>2. Posts \subseteq Ids /\ Ids \subseteq NextIds
  BY DEF Posts, TypeInv, DocsOK
<1>3. id \in Nat /\ k \in Task
  BY <1>2, IdTypes DEF Task
<1>4. k # None
  BY <1>3, ProfileAssumption
<1>5. task' = [task EXCEPT ![t] = k] /\ writes' = writes + 1 /\ task[t] = None
  BY DEF Start
<1> HIDE DEF k
<1>6. /\ task \in [Tasks -> Task \cup {None}] /\ task'[t] = k
      /\ \A x \in Tasks \ {t} : task'[x] = task[x]
      /\ task' \in [Tasks -> Task \cup {None}]
  BY <1>3, <1>5 DEF TypeInv, TypeOK
<1>7. Ids' = Ids /\ Posts' = Posts /\ docs' = docs
  BY DEF Start, Ids, Posts
<1>8. NextIds' = NextIds \cup {NewId}
  BY <1>5, IdTypes DEF NextIds
<1>9. esMissed' \subseteq Users /\ missed' = missed /\ faults' = faults
  BY DocParts DEF Start, TypeInv, TypeOK
<1>10. TypeOK' /\ WorkersOK'
  <2>1. writes' \in Nat
    BY <1>5, IdTypes
  <2>2. docs' \in [Ids' -> Doc] /\ Ids' \subseteq Nat /\ missed' \subseteq Users /\ faults' \in Nat
    BY <1>7, <1>9 DEF TypeInv, TypeOK
  <2>3. UNCHANGED <<row, es, eventVars, changes>>
    BY DEF Start
  <2> QED BY <1>6, <1>7, <1>9, <2>1, <2>2, <2>3, TaskStepTypes
<1>11. DocsOK'
  BY <1>7, <1>8 DEF TypeInv, DocsOK
<1>12. \A x \in Tasks \ {t} : Inserting(x)' = Inserting(x)
  BY <1>6 DEF Inserting
<1>13. Inserting(t)' <=> kind # "edit"
  BY <1>1, <1>4, <1>6 DEF Inserting
<1>14. ASSUME NEW x \in Tasks PROVE TaskOK(x)'
  <2>1. CASE x # t
    <3>1. TaskOK(x)
      BY DEF TypeInv, TasksOK
    <3> QED BY <1>6, <1>7, <1>8, <1>12, <2>1, <3>1 DEF TaskOK
  <2>2. CASE x = t
    <3>1. kind # "edit" => id \in NextIds' \ Ids'
      BY <1>2, <1>7, <1>8, IdTypes
    <3>2. task'[t].doc = doc /\ task'[t].kind = kind /\ task'[t].step = step /\ task'[t].id = id
      BY <1>1, <1>6
    <3>3. Shaped(task'[t].doc) /\ task'[t].doc.coll = CollOf(task'[t].kind)
      BY <3>2
    <3>4. Inserting(t)' => task'[t].id \in NextIds' \ Ids'
      BY <1>13, <3>1, <3>2
    <3>5. ~Inserting(t)' => task'[t].id \in Posts' /\ docs'[task'[t].id].user = task'[t].doc.user
      BY <1>7, <1>13, <3>2
    <3>6. TaskOK(t)'
      BY <3>2, <3>3, <3>4, <3>5 DEF TaskOK
    <3> QED BY <2>2, <3>6
  <2> QED BY <2>1, <2>2
<1>15. ASSUME NEW x \in Tasks, NEW y \in Tasks, Inserting(x)', Inserting(y)', task'[x].id = task'[y].id
       PROVE  x = y
  <2>1. \A z \in Tasks \ {t} : Inserting(z) => task[z].id # NewId
    BY IdTypes DEF TypeInv, TasksOK, TaskOK, Inserting
  <2>2. CASE x # t /\ y # t
    BY <1>6, <1>12, <1>15, <2>2 DEF TypeInv, TasksOK
  <2>3. CASE x = t \/ y = t
    BY <1>1, <1>6, <1>12, <1>13, <1>15, <2>1, <2>3
  <2> QED BY <2>2, <2>3
<1> QED BY <1>10, <1>11, <1>14, <1>15 DEF TypeInv, TasksOK

LEMMA ByTypes ==
  ASSUME TypeInv, NEW c \in Colls, NEW u \in Users, NEW v \in Users \cup {None},
         NEW n \in Names \cup {Gone, None}
  PROVE  /\ By(c, u, v, n) \in Doc
         /\ By(c, u, v, n).coll = c /\ By(c, u, v, n).user = u /\ By(c, u, v, n).name = row[u]
         /\ By(c, u, v, n).other = v /\ By(c, u, v, n).otherName = n
BY DEF By, Doc, TypeInv, TypeOK

LEMMA BeginTypes ==
  ASSUME TypeInv, NEW t \in Tasks, NEW u \in Users,
         CreatePost(t, u) \/ CreateComment(t, u) \/ \E v \in Users : FollowUser(t, u, v)
  PROVE  TypeInv'
<1>0. "posts" \in Colls /\ "comments" \in Colls /\ "user_follows" \in Colls
      /\ None \in Users \cup {None} /\ None \in Names \cup {Gone, None}
      /\ followed \subseteq Users \X Users /\ \A v \in Users : row[v] \in Names \cup {Gone}
  BY DEF Colls, TypeInv, TypeOK
<1>1. CASE CreatePost(t, u)
  <2> DEFINE d == By("posts", u, None, None)
  <2>0. d \in Doc /\ d.coll = "posts" /\ d.other = None /\ d.otherName = None
    BY SMTT(30), <1>0, ByTypes
  <2> HIDE DEF d
  <2>1. d \in Doc /\ d.coll = "posts" /\ Shaped(d)
    BY <2>0 DEF Shaped
  <2>2. Start(t, "post", "save", NewId, d) /\ followed' = followed
    BY <1>1 DEF CreatePost, d
  <2> QED BY <1>0, <2>1, <2>2, StartTypes DEF CollOf
<1>2. CASE CreateComment(t, u)
  <2> DEFINE d == By("comments", u, None, None)
  <2>0. d \in Doc /\ d.coll = "comments" /\ d.other = None /\ d.otherName = None
    BY <1>0, ByTypes
  <2> HIDE DEF d
  <2>1. d \in Doc /\ d.coll = "comments" /\ Shaped(d)
    BY <2>0 DEF Shaped
  <2>2. Start(t, "comment", "parent", NewId, d) /\ followed' = followed
    BY <1>2 DEF CreateComment, d
  <2> QED BY <1>0, <2>1, <2>2, StartTypes DEF CollOf
<1>3. ASSUME NEW v \in Users, FollowUser(t, u, v) PROVE TypeInv'
  <2> DEFINE d == By("user_follows", u, v, row[v])
  <2>1. u # v /\ row[v] # None /\ v # None
    BY <1>0, <1>3, ProfileAssumption DEF FollowUser
  <2>2. d \in Doc /\ d.coll = "user_follows" /\ Shaped(d)
    BY <1>0, <2>1, ByTypes DEF Shaped
  <2>3. Start(t, "follow", "save", NewId, d) /\ followed' = followed
    BY <1>3 DEF FollowUser
  <2> HIDE DEF d
  <2> QED BY <1>0, <2>2, <2>3, StartTypes DEF CollOf
<1> QED BY <1>1, <1>2, <1>3

LEMMA UpdatePostTypes ==
  ASSUME TypeInv, NEW t \in Tasks, NEW i \in Ids, UpdatePost(t, i)
  PROVE  TypeInv'
<1>1. i \in Posts /\ docs[i] \in Doc /\ Shaped(docs[i]) /\ docs[i].coll = "posts"
      /\ followed \subseteq Users \X Users
  BY DEF UpdatePost, Posts, TypeInv, TypeOK, DocsOK
<1>2. Start(t, "edit", "save", i, docs[i]) /\ followed' = followed
  BY DEF UpdatePost
<1> QED BY <1>1, <1>2, StartTypes DEF CollOf

\* An event of a new follower is about two users.
LEMMA FollowedParts ==
  ASSUME TypeInv, NEW f \in followed
  PROVE  f = <<f[1], f[2]>> /\ f[1] \in Users /\ f[2] \in Users
BY DEF TypeInv, TypeOK

LEMMA HandleFollowTypes ==
  ASSUME TypeInv, NEW t \in Tasks, NEW f \in followed, HandleFollow(t, f)
  PROVE  TypeInv'
<1>1. f[1] \in Users /\ f[2] \in Users /\ followed' \subseteq Users \X Users
  BY FollowedParts DEF HandleFollow, TypeInv, TypeOK
<1>2. CASE row[f[1]] = Gone
  <2>1. UNCHANGED <<row, docs, es, eventVars, task, historyVars, changes, writes, faults>>
    BY <1>2 DEF HandleFollow
  <2>2. Ids' = Ids /\ Posts' = Posts
    BY <2>1 DEF Ids, Posts
  <2>3. TypeOK' /\ WorkersOK'
    BY <1>1, <2>1, <2>2 DEF eventVars, historyVars, TypeInv, TypeOK, WorkersOK
  <2> QED BY <2>1, <2>3, QuietTypes
<1>3. CASE row[f[1]] # Gone
  <2> DEFINE d == By("notifications", f[1], f[2], None)
  <2>1. d \in Doc /\ d.coll = "notifications" /\ Shaped(d)
    BY <1>1, ByTypes DEF Shaped, Colls
  <2>2. Start(t, "notice", "save", NewId, d)
    BY <1>3 DEF HandleFollow
  <2> HIDE DEF d
  <2> QED BY <1>1, <2>1, <2>2, StartTypes DEF CollOf
<1> QED BY <1>2, <1>3

\* Tasks that end, or go on with what they write: no one of them inserts what it did not
\* insert before.
LEMMA StepTypes ==
  ASSUME TypeInv, NEW t \in Tasks, task[t] # None,
         UNCHANGED writes, TypeOK', WorkersOK', DocsOK', Posts \subseteq Posts',
         \A i \in Posts : docs'[i].user = docs[i].user,
         \A x \in Tasks \ {t} : task'[x] = task[x],
         \A x \in Tasks \ {t} : Inserting(x) => task[x].id \notin Ids',
         Inserting(t)' => Inserting(t) /\ task'[t].id = task[t].id,
         TaskOK(t)'
  PROVE  TypeInv'
<1>1. NextIds' = NextIds
  BY DEF NextIds
<1>2. \A x \in Tasks \ {t} : Inserting(x)' = Inserting(x)
  BY DEF Inserting
<1>3. ASSUME NEW x \in Tasks PROVE TaskOK(x)'
  <2>1. CASE x # t
    <3>1. TaskOK(x)
      BY DEF TypeInv, TasksOK
    <3> QED BY <1>1, <1>2, <2>1, <3>1 DEF TaskOK
  <2> QED BY <2>1
<1>4. \A x, y \in Tasks : Inserting(x)' /\ Inserting(y)' /\ task'[x].id = task'[y].id => x = y
  <2>1. \A x \in Tasks : Inserting(x)' => Inserting(x) /\ task'[x].id = task[x].id
    BY <1>2
  <2> QED BY <2>1 DEF TypeInv, TasksOK
<1> QED BY <1>3, <1>4 DEF TypeInv, TasksOK

\* A task that leaves the documents alone.
LEMMA ReadTypes ==
  ASSUME TypeInv, NEW t \in Tasks, task[t] # None, UNCHANGED <<row, docs, eventVars, changes, writes>>,
         es' \in [DOMAIN es' -> Names \cup {Gone}], DOMAIN es' \subseteq Posts,
         followed' \subseteq Users \X Users, missed' \subseteq Users, esMissed' \subseteq Users,
         faults' \in Nat,
         NEW k \in Task \cup {None}, task' = [task EXCEPT ![t] = k],
         k # None => /\ Shaped(k.doc) /\ k.doc.coll = task[t].doc.coll
                     /\ k.kind = task[t].kind /\ k.id = task[t].id
                     /\ k.doc.user = task[t].doc.user
                     /\ \/ task[t].step = "parent" /\ k.step = "save"
                        \/ task[t].step = "reread" /\ k.step = "index"
  PROVE  TypeInv'
<1>1. Ids' = Ids /\ Posts' = Posts /\ NextIds' = NextIds
  BY DEF Ids, Posts, NextIds
<1>2. /\ task'[t] = k /\ \A x \in Tasks \ {t} : task'[x] = task[x]
      /\ task' \in [Tasks -> Task \cup {None}]
  BY DEF TypeInv, TypeOK
<1>3. TypeOK'
  BY <1>1, <1>2 DEF eventVars, TypeInv, TypeOK
<1>4. WorkersOK'
  BY DEF eventVars, TypeInv, WorkersOK
<1>5. DocsOK'
  BY <1>1 DEF TypeInv, DocsOK
<1>6. TaskOK(t)
  BY DEF TypeInv, TasksOK
<1>7. Inserting(t)' => Inserting(t) /\ task'[t].id = task[t].id
  BY <1>2 DEF Inserting
<1>8. k # None => (Inserting(t)' <=> Inserting(t))
  BY <1>2, <1>6 DEF Inserting, TaskOK
<1>9. TaskOK(t)'
  BY <1>1, <1>2, <1>6, <1>8 DEF TaskOK
<1>10. \A x \in Tasks \ {t} : Inserting(x) => task[x].id \notin Ids'
  BY <1>1 DEF TypeInv, TasksOK, TaskOK, Inserting
<1> QED BY <1>1, <1>2, <1>3, <1>4, <1>5, <1>7, <1>9, <1>10, StepTypes

Steps == {"parent", "save", "publish", "reread", "index"}

LEMMA OnwardParts ==
  ASSUME NEW k \in Task, NEW step \in Steps, NEW d \in Doc
  PROVE  /\ Onward(k, step, d) \in Task /\ Onward(k, step, d) # None
         /\ Onward(k, step, d).kind = k.kind /\ Onward(k, step, d).id = k.id
         /\ Onward(k, step, d).step = step /\ Onward(k, step, d).doc = d
<1>1. Onward(k, step, d) \in Task
  BY DEF Onward, Task, Steps
<1> QED BY <1>1, TaskParts DEF Onward

LEMMA AnswerParts ==
  ASSUME NEW d \in Doc, NEW c \in Doc, d.coll = "comments"
  PROVE  LET a == Answer(d, c)
         IN  /\ a \in Doc /\ Shaped(a)
             /\ a.coll = "comments" /\ a.user = d.user /\ a.name = d.name
             /\ a.other = c.user /\ a.otherName = c.name
<1> DEFINE a == Answer(d, c)
<1>1. /\ a \in Doc
      /\ a.coll = "comments" /\ a.user = d.user /\ a.name = d.name
      /\ a.other = c.user /\ a.otherName = c.name
  BY DEF Answer, Doc
<1>2. c.user # None
  BY DocParts, ProfileAssumption
<1> HIDE DEF a
<1>3. Shaped(a)
  BY <1>1, <1>2 DEF Shaped
<1> QED BY <1>1, <1>3 DEF a

\* A comment answers nobody, or the comment it has found.
LEMMA ParentParts ==
  ASSUME TypeInv, NEW t \in Tasks, FindParent(t)
  PROVE  /\ task[t] # None /\ task[t] \in Task /\ task[t].doc \in Doc
         /\ task[t].step = "parent" /\ task[t].kind = "comment" /\ task[t].doc.coll = "comments"
         /\ \E d \in Doc : /\ Shaped(d) /\ d.coll = "comments"
                           /\ d.user = task[t].doc.user /\ d.name = task[t].doc.name
                           /\ \/ d = task[t].doc
                              \/ \E i \in Ids : /\ docs[i].coll = "comments"
                                                /\ d.other = docs[i].user
                                                /\ d.otherName = docs[i].name
                           /\ task' = [task EXCEPT ![t] = Onward(task[t], "save", d)]
<1>1. task[t] # None /\ task[t].step = "parent" /\ task[t] \in Task /\ task[t].kind = "comment"
      /\ Shaped(task[t].doc) /\ task[t].doc.coll = "comments"
  BY DEF FindParent, TypeInv, TypeOK, TasksOK, TaskOK, CollOf
<1>2. task[t].doc \in Doc
  BY <1>1, TaskParts
<1>3. PICK d \in {task[t].doc} \cup
               {Answer(task[t].doc, docs[i]) : i \in {j \in Ids : docs[j].coll = "comments"}} :
         task' = [task EXCEPT ![t] = Onward(task[t], "save", d)]
  BY DEF FindParent
<1>4. CASE d = task[t].doc
  BY <1>1, <1>2, <1>3, <1>4
<1>5. ASSUME NEW i \in Ids, docs[i].coll = "comments", d = Answer(task[t].doc, docs[i])
      PROVE  /\ d \in Doc /\ Shaped(d) /\ d.coll = "comments"
             /\ d.user = task[t].doc.user /\ d.name = task[t].doc.name
             /\ d.other = docs[i].user /\ d.otherName = docs[i].name
  BY <1>1, <1>2, <1>5, AnswerParts DEF TypeInv, TypeOK
<1> QED BY <1>1, <1>2, <1>3, <1>4, <1>5

LEMMA FindParentTypes ==
  ASSUME TypeInv, NEW t \in Tasks, FindParent(t)
  PROVE  TypeInv'
<1>1. task[t] # None /\ task[t] \in Task /\ task[t].step = "parent" /\ task[t].doc.coll = "comments"
  BY ParentParts
<1>2. PICK d \in Doc : /\ Shaped(d) /\ d.coll = "comments" /\ d.user = task[t].doc.user
                       /\ task' = [task EXCEPT ![t] = Onward(task[t], "save", d)]
  BY ParentParts
<1> DEFINE k == Onward(task[t], "save", d)
<1>3. k \in Task /\ k.kind = task[t].kind /\ k.id = task[t].id /\ k.step = "save" /\ k.doc = d
  <2>1. "save" \in Steps
    BY DEF Steps
  <2> QED BY <2>1, <1>1, OnwardParts
<1>4. UNCHANGED <<row, docs, eventVars, changes, writes, es, followed, missed, esMissed, faults>>
  BY DEF FindParent, historyVars
<1>5. /\ es' \in [DOMAIN es' -> Names \cup {Gone}] /\ DOMAIN es' \subseteq Posts
      /\ followed' \subseteq Users \X Users /\ missed' \subseteq Users /\ esMissed' \subseteq Users
      /\ faults' \in Nat
  BY <1>4 DEF TypeInv, TypeOK
<1>6. task' = [task EXCEPT ![t] = k]
  BY <1>2
<1> HIDE DEF k
<1> QED BY ZenonT(60), <1>1, <1>2, <1>3, <1>4, <1>5, <1>6, ReadTypes

LEMMA TaskEndTypes ==
  ASSUME TypeInv, NEW t \in Tasks, PublishFollow(t) \/ TaskFails(t)
  PROVE  TypeInv'
<1>1. task[t] # None /\ task' = [task EXCEPT ![t] = None] /\ task[t] \in Task
  BY DEF PublishFollow, TaskFails, TypeInv, TypeOK
<1>2. task[t].doc.user \in Users
  BY <1>1, TaskParts, DocParts
<1>3. PublishFollow(t) => task[t].doc.other \in Users
  <2>1. PublishFollow(t) => task[t].doc.coll = "user_follows" /\ Shaped(task[t].doc)
    BY <1>1 DEF PublishFollow, TypeInv, TasksOK, TaskOK, CollOf
  <2> QED BY <1>1, <2>1, TaskParts, DocParts DEF Shaped
<1>4. followed' \subseteq Users \X Users
  BY <1>2, <1>3 DEF PublishFollow, TaskFails, TypeInv, TypeOK
<1>5. missed' \subseteq Users /\ esMissed' \subseteq Users /\ faults' \in Nat
  BY <1>2, FaultTypes DEF PublishFollow, TaskFails, historyVars, TypeInv, TypeOK
<1>6. UNCHANGED <<row, docs, eventVars, changes, writes, es>>
  BY DEF PublishFollow, TaskFails
<1>7. es' \in [DOMAIN es' -> Names \cup {Gone}] /\ DOMAIN es' \subseteq Posts
  BY <1>6 DEF TypeInv, TypeOK
<1> QED BY <1>1, <1>4, <1>5, <1>6, <1>7, ReadTypes

\* What a task about to index a post, or to read it again, is about.
LEMMA PostTaskParts ==
  ASSUME TypeInv, NEW t \in Tasks, task[t] # None, task[t].step \in {"reread", "index"}
  PROVE  /\ task[t] \in Task /\ task[t].kind \in {"post", "edit"}
         /\ task[t].id \in Posts /\ task[t].id \in Ids /\ docs[task[t].id].user = task[t].doc.user
         /\ task[t].doc.coll = "posts" /\ Shaped(task[t].doc)
BY DEF TypeInv, TypeOK, TasksOK, TaskOK, Inserting, CollOf, Posts

LEMMA RereadTypes ==
  ASSUME TypeInv, NEW t \in Tasks, Reread(t)
  PROVE  TypeInv'
<1>1. task[t] # None /\ task[t].step = "reread"
  BY DEF Reread
<1> DEFINE i == task[t].id
           k == Onward(task[t], "index", docs[i])
<1>2. /\ task[t] \in Task /\ i \in Ids /\ docs[i] \in Doc /\ Shaped(docs[i]) /\ docs[i].coll = "posts"
      /\ docs[i].user = task[t].doc.user /\ task[t].doc.coll = "posts"
  BY <1>1, PostTaskParts DEF Posts, TypeInv, TypeOK, DocsOK
<1>3. k \in Task /\ k.kind = task[t].kind /\ k.id = task[t].id /\ k.step = "index" /\ k.doc = docs[i]
  <2>1. "index" \in Steps
    BY DEF Steps
  <2> QED BY <2>1, <1>2, OnwardParts
<1>4. task' = [task EXCEPT ![t] = k]
  BY DEF Reread
<1>5. UNCHANGED <<row, docs, eventVars, changes, writes, es, followed, missed, esMissed, faults>>
  BY DEF Reread, historyVars
<1>6. /\ es' \in [DOMAIN es' -> Names \cup {Gone}] /\ DOMAIN es' \subseteq Posts
      /\ followed' \subseteq Users \X Users /\ missed' \subseteq Users /\ esMissed' \subseteq Users
      /\ faults' \in Nat
  BY <1>5 DEF TypeInv, TypeOK
<1> HIDE DEF k, i
<1> QED BY <1>1, <1>2, <1>3, <1>4, <1>5, <1>6, ReadTypes

LEMMA IndexTypes ==
  ASSUME TypeInv, NEW t \in Tasks, Index(t)
  PROVE  TypeInv'
<1>1. task[t] # None /\ task[t].step = "index" /\ task' = [task EXCEPT ![t] = None]
  BY DEF Index
<1>2. task[t] \in Task /\ task[t].id \in Posts /\ task[t].doc.name \in Names \cup {Gone}
  BY <1>1, PostTaskParts, TaskParts, DocParts
<1>3. es' \in [DOMAIN es' -> Names \cup {Gone}] /\ DOMAIN es' \subseteq Posts
  <2>1. es' = Put(es, task[t].id, task[t].doc.name)
    BY DEF Index
  <2>2. DOMAIN es' = DOMAIN es \cup {task[t].id}
    BY <2>1 DEF Put
  <2> QED BY <1>2, <2>1, <2>2 DEF Put, TypeInv, TypeOK
<1>4. UNCHANGED <<row, docs, eventVars, changes, writes, followed, missed, esMissed, faults>>
  BY DEF Index, historyVars
<1>5. /\ followed' \subseteq Users \X Users /\ missed' \subseteq Users /\ esMissed' \subseteq Users
      /\ faults' \in Nat
  BY <1>4 DEF TypeInv, TypeOK
<1> QED BY <1>1, <1>3, <1>4, <1>5, ReadTypes

\* What a save does to the documents: one is new, or takes the place of one of the same
\* kind and person.
SavedAt(t, p) ==
    LET d == task[t].doc
    IN  /\ Ids' = Ids \cup {p} /\ docs'[p] = d /\ \A i \in Ids \ {p} : docs'[i] = docs[i]
        /\ docs' \in [Ids' -> Doc]
        /\ p \in NextIds /\ ~Taken(d)
        /\ p \notin Ids => p = task[t].id /\ Inserting(t)
        /\ p \in Ids => /\ docs[p].coll = d.coll /\ docs[p].user = d.user
                        /\ \/ task[t].kind = "edit" /\ p = task[t].id
                           \/ task[t].kind = "notice" /\ docs[p].other = d.other
        /\ task[t].kind = "notice" /\ p \notin Ids => Relation("notifications", d.user, d.other) = {}
        /\ \/ task[t].kind \in {"comment", "notice"} /\ task' = [task EXCEPT ![t] = None]
           \/ /\ task[t].kind \notin {"comment", "notice"}
              /\ task' = [task EXCEPT ![t] = Onward(task[t], AfterSave(task[t].kind), d)]

LEMMA SaveParts ==
  ASSUME TypeInv, NEW t \in Tasks, Save(t)
  PROVE  /\ task[t] # None /\ task[t] \in Task /\ task[t].step = "save"
         /\ task[t].doc \in Doc /\ Shaped(task[t].doc) /\ task[t].doc.coll = CollOf(task[t].kind)
         /\ UNCHANGED <<row, es, eventVars, followed, historyVars, changes, writes, faults>>
         /\ \/ /\ Taken(task[t].doc) /\ task' = [task EXCEPT ![t] = None] /\ UNCHANGED docs
            \/ \E p \in NextIds : SavedAt(t, p)
<1> DEFINE d == task[t].doc
           p == Place(t)
           same == Relation("notifications", d.user, d.other)
<1>1. task[t] # None /\ task[t].step = "save" /\ task[t] \in Task
  BY DEF Save, TypeInv, TypeOK
<1>2. d \in Doc /\ Shaped(d) /\ d.coll = CollOf(task[t].kind) /\ TaskOK(t)
  BY <1>1, TaskParts DEF TypeInv, TasksOK, TaskOK
<1>3. UNCHANGED <<row, es, eventVars, followed, historyVars, changes, writes, faults>>
  BY DEF Save
<1>4. CASE Taken(d)
  BY <1>1, <1>2, <1>3, <1>4 DEF Save
<1>5. CASE ~Taken(d)
  <2>1. docs' = Put(docs, p, d)
    BY <1>1, <1>5 DEF Save
  <2>2. Inserting(t) <=> task[t].kind # "edit"
    BY <1>1 DEF Inserting
  <2>3. Ids \subseteq NextIds /\ docs \in [Ids -> Doc]
    BY DEF TypeInv, DocsOK, TypeOK
  <2>4. CASE task[t].kind = "notice" /\ same # {}
    <3>1. p \in same
      BY <2>4 DEF Place
    <3>2. p \in Ids /\ docs[p].coll = "notifications" /\ docs[p].user = d.user /\ docs[p].other = d.other
      BY <3>1 DEF Relation
    <3>3. d.coll = "notifications"
      BY <1>2, <2>4 DEF CollOf
    <3>4. Ids' = Ids \cup {p} /\ docs'[p] = d /\ \A i \in Ids \ {p} : docs'[i] = docs[i]
      BY <2>1 DEF Put, Ids
    <3>5. docs' \in [Ids' -> Doc]
      BY <1>2, <2>1, <2>3, <3>4 DEF Put, Ids
    <3>6. task' = [task EXCEPT ![t] = None]
      BY <1>1, <1>5, <2>4 DEF Save
    <3>7. p \in NextIds
      BY <2>3, <3>2
    <3> HIDE DEF p
    <3>8. SavedAt(t, p)
      BY <1>5, <2>4, <3>2, <3>3, <3>4, <3>5, <3>6, <3>7 DEF SavedAt
    <3> QED BY <1>1, <1>2, <1>3, <3>7, <3>8
  <2>5. CASE ~(task[t].kind = "notice" /\ same # {})
    <3>1. p = task[t].id
      BY <2>5 DEF Place
    <3>2. task[t].kind # "edit" => p \in NextIds \ Ids
      BY <1>1, <1>2, <2>2, <3>1 DEF TaskOK
    <3>3. task[t].kind = "edit" => p \in Ids /\ docs[p].coll = "posts" /\ docs[p].user = d.user
                                     /\ d.coll = "posts"
      BY <1>1, <1>2, <2>2, <3>1 DEF TaskOK, Posts, CollOf
    <3> HIDE DEF p
    <3>4. Ids' = Ids \cup {p} /\ docs'[p] = d /\ \A i \in Ids \ {p} : docs'[i] = docs[i]
      BY <2>1 DEF Put, Ids
    <3>5. docs' \in [Ids' -> Doc]
      BY <1>2, <2>1, <2>3, <3>4 DEF Put, Ids
    <3>6. \/ task[t].kind \in {"comment", "notice"} /\ task' = [task EXCEPT ![t] = None]
          \/ /\ task[t].kind \notin {"comment", "notice"}
             /\ task' = [task EXCEPT ![t] = Onward(task[t], AfterSave(task[t].kind), d)]
      BY <1>1, <1>5 DEF Save
    <3>7. p \in NextIds
      BY <2>3, <3>2, <3>3
    <3>8. SavedAt(t, p)
      <4> HIDE DEF d
      <4> QED BY <1>5, <2>2, <2>5, <3>1, <3>2, <3>3, <3>4, <3>5, <3>6, <3>7 DEF SavedAt, d
    <3> QED BY <1>1, <1>2, <1>3, <3>7, <3>8
  <2> QED BY <2>4, <2>5
<1> QED BY <1>4, <1>5

LEMMA SaveTypes ==
  ASSUME TypeInv, NEW t \in Tasks, Save(t)
  PROVE  TypeInv'
<1>1. /\ task[t] # None /\ task[t] \in Task /\ task[t].step = "save"
      /\ task[t].doc \in Doc /\ Shaped(task[t].doc) /\ task[t].doc.coll = CollOf(task[t].kind)
      /\ UNCHANGED <<row, es, eventVars, followed, historyVars, changes, writes, faults>>
  BY SaveParts
<1>2. UNCHANGED <<followed, missed, esMissed>>
  BY <1>1 DEF historyVars
<1>3. /\ followed' \subseteq Users \X Users /\ missed' \subseteq Users /\ esMissed' \subseteq Users
      /\ faults' \in Nat /\ writes' \in Nat /\ es' \in [DOMAIN es' -> Names \cup {Gone}]
      /\ DOMAIN es' \subseteq Posts /\ es' = es
  BY <1>1, <1>2 DEF TypeInv, TypeOK
<1>4. CASE task' = [task EXCEPT ![t] = None] /\ UNCHANGED docs
  BY <1>1, <1>3, <1>4, ReadTypes
<1>5. ASSUME NEW p \in NextIds, SavedAt(t, p) PROVE TypeInv'
  <2> DEFINE d == task[t].doc
  <2>1. /\ Ids' = Ids \cup {p} /\ docs'[p] = d /\ \A i \in Ids \ {p} : docs'[i] = docs[i]
        /\ docs' \in [Ids' -> Doc]
        /\ p \in Ids => docs[p].coll = d.coll /\ docs[p].user = d.user
        /\ p \notin Ids => p = task[t].id /\ Inserting(t)
    BY <1>5 DEF SavedAt
  <2> HIDE DEF d
  <2>2. \A i \in Posts : i \in Posts' /\ docs'[i].user = docs[i].user
    BY <2>1 DEF Posts
  <2>3. NextIds' = NextIds /\ Ids \subseteq NextIds /\ NextIds \subseteq Nat
    BY <1>1, IdTypes DEF NextIds, TypeInv, DocsOK
  <2>4. DocsOK'
    <3>1. IsFiniteSet(Ids \cup {p})
      BY FS_AddElement DEF TypeInv, DocsOK
    <3>2. \A i \in Ids' : Shaped(docs'[i])
      BY <1>1, <2>1 DEF d, TypeInv, DocsOK
    <3> QED BY <2>1, <2>3, <3>1, <3>2 DEF DocsOK
  <2>5. AfterSave(task[t].kind) \in Steps /\ AfterSave(task[t].kind) # "save"
    BY DEF AfterSave, Steps
  <2> DEFINE k == Onward(task[t], AfterSave(task[t].kind), d)
  <2>6. k \in Task /\ k # None /\ k.kind = task[t].kind /\ k.id = task[t].id
        /\ k.step = AfterSave(task[t].kind) /\ k.doc = d
    BY <1>1, <2>5, OnwardParts DEF d
  <2>7. \/ task[t].kind \in {"comment", "notice"} /\ task' = [task EXCEPT ![t] = None]
        \/ task[t].kind \notin {"comment", "notice"} /\ task' = [task EXCEPT ![t] = k]
    BY <1>5 DEF SavedAt, d
  <2> HIDE DEF k
  <2>8. /\ \A x \in Tasks \ {t} : task'[x] = task[x]
        /\ task' \in [Tasks -> Task \cup {None}]
        /\ \/ task[t].kind \in {"comment", "notice"} /\ task'[t] = None
           \/ task[t].kind \notin {"comment", "notice"} /\ task'[t] = k
    BY <2>6, <2>7 DEF TypeInv, TypeOK
  <2>9. TypeOK' /\ WorkersOK'
    <3>1. Ids' \subseteq Nat /\ Posts \subseteq Posts'
      BY <2>1, <2>2, <2>3
    <3>2. UNCHANGED <<row, es, eventVars, changes>>
      BY <1>1
    <3> QED BY <1>3, <2>1, <2>8, <3>1, <3>2, TaskStepTypes
  <2>10. \A x \in Tasks \ {t} : Inserting(x) => task[x].id \notin Ids'
    <3>1. \A x \in Tasks : Inserting(x) => task[x].id \notin Ids
      BY DEF TypeInv, TasksOK, TaskOK, Inserting
    <3> QED BY <2>1, <3>1 DEF TypeInv, TasksOK
  <2>11. task'[t] # None => task'[t].step \in {"publish", "reread", "index"}
    BY <2>6, <2>8 DEF AfterSave
  <2>12. ~(Inserting(t)')
    BY <2>6, <2>8, <2>11 DEF Inserting
  <2>13. task[t].kind \in {"post", "edit"} => p = task[t].id
    BY <1>5 DEF SavedAt
  <2>14. TaskOK(t)'
    <3> SUFFICES ASSUME task'[t] # None PROVE TaskOK(t)'
      BY DEF TaskOK
    <3>1. /\ task[t].kind \in {"post", "edit", "follow"}
          /\ task'[t].kind = task[t].kind /\ task'[t].id = task[t].id /\ task'[t].doc = d
          /\ task'[t].step = AfterSave(task[t].kind)
      BY <1>1, <2>6, <2>8, TaskParts
    <3>2. Shaped(task'[t].doc) /\ task'[t].doc.coll = CollOf(task'[t].kind)
      BY <1>1, <3>1 DEF d
    <3>3. task'[t].kind \in {"post", "edit"} =>
             task'[t].id \in Posts' /\ docs'[task'[t].id].user = task'[t].doc.user
      <4>1. task[t].kind \in {"post", "edit"} => d.coll = "posts"
        BY <1>1 DEF CollOf, d
      <4> QED BY <2>1, <2>13, <3>1, <4>1 DEF Posts
    <3>4. /\ task'[t].step # "parent"
          /\ task'[t].step = "publish" => task'[t].kind = "follow"
          /\ task'[t].step \in {"reread", "index"} => task'[t].kind \in {"post", "edit"}
      BY <3>1 DEF AfterSave
    <3> QED BY <2>12, <3>2, <3>3, <3>4 DEF TaskOK
  <2> QED BY <1>1, <2>2, <2>4, <2>8, <2>9, <2>10, <2>12, <2>14, StepTypes
<1> QED BY <1>4, <1>5, SaveParts

LEMMA NextTypes ==
  ASSUME TypeInv, [Next]_vars
  PROVE  TypeInv'
<1>1. ASSUME NEW u \in Changing, Rename(u) \/ DeleteUser(u) PROVE TypeInv'
  BY <1>1, ChangeTypes, ProfileAssumption DEF Rename, DeleteUser
<1>2. ASSUME NEW w \in Workers,
             (\E e \in queue : Take(w, e)) \/ Run(w) \/ StatementFails(w) \/ Dies(w)
      PROVE  TypeInv'
  BY <1>2, TakeTypes, RunTypes, StatementFailsTypes, DiesTypes
<1>3. ASSUME NEW t \in Tasks,
             \/ \E u \in Users : \/ CreatePost(t, u) \/ CreateComment(t, u)
                                 \/ \E v \in Users : FollowUser(t, u, v)
             \/ \E i \in Ids : UpdatePost(t, i)
             \/ \E f \in followed : HandleFollow(t, f)
             \/ FindParent(t) \/ Save(t) \/ PublishFollow(t) \/ Reread(t) \/ Index(t)
             \/ TaskFails(t)
      PROVE  TypeInv'
  BY <1>3, BeginTypes, UpdatePostTypes, HandleFollowTypes, FindParentTypes, SaveTypes,
     TaskEndTypes, RereadTypes, IndexTypes
<1>4. CASE UNCHANGED vars
  <2>1. UNCHANGED <<docs, task, writes>>
    BY <1>4 DEF vars
  <2>2. Ids' = Ids /\ Posts' = Posts
    BY <2>1 DEF Ids, Posts
  <2>3. TypeOK' /\ WorkersOK'
    BY <1>4, <2>2 DEF vars, eventVars, historyVars, TypeInv, TypeOK, WorkersOK
  <2> QED BY <2>1, <2>3, QuietTypes
<1> QED BY <1>1, <1>2, <1>3, <1>4, PublishTypes, IndexedTypes, UnfollowTypes DEF Next

LEMMA TypeInvHolds == Spec => []TypeInv
<1>1. TypeInv /\ [Next]_vars => TypeInv'
  BY NextTypes
<1> QED BY InitTypeInv, <1>1, PTL DEF Spec
-----------------------------------------------------------------------------
(* The inductive invariants.  A copy of a name may be wrong for a while, so   *)
(* NamesSettle is not inductive: NamesInv says what will still correct it.    *)

\* No relation and no notification of a follower is there twice.
Unique ==
    \A i, j \in Ids :
        /\ docs[i].coll = docs[j].coll /\ docs[i].coll \in {"user_follows", "notifications"}
        /\ docs[i].user = docs[j].user /\ docs[i].other = docs[j].other
        => i = j

\* What is written, and will be.
All == {docs[i] : i \in Ids} \cup Held

\* Events of MySQL's changes that the user queue has still to end.
Told == outbox \cup queue \cup Handled

\* The j-th statement for u is still to come.
ToDo(u, j) ==
    \/ \E e \in outbox \cup queue : e.user = u
    \/ \E w \in Workers : worker[w] # None /\ worker[w].event.user = u /\ worker[w].step <= j

\* The statement, executed for u with the name n, would change nothing in the document
\* and not delete it.
Fits(s, d, u, n) ==
    Hits(s, d, u) =>
        /\ s.op = "set"
        /\ s.field = "user" => d.name = n
        /\ s.field = "other" => d.otherName \in {n, None}

\* Whatever a statement would do to the document is still to be done.
Fitting(u, d) == \A j \in 1..Len(Plan(row[u])) : ToDo(u, j) \/ Fits(Plan(row[u])[j], d, u, row[u])

\* All events of u on the way carry the name of now, and no copy of it is wrong that no
\* statement will correct.
Named(u) == /\ \A e \in Told : e.user = u => e.name = row[u]
            /\ \A d \in All : Fitting(u, d)

NamesInv == \A u \in Users \ missed : Named(u)

\* The same for the index: no post of u is written while an event of his name is under
\* way, and the indexed copies are right, or an event is on its way that corrects them.
PostsOf(u) == {i \in Posts : docs[i].user = u}
EsNamed(u) ==
    /\ \A e \in Told \cup esQueue : e.user = u => e.name = row[u]
    /\ Posting(u) => ~Pending(u)
    /\ ToDo(u, 1) \/ \A i \in PostsOf(u) : docs[i].name = row[u]
    /\ \A t \in Tasks : task[t] # None /\ task[t].kind \in {"post", "edit"} /\ task[t].doc.user = u
                          => task[t].doc.name = row[u]
    /\ \/ row[u] = Gone
       \/ \E e \in outbox \cup esQueue : e.user = u
       \/ \A i \in DOMAIN es \cap PostsOf(u) : es[i] = row[u]

IndexInv == \A u \in Users \ esMissed : EsNamed(u)

\* Whoever is followed has been told so, or will be.
Telling(u, v) ==
    \/ Relation("notifications", u, v) # {}
    \/ <<u, v>> \in followed
    \/ \E t \in Tasks : /\ task[t] # None
                        /\ task[t].doc.user = u /\ task[t].doc.other = v
                        /\ task[t].kind = "notice" \/ task[t].step = "publish"

FollowInv ==
    \A u, v \in Users \ missed :
        row[u] # Gone /\ row[v] # Gone /\ Relation("user_follows", u, v) # {} => Telling(u, v)
-----------------------------------------------------------------------------
(* Relations and notifications are unique. *)

LEMMA InitUnique == Init => Unique
<1> SUFFICES ASSUME Init PROVE Unique
  OBVIOUS
<1>1. docs = OldDocs /\ Ids = 1..Len(OldDocs)
  BY ProfileAssumption DEF Init, Ids
<1> QED BY <1>1, OldDocsFit DEF Unique

\* Documents that were there before keep their kind and persons.
LEMMA UniqueKept ==
  ASSUME Unique, \A i \in Ids' : /\ i \in Ids /\ docs'[i].coll = docs[i].coll
                                 /\ docs'[i].user = docs[i].user /\ docs'[i].other = docs[i].other
  PROVE  Unique'
BY DEF Unique

LEMMA RunUnique ==
  ASSUME TypeInv, Unique, NEW w \in Workers, Run(w)
  PROVE  Unique'
<1>1. PICK e, s : e = worker[w].event /\ s = Plan(e.name)[worker[w].step]
  OBVIOUS
<1> QED BY <1>1, RunParts, UniqueKept

LEMMA UnfollowUnique ==
  ASSUME TypeInv, Unique, NEW u \in Users, NEW v \in Users, UnfollowUser(u, v)
  PROVE  Unique'
<1>1. \A i \in Ids' : i \in Ids /\ docs'[i] = docs[i]
  BY DEF UnfollowUser, Ids, Restrict
<1> QED BY <1>1, UniqueKept

LEMMA SaveUnique ==
  ASSUME TypeInv, Unique, NEW t \in Tasks, Save(t)
  PROVE  Unique'
<1> DEFINE d == task[t].doc
<1>1. /\ task[t] \in Task /\ d.coll = CollOf(task[t].kind)
      /\ UNCHANGED docs \/ \E p \in NextIds : SavedAt(t, p)
  BY SaveParts
<1>2. CASE UNCHANGED docs
  BY <1>2, UniqueKept DEF Ids
<1>3. ASSUME NEW p \in NextIds, SavedAt(t, p) PROVE Unique'
  <2>1. /\ Ids' = Ids \cup {p} /\ docs'[p] = d /\ \A i \in Ids \ {p} : docs'[i] = docs[i]
        /\ ~Taken(d)
        /\ p \in Ids => /\ docs[p].coll = d.coll /\ docs[p].user = d.user
                        /\ \/ task[t].kind = "edit"
                           \/ task[t].kind = "notice" /\ docs[p].other = d.other
        /\ task[t].kind = "notice" /\ p \notin Ids => Relation("notifications", d.user, d.other) = {}
    BY <1>3 DEF SavedAt
  <2>2. d.coll = "notifications" => task[t].kind = "notice"
    BY <1>1, TaskParts DEF CollOf
  <2>3. task[t].kind = "edit" => d.coll = "posts"
    BY <1>1 DEF CollOf
  <2> HIDE DEF d
  <2>4. \A j \in Ids \ {p} : ~ /\ docs[j].coll = d.coll /\ d.coll \in {"user_follows", "notifications"}
                               /\ docs[j].user = d.user /\ docs[j].other = d.other
    BY <2>1, <2>2, <2>3 DEF Taken, Relation, Unique
  <2> QED BY <2>1, <2>4 DEF Unique
<1> QED BY <1>1, <1>2, <1>3

\* What only some steps change.
LEMMA DocsKept ==
  ASSUME [Next]_vars,
         ~\E w \in Workers : Run(w), ~\E t \in Tasks : Save(t),
         ~\E u, v \in Users : UnfollowUser(u, v)
  PROVE  UNCHANGED docs
BY DEF Next, vars, Rename, DeleteUser, Change, Publish, PublishFails, Take, StatementFails, Dies,
       RenameIndexed, RenameIndexedFails, CreatePost, CreateComment, FollowUser, UpdatePost,
       HandleFollow, Start, FindParent, PublishFollow, Reread, Index, TaskFails

LEMMA NextUnique ==
  ASSUME TypeInv, Unique, [Next]_vars
  PROVE  Unique'
<1>1. CASE UNCHANGED docs
  BY <1>1, UniqueKept DEF Ids
<1> QED BY <1>1, DocsKept, RunUnique, SaveUnique, UnfollowUnique
-----------------------------------------------------------------------------
(* The names. *)

LEMMA HeldParts ==
  /\ \A x \in Tasks : task[x] # None => task[x].doc \in Held /\ task[x].doc \in All
  /\ \A f \in followed : By("notifications", f[1], f[2], None) \in Held
                         /\ By("notifications", f[1], f[2], None) \in All
  /\ \A i \in Ids : docs[i] \in All
  /\ \A d \in All : \/ \E i \in Ids : d = docs[i]
                    \/ \E x \in Tasks : task[x] # None /\ d = task[x].doc
                    \/ \E f \in followed : d = By("notifications", f[1], f[2], None)
BY DEF Held, All

\* While a row stays, its events end only when their statements have, and what is
\* written is of before, or fits.
LEMMA NamedKept ==
  ASSUME NEW u \in Users, Named(u), row'[u] = row[u],
         \A e \in Told' : e.user = u => e \in Told,
         \A j \in Nat \ {0} : ToDo(u, j) => ToDo(u, j)',
         \A d \in All' : d \in All \/ Fitting(u, d)'
  PROVE  Named(u)'
<1>1. \A e \in Told' : e.user = u => e.name = row'[u]
  BY DEF Named
<1>2. ASSUME NEW d \in All' PROVE Fitting(u, d)'
  <2>1. CASE d \in All
    <3> SUFFICES ASSUME NEW j \in 1..Len(Plan(row'[u]))
                 PROVE  ToDo(u, j)' \/ Fits(Plan(row'[u])[j], d, u, row'[u])
      BY DEF Fitting, Fits, Hits, Plan
    <3>1. j \in 1..Len(Plan(row[u])) /\ j \in Nat \ {0}
      BY PlanLength
    <3>2. ToDo(u, j) \/ Fits(Plan(row[u])[j], d, u, row[u])
      BY <2>1, <3>1 DEF Named, Fitting
    <3> QED BY <3>1, <3>2
  <2> QED BY <1>2, <2>1
<1> QED BY <1>1, <1>2 DEF Named

\* Steps of requests and listeners: what they write anew fits.
LEMMA TasksNamed ==
  ASSUME NamesInv, UNCHANGED <<row, outbox, queue, worker>>, missed \subseteq missed',
         NEW New,
         \A i \in Ids' : docs'[i] \in All \cup New,
         \A x \in Tasks : task'[x] # None => task'[x].doc \in All \cup New,
         \A f \in followed' : By("notifications", f[1], f[2], None) \in All \cup New,
         \A d \in New : \A u \in Users \ missed : Fitting(u, d)
  PROVE  NamesInv'
<1>1. All' \subseteq All \cup New
  BY DEF All, Held, By
<1>2. Told' = Told
  BY DEF Told, Handled
<1>3. \A u, j : ToDo(u, j)' = ToDo(u, j)
  BY DEF ToDo
<1>4. \A u, d : Fitting(u, d)' = Fitting(u, d)
  BY <1>3 DEF Fitting
<1>5. ASSUME NEW u \in Users \ missed' PROVE Named(u)'
  <2>1. u \in Users \ missed /\ Named(u) /\ row'[u] = row[u]
    BY DEF NamesInv
  <2>2. \A d \in All' : d \in All \/ Fitting(u, d)'
    BY <1>1, <1>4, <2>1
  <2> QED BY <1>2, <1>3, <2>1, <2>2, NamedKept
<1> QED BY <1>5 DEF NamesInv

LEMMA NothingNew ==
  ASSUME NamesInv, UNCHANGED <<row, outbox, queue, worker>>, missed \subseteq missed',
         \A i \in Ids' : docs'[i] \in All,
         \A x \in Tasks : task'[x] # None => task'[x].doc \in All,
         \A f \in followed' : By("notifications", f[1], f[2], None) \in All
  PROVE  NamesInv'
<1> DEFINE New == {}
<1>1. \A d : d \notin New
  OBVIOUS
<1> HIDE DEF New
<1> QED BY <1>1, TasksNamed

\* Later statements of a plan come after earlier ones.
LEMMA ToDoLater ==
  ASSUME TypeInv, NEW u, NEW i \in Nat, NEW j \in Nat, i <= j, ToDo(u, i)
  PROVE  ToDo(u, j)
<1>1. \A w \in Workers : worker[w] # None => worker[w].step \in Nat
  BY DEF TypeInv, TypeOK
<1>2. \A k \in Nat : k <= i => k <= j
  OBVIOUS
<1> QED BY <1>1, <1>2 DEF ToDo

\* A document with names as they are in MySQL.
LEMMA FreshFits ==
  ASSUME TypeInv, NEW d \in Doc, row[d.user] # Gone, d.name = row[d.user],
         d.other # None => row[d.other] # Gone /\ d.otherName \in {row[d.other], None},
         NEW v \in Users
  PROVE  Fitting(v, d)
<1> SUFFICES ASSUME NEW j \in 1..Len(Plan(row[v])), NEW s, s = Plan(row[v])[j], Hits(s, d, v)
             PROVE  /\ s.op = "set"
                    /\ s.field = "user" => d.name = row[v]
                    /\ s.field = "other" => d.otherName \in {row[v], None}
  BY DEF Fitting, Fits
<1>1. s \in Statement /\ (s.op = "delete" => row[v] = Gone)
  BY PlanParts
<1>2. s.op \in {"set", "delete"} /\ s.field \in {"user", "other", "nobody"}
  BY <1>1 DEF Statement
<1>3. s.field \in {"user", "other"} /\ d[s.field] = v /\ v # None
  BY <1>2, ProfileAssumption DEF Hits
<1>4. CASE s.field = "user"
  BY <1>1, <1>2, <1>3, <1>4
<1>5. CASE s.field = "other"
  BY <1>1, <1>2, <1>3, <1>5
<1> QED BY <1>3, <1>4, <1>5

\* A request or listener that starts writing a document.
LEMMA StartNamed ==
  ASSUME TypeInv, NamesInv, NEW t \in Tasks, NEW kind, NEW step, NEW id, NEW doc,
         Start(t, kind, step, id, doc), followed' \subseteq followed,
         doc \in All \/ \A u \in Users : Fitting(u, doc)
  PROVE  NamesInv'
<1>1. UNCHANGED <<row, outbox, queue, worker, docs, missed>> /\ Ids' = Ids
  BY DEF Start, eventVars, Ids
<1>2. task'[t].doc = doc /\ \A x \in Tasks \ {t} : task'[x] = task[x]
  BY DEF Start, TypeInv, TypeOK
<1>3. \A x \in Tasks : task'[x] # None => task'[x].doc \in All \cup {doc}
  BY <1>2, HeldParts
<1>4. \A i \in Ids' : docs'[i] \in All \cup {doc}
  BY <1>1, HeldParts
<1>5. \A f \in followed' : By("notifications", f[1], f[2], None) \in All \cup {doc}
  BY HeldParts
<1>6. CASE doc \in All
  <2>1. \A d \in All \cup {doc} : d \in All
    BY <1>6
  <2>2. /\ \A i \in Ids' : docs'[i] \in All
        /\ \A x \in Tasks : task'[x] # None => task'[x].doc \in All
        /\ \A f \in followed' : By("notifications", f[1], f[2], None) \in All
    BY <1>3, <1>4, <1>5, <2>1
  <2> QED BY <1>1, <2>2, NothingNew
<1>7. CASE \A u \in Users : Fitting(u, doc)
  <2> DEFINE New == {doc}
  <2>1. \A d \in New : \A u \in Users \ missed : Fitting(u, d)
    BY <1>7
  <2>2. /\ \A i \in Ids' : docs'[i] \in All \cup New
        /\ \A x \in Tasks : task'[x] # None => task'[x].doc \in All \cup New
        /\ \A f \in followed' : By("notifications", f[1], f[2], None) \in All \cup New
    BY <1>3, <1>4, <1>5
  <2> HIDE DEF New
  <2> QED BY <1>1, <2>1, <2>2, TasksNamed
<1> QED BY <1>6, <1>7

LEMMA BeginNamed ==
  ASSUME TypeInv, NamesInv, NEW t \in Tasks, NEW u \in Users,
         CreatePost(t, u) \/ CreateComment(t, u) \/ \E v \in Users : FollowUser(t, u, v)
  PROVE  NamesInv'
<1>0. "posts" \in Colls /\ "comments" \in Colls /\ "user_follows" \in Colls
      /\ None \in Users \cup {None} /\ None \in Names \cup {Gone, None}
      /\ \A v \in Users : row[v] \in Names \cup {Gone}
  BY DEF Colls, TypeInv, TypeOK
<1>1. ASSUME NEW c \in {"posts", "comments"}, NEW kind, NEW step, row[u] # Gone,
             Start(t, kind, step, NewId, By(c, u, None, None)), followed' = followed
      PROVE  NamesInv'
  <2> DEFINE d == By(c, u, None, None)
  <2>0. c \in Colls
    BY <1>0
  <2>1. d \in Doc /\ d.user = u /\ d.name = row[u] /\ d.other = None
    BY <1>0, <2>0, ByTypes
  <2>2. Start(t, kind, step, NewId, d) /\ followed' \subseteq followed
    BY <1>1
  <2> HIDE DEF d
  <2>3. \A v \in Users : Fitting(v, d)
    BY <1>1, <2>1, FreshFits
  <2> QED BY <2>2, <2>3, StartNamed
<1>2. ASSUME NEW v \in Users, FollowUser(t, u, v) PROVE NamesInv'
  <2> DEFINE d == By("user_follows", u, v, row[v])
  <2>1. d \in Doc /\ d.user = u /\ d.name = row[u] /\ d.other = v /\ d.otherName = row[v]
    BY <1>0, ByTypes
  <2>2. Start(t, "follow", "save", NewId, d) /\ followed' \subseteq followed
        /\ row[u] # Gone /\ row[v] # Gone
    BY <1>2 DEF FollowUser
  <2> HIDE DEF d
  <2>3. \A x \in Users : Fitting(x, d)
    BY <2>1, <2>2, FreshFits
  <2> QED BY <2>2, <2>3, StartNamed
<1>3. CASE CreatePost(t, u)
  BY <1>1, <1>3 DEF CreatePost
<1>4. CASE CreateComment(t, u)
  BY <1>1, <1>4 DEF CreateComment
<1> QED BY <1>2, <1>3, <1>4

LEMMA AgainNamed ==
  ASSUME TypeInv, NamesInv, NEW t \in Tasks,
         (\E i \in Ids : UpdatePost(t, i)) \/ \E f \in followed : HandleFollow(t, f)
  PROVE  NamesInv'
<1>1. ASSUME NEW i \in Ids, UpdatePost(t, i) PROVE NamesInv'
  <2>1. Start(t, "edit", "save", i, docs[i]) /\ followed' \subseteq followed
    BY <1>1 DEF UpdatePost
  <2>2. docs[i] \in All
    BY HeldParts
  <2> QED BY <2>1, <2>2, StartNamed
<1>2. ASSUME NEW f \in followed, HandleFollow(t, f) PROVE NamesInv'
  <2>1. followed' \subseteq followed /\ By("notifications", f[1], f[2], None) \in All
    BY <1>2, HeldParts DEF HandleFollow
  <2>2. CASE row[f[1]] = Gone
    <3>1. UNCHANGED <<row, outbox, queue, worker, docs, task, missed>> /\ Ids' = Ids
      BY <1>2, <2>2 DEF HandleFollow, eventVars, historyVars, Ids
    <3>2. /\ \A i \in Ids' : docs'[i] \in All
          /\ \A x \in Tasks : task'[x] # None => task'[x].doc \in All
          /\ \A g \in followed' : By("notifications", g[1], g[2], None) \in All
      BY <2>1, <3>1, HeldParts
    <3> QED BY <3>1, <3>2, NothingNew
  <2>3. CASE row[f[1]] # Gone
    <3>1. Start(t, "notice", "save", NewId, By("notifications", f[1], f[2], None))
      BY <1>2, <2>3 DEF HandleFollow
    <3> QED BY <2>1, <3>1, StartNamed
  <2> QED BY <2>2, <2>3
<1> QED BY <1>1, <1>2

\* The comment that is answered has its author's name, or the statement for answers
\* comes after the one that corrects it.
LEMMA FindParentNamed ==
  ASSUME TypeInv, NamesInv, NEW t \in Tasks, FindParent(t)
  PROVE  NamesInv'
<1>1. /\ task[t] # None /\ task[t] \in Task /\ task[t].doc \in Doc
      /\ task[t].doc.coll = "comments" /\ task[t].step = "parent"
  BY ParentParts
<1> DEFINE o == task[t].doc
<1>2. PICK d \in Doc : /\ Shaped(d) /\ d.coll = "comments" /\ d.user = o.user /\ d.name = o.name
                       /\ \/ d = o
                          \/ \E i \in Ids : /\ docs[i].coll = "comments"
                                            /\ d.other = docs[i].user
                                            /\ d.otherName = docs[i].name
                       /\ task' = [task EXCEPT ![t] = Onward(task[t], "save", d)]
  BY ParentParts
<1>3. o \in All
  BY <1>1, HeldParts
<1> HIDE DEF o
<1>4. UNCHANGED <<row, outbox, queue, worker, docs, followed, missed>> /\ Ids' = Ids
  BY DEF FindParent, eventVars, historyVars, Ids
<1>5. task'[t].doc = d /\ \A x \in Tasks \ {t} : task'[x] = task[x]
  BY <1>2 DEF Onward, TypeInv, TypeOK
<1>6. ASSUME NEW u \in Users \ missed PROVE Fitting(u, d)
  <2> SUFFICES ASSUME NEW j \in 1..Len(Plan(row[u])), NEW s, s = Plan(row[u])[j], Hits(s, d, u),
                      ~ToDo(u, j)
               PROVE  /\ s.op = "set"
                      /\ s.field = "user" => d.name = row[u]
                      /\ s.field = "other" => d.otherName \in {row[u], None}
    BY DEF Fitting, Fits
  <2>1. /\ s \in Statement /\ (s = Set("comments", "other") => j > 2)
        /\ s.op = "delete" => s.coll # "comments"
        /\ Plan(row[u])[2] = Set("comments", "user")
    BY PlanParts
  <2>2. s.op \in {"set", "delete"} /\ s.field \in {"user", "other", "nobody"} /\ s.coll = "comments"
    BY <1>2, <2>1 DEF Statement, Hits
  <2>3. s.op = "set" /\ s.field \in {"user", "other"}
    BY <2>1, <2>2 DEF Hits
  <2>4. CASE d = o
    BY <1>3, <2>4, <2>3 DEF NamesInv, Named, Fitting, Fits
  <2>5. CASE s.field = "user"
    <3>1. Hits(s, o, u)
      BY <1>1, <1>2, <2>2, <2>5 DEF Hits, o
    <3>2. Fits(s, o, u, row[u])
      BY <1>3 DEF NamesInv, Named, Fitting
    <3> QED BY <1>2, <2>3, <2>5, <3>1, <3>2 DEF Fits
  <2>6. ASSUME NEW i \in Ids, docs[i].coll = "comments", d.other = docs[i].user,
               d.otherName = docs[i].name, s.field = "other"
        PROVE  d.otherName = row[u]
    <3>1. docs[i].user = u
      BY <2>6 DEF Hits
    <3>2. j > 2
      <4>1. s = Set("comments", "other")
        BY <2>1, <2>2, <2>3, <2>6 DEF Statement, Set
      <4> QED BY <2>1, <4>1
    <3>3. ~ToDo(u, 2)
      <4>1. j \in Nat /\ 2 <= j
        BY <3>2, PlanLength
      <4> QED BY <4>1, ToDoLater
    <3>4. 2 \in 1..Len(Plan(row[u]))
      <4>1. Len(Plan(row[u])) \in {6, 8}
        BY PlanLength
      <4>2. \A m \in {6, 8} : 2 \in 1..m
        OBVIOUS
      <4> QED BY <4>1, <4>2
    <3>5. Fits(Set("comments", "user"), docs[i], u, row[u])
      BY <2>1, <3>3, <3>4, HeldParts DEF NamesInv, Named, Fitting
    <3>6. Hits(Set("comments", "user"), docs[i], u)
      BY <2>6, <3>1 DEF Hits, Set
    <3>7. Set("comments", "user").field = "user"
      BY DEF Set
    <3>8. docs[i].name = row[u]
      BY <3>5, <3>6, <3>7 DEF Fits
    <3> QED BY <2>6, <3>8
  <2> QED BY <1>2, <2>3, <2>4, <2>5, <2>6
<1>7. /\ \A i \in Ids' : docs'[i] \in All \cup {d}
      /\ \A x \in Tasks : task'[x] # None => task'[x].doc \in All \cup {d}
      /\ \A f \in followed' : By("notifications", f[1], f[2], None) \in All \cup {d}
  BY <1>4, <1>5, HeldParts
<1> DEFINE New == {d}
<1>8. \A x \in New : \A u \in Users \ missed : Fitting(u, x)
  BY <1>6
<1>9. /\ \A i \in Ids' : docs'[i] \in All \cup New
      /\ \A x \in Tasks : task'[x] # None => task'[x].doc \in All \cup New
      /\ \A f \in followed' : By("notifications", f[1], f[2], None) \in All \cup New
  BY <1>7
<1> HIDE DEF New
<1> QED BY <1>4, <1>8, <1>9, TasksNamed

\* The statement that removes notifications comes after the one that removes relations.
LEMMA PublishFollowNamed ==
  ASSUME TypeInv, NamesInv, NEW t \in Tasks, PublishFollow(t)
  PROVE  NamesInv'
<1> DEFINE d == task[t].doc
           n == By("notifications", d.user, d.other, None)
<1>1. /\ task[t] # None /\ task[t] \in Task /\ task' = [task EXCEPT ![t] = None]
      /\ followed' = followed \cup {<<d.user, d.other>>}
  BY DEF PublishFollow, TypeInv, TypeOK
<1>2. d \in Doc /\ d \in All /\ d.coll = "user_follows" /\ Shaped(d)
  BY <1>1, TaskParts, HeldParts DEF PublishFollow, TypeInv, TasksOK, TaskOK, CollOf
<1>3. d.user \in Users /\ d.other \in Users
  BY <1>2, DocParts DEF Shaped
<1>4. n.coll = "notifications" /\ n.user = d.user /\ n.other = d.other /\ n.name = row[d.user]
  BY DEF By
<1> DEFINE New == {n}
<1>5. UNCHANGED <<row, outbox, queue, worker, docs, missed>> /\ Ids' = Ids
  BY DEF PublishFollow, eventVars, historyVars, Ids
<1>6. \A x \in Tasks : task'[x] # None => task'[x] = task[x]
  BY <1>1 DEF TypeInv, TypeOK
<1>7. \A f \in followed' : By("notifications", f[1], f[2], None) \in All \cup New
  BY <1>1, HeldParts
<1> HIDE DEF d, n
<1>8. ASSUME NEW u \in Users \ missed PROVE Fitting(u, n)
  <2> SUFFICES ASSUME NEW j \in 1..Len(Plan(row[u])), NEW s, s = Plan(row[u])[j], Hits(s, n, u),
                      ~ToDo(u, j)
               PROVE  /\ s.op = "set"
                      /\ s.field = "user" => n.name = row[u]
                      /\ s.field = "other" => n.otherName \in {row[u], None}
    BY DEF Fitting, Fits
  <2>1. s \in Statement /\ (s.op = "delete" => row[u] = Gone)
        /\ (s.op = "set" => s.field \in {"user", "other"} /\ (s.field = "other" => s.coll \in {"comments", "user_follows"}))
    BY PlanParts
  <2>2. s.op \in {"set", "delete"} /\ s.coll = "notifications"
    BY <1>4, <2>1 DEF Statement, Hits
  <2>3. s.op # "delete"
    <3> SUFFICES ASSUME s.op = "delete" PROVE FALSE
      OBVIOUS
    <3>1. row[u] = Gone /\ Plan(row[u]) = DeleteStatements
      BY <2>1 DEF Plan
    <3>2. j \in {1, 2, 3, 4, 5, 6, 7, 8}
      BY <3>1, DeletePlan
    <3>3. j = 8 /\ s = Remove("notifications", "other")
      BY <2>2, <3>1, <3>2, DeletePlan DEF Set, Remove, Hits
    <3>4. d.other = u
      BY <1>4, <3>3 DEF Hits, Remove
    <3>5. ~ToDo(u, 5)
      <4>1. 5 <= 8 /\ 5 \in Nat /\ 8 \in Nat
        OBVIOUS
      <4> QED BY <3>3, <4>1, ToDoLater
    <3>6. Fits(Remove("user_follows", "other"), d, u, row[u])
      <4>1. 5 \in 1..Len(Plan(row[u])) /\ Plan(row[u])[5] = Remove("user_follows", "other")
        BY <3>1, DeletePlan
      <4> QED BY <1>2, <3>5, <4>1 DEF NamesInv, Named, Fitting
    <3>7. Hits(Remove("user_follows", "other"), d, u)
      BY <1>2, <3>4 DEF Hits, Remove
    <3> QED BY <3>6, <3>7 DEF Fits, Remove
  <2>4. s.op = "set" /\ s.field = "user"
    BY <2>1, <2>2, <2>3
  <2> QED BY <1>4, <2>4 DEF Hits
<1>9. \A x \in New : \A u \in Users \ missed : Fitting(u, x)
  BY <1>8
<1>10. /\ \A i \in Ids' : docs'[i] \in All \cup New
       /\ \A x \in Tasks : task'[x] # None => task'[x].doc \in All \cup New
  BY <1>5, <1>6, HeldParts
<1> HIDE DEF New
<1> QED BY <1>5, <1>7, <1>9, <1>10, TasksNamed

LEMMA TasksEndNamed ==
  ASSUME TypeInv, NamesInv, NEW t \in Tasks, Save(t) \/ Reread(t) \/ Index(t) \/ TaskFails(t)
  PROVE  NamesInv'
<1>1. CASE Index(t) \/ TaskFails(t)
  <2>1. UNCHANGED <<row, outbox, queue, worker, docs, followed>> /\ missed \subseteq missed'
        /\ task' = [task EXCEPT ![t] = None] /\ Ids' = Ids
    BY <1>1 DEF Index, TaskFails, Fault, eventVars, historyVars, Ids
  <2>2. \A x \in Tasks : task'[x] # None => task'[x] = task[x]
    BY <2>1 DEF TypeInv, TypeOK
  <2>3. /\ \A i \in Ids' : docs'[i] \in All
        /\ \A x \in Tasks : task'[x] # None => task'[x].doc \in All
        /\ \A f \in followed' : By("notifications", f[1], f[2], None) \in All
    BY <2>1, <2>2, HeldParts
  <2> QED BY <2>1, <2>3, NothingNew
<1>2. CASE Reread(t)
  <2> DEFINE d == docs[task[t].id]
  <2>1. UNCHANGED <<row, outbox, queue, worker, docs, followed, missed>> /\ Ids' = Ids
        /\ task' = [task EXCEPT ![t] = Onward(task[t], "index", d)]
    BY <1>2 DEF Reread, eventVars, historyVars, Ids
  <2>2. d \in All
    BY <1>2, PostTaskParts, HeldParts DEF Reread
  <2> HIDE DEF d
  <2>3. task'[t].doc = d /\ \A x \in Tasks \ {t} : task'[x] = task[x]
    BY <2>1 DEF Onward, TypeInv, TypeOK
  <2>4. /\ \A i \in Ids' : docs'[i] \in All
        /\ \A x \in Tasks : task'[x] # None => task'[x].doc \in All
        /\ \A f \in followed' : By("notifications", f[1], f[2], None) \in All
    BY <2>1, <2>2, <2>3, HeldParts
  <2> QED BY <2>1, <2>4, NothingNew
<1>3. CASE Save(t)
  <2> DEFINE d == task[t].doc
  <2>1. /\ task[t] # None /\ task[t] \in Task
        /\ UNCHANGED <<row, es, eventVars, followed, historyVars, changes, writes, faults>>
        /\ \/ task' = [task EXCEPT ![t] = None] /\ UNCHANGED docs
           \/ \E p \in NextIds : SavedAt(t, p)
    BY <1>3, SaveParts
  <2>2. UNCHANGED <<row, outbox, queue, worker, followed, missed>>
    BY <2>1 DEF eventVars, historyVars
  <2>3. d \in All
    BY <2>1, HeldParts
  <2>4. \A i \in Ids' : docs'[i] \in All
    BY <2>1, <2>3, HeldParts DEF SavedAt, Ids
  <2>5. \A x \in Tasks : task'[x] # None => task'[x].doc \in All
    <3>1. \A s : Onward(task[t], s, d).doc = d
      BY DEF Onward
    <3>2. \/ task' = [task EXCEPT ![t] = None]
          \/ \E s : task' = [task EXCEPT ![t] = Onward(task[t], s, d)]
      BY <2>1 DEF SavedAt
    <3> HIDE DEF d
    <3>3. \A x \in Tasks : task'[x] # None => task'[x] = task[x] \/ task'[x].doc = d
      BY <3>1, <3>2 DEF TypeInv, TypeOK
    <3> QED BY <2>3, <3>3, HeldParts
  <2>6. \A f \in followed' : By("notifications", f[1], f[2], None) \in All
    BY <2>2, HeldParts
  <2> HIDE DEF d
  <2> QED BY <2>2, <2>4, <2>5, <2>6, NothingNew
<1> QED BY <1>1, <1>2, <1>3

LEMMA OthersNamed ==
  ASSUME TypeInv, NamesInv,
         \/ \E u, v \in Users : UnfollowUser(u, v)
         \/ \E e \in esQueue : RenameIndexed(e) \/ RenameIndexedFails(e)
  PROVE  NamesInv'
<1>1. /\ UNCHANGED <<row, outbox, queue, worker, followed, task>> /\ missed \subseteq missed'
      /\ \A i \in Ids' : i \in Ids /\ docs'[i] = docs[i]
  BY DEF UnfollowUser, RenameIndexed, RenameIndexedFails, Fault, eventVars, historyVars, Ids, Restrict
<1>2. /\ \A i \in Ids' : docs'[i] \in All
      /\ \A x \in Tasks : task'[x] # None => task'[x].doc \in All
      /\ \A f \in followed' : By("notifications", f[1], f[2], None) \in All
  BY <1>1, HeldParts
<1> QED BY <1>1, <1>2, NothingNew

\* Steps of the queues.
LEMMA EventsNamed ==
  ASSUME NamesInv, UNCHANGED <<row, docs, task, followed>>, missed \subseteq missed',
         \A u \in Users \ missed' : /\ \A e \in Told' : e.user = u => e \in Told
                                    /\ \A j \in Nat \ {0} : ToDo(u, j) => ToDo(u, j)'
  PROVE  NamesInv'
<1>1. All' = All
  BY DEF All, Held, By, Ids
<1>2. ASSUME NEW u \in Users \ missed' PROVE Named(u)'
  <2>1. u \in Users \ missed /\ Named(u) /\ row'[u] = row[u]
    BY DEF NamesInv
  <2> QED BY <1>1, <1>2, <2>1, NamedKept
<1> QED BY <1>2 DEF NamesInv

LEMMA QueueNamed ==
  ASSUME TypeInv, NamesInv,
         \/ \E e \in outbox : Publish(e) \/ PublishFails(e)
         \/ \E w \in Workers : (\E e \in queue : Take(w, e)) \/ StatementFails(w) \/ Dies(w)
  PROVE  NamesInv'
<1>1. ASSUME NEW e \in outbox, Publish(e) PROVE NamesInv'
  <2>1. /\ UNCHANGED <<row, docs, task, followed, missed, worker>>
        /\ outbox' = outbox \ {e}
        /\ queue' = queue \cup {x \in {e} : "user" \in Routes[Class(e)]}
    BY <1>1 DEF Publish, historyVars
  <2>2. queue' = queue \cup {e}
    <3>1. e \in Event
      BY DEF TypeInv, TypeOK
    <3>2. "user" \in Routes[Class(e)]
      BY <3>1, UserRoutes
    <3> QED BY <2>1, <3>2
  <2>3. Told' = Told
    BY <2>1, <2>2 DEF Told, Handled
  <2>4. \A u, j : ToDo(u, j) => ToDo(u, j)'
    BY <2>1, <2>2 DEF ToDo
  <2> QED BY <2>1, <2>3, <2>4, EventsNamed
<1>2. ASSUME NEW e \in outbox, PublishFails(e) PROVE NamesInv'
  <2>1. /\ UNCHANGED <<row, docs, task, followed, worker, queue>> /\ missed' = missed \cup {e.user}
        /\ outbox' = outbox \ {e}
    BY <1>2 DEF PublishFails, Fault
  <2>2. Told' \subseteq Told
    BY <2>1 DEF Told, Handled
  <2>3. \A u \in Users \ missed' : \A j : ToDo(u, j) => ToDo(u, j)'
    BY <2>1 DEF ToDo
  <2> QED BY <2>1, <2>2, <2>3, EventsNamed
<1>3. ASSUME NEW w \in Workers, NEW e \in queue, Take(w, e) PROVE NamesInv'
  <2> DEFINE k == [event |-> e, step |-> 1]
  <2>1. /\ UNCHANGED <<row, docs, task, followed, missed, outbox>>
        /\ worker[w] = None /\ queue' = queue \ {e} /\ worker' = [worker EXCEPT ![w] = k]
    BY <1>3 DEF Take, historyVars
  <2>2. k \in [event : Event, step : Nat] /\ k.event = e /\ k.step = 1
    BY DEF TypeInv, TypeOK
  <2>3. k # None
    BY <2>2, ProfileAssumption
  <2> HIDE DEF k
  <2>4. worker'[w] = k /\ \A v \in Workers \ {w} : worker'[v] = worker[v]
    BY <2>1 DEF TypeInv, TypeOK
  <2>5. Told' \subseteq Told
    BY <2>1, <2>2, <2>4 DEF Told, Handled
  <2>6. \A j \in Nat \ {0} : 1 <= j
    OBVIOUS
  <2>7. ASSUME NEW u, NEW j \in Nat \ {0}, ToDo(u, j) PROVE ToDo(u, j)'
    <3>1. CASE \E x \in (outbox \cup queue) \ {e} : x.user = u
      BY <2>1, <3>1 DEF ToDo
    <3>2. CASE e.user = u
      BY <2>2, <2>3, <2>4, <2>6, <3>2 DEF ToDo
    <3>3. CASE \E v \in Workers : worker[v] # None /\ worker[v].event.user = u /\ worker[v].step <= j
      BY <2>1, <2>4, <3>3 DEF ToDo
    <3> QED BY <2>7, <3>1, <3>2, <3>3 DEF ToDo
  <2> QED BY <2>1, <2>5, <2>7, EventsNamed
<1>4. ASSUME NEW w \in Workers, StatementFails(w) PROVE NamesInv'
  <2>1. /\ worker[w] # None /\ Advance(w) /\ missed' = missed \cup {worker[w].event.user}
        /\ UNCHANGED <<row, docs, task, followed, outbox, queue>>
    BY <1>4 DEF StatementFails, Fault
  <2>2. /\ \A v \in Workers \ {w} : worker'[v] = worker[v]
        /\ worker'[w] # None => worker'[w].event = worker[w].event
    BY <2>1, AdvanceParts
  <2>3. Told' \subseteq Told
    BY <2>1, <2>2 DEF Told, Handled
  <2>4. \A u \in Users \ missed' : \A j : ToDo(u, j) => ToDo(u, j)'
    BY <2>1, <2>2 DEF ToDo
  <2> QED BY <2>1, <2>3, <2>4, EventsNamed
<1>5. ASSUME NEW w \in Workers, Dies(w) PROVE NamesInv'
  <2>1. /\ worker[w] # None /\ queue' = queue \cup {worker[w].event}
        /\ worker' = [worker EXCEPT ![w] = None]
        /\ UNCHANGED <<row, docs, task, followed, missed, outbox>>
    BY <1>5 DEF Dies, historyVars
  <2>2. worker'[w] = None /\ \A v \in Workers \ {w} : worker'[v] = worker[v]
    BY <2>1 DEF TypeInv, TypeOK
  <2>3. Told' \subseteq Told
    BY <2>1, <2>2 DEF Told, Handled
  <2>4. \A u, j : ToDo(u, j) => ToDo(u, j)'
    BY <2>1, <2>2 DEF ToDo
  <2> QED BY <2>1, <2>3, <2>4, EventsNamed
<1> QED BY <1>1, <1>2, <1>3, <1>4, <1>5

LEMMA ChangeNamed ==
  ASSUME TypeInv, NamesInv, NEW u \in Users, NEW n \in Names \cup {Gone}, Change(u, n)
  PROVE  NamesInv'
<1> DEFINE e == [user |-> u, name |-> n, at |-> changes + 1]
<1>1. /\ row' = [row EXCEPT ![u] = n] /\ outbox' = outbox \cup {e}
      /\ missed' = IF Pending(u) THEN missed \cup {u} ELSE missed
      /\ UNCHANGED <<docs, queue, esQueue, worker, task, followed>>
  BY DEF Change
<1>2. e.user = u /\ e.name = n
  OBVIOUS
<1> HIDE DEF e
<1>3. row'[u] = n /\ \A v \in Users \ {u} : row'[v] = row[v]
  BY <1>1 DEF TypeInv, TypeOK
<1>4. Told' = Told \cup {e} /\ Ids' = Ids
  BY <1>1 DEF Told, Handled, Ids
<1>5. \A v, j : ToDo(v, j) => ToDo(v, j)'
  BY <1>1 DEF ToDo
<1>6. \A j : ToDo(u, j)'
  BY <1>1, <1>2 DEF ToDo
<1>7. ASSUME NEW v \in Users \ missed', v # u PROVE Named(v)'
  <2>1. v \in Users \ missed /\ Named(v) /\ row'[v] = row[v]
    BY <1>1, <1>3, <1>7 DEF NamesInv
  <2>2. \A x \in Told' : x.user = v => x \in Told
    BY <1>2, <1>4, <1>7
  <2>3. ASSUME NEW d \in All', d \notin All PROVE Fitting(v, d)'
    <3>1. PICK f \in followed : d = By("notifications", f[1], f[2], None)'
      BY <1>1, <1>4, <2>3, HeldParts DEF All, Held
    <3> DEFINE o == By("notifications", f[1], f[2], None)
    <3>2. o \in All
      BY HeldParts
    <3>3. /\ d.coll = "notifications" /\ d.user = f[1] /\ d.other = f[2] /\ d.name = row'[f[1]]
          /\ d.otherName = None
          /\ o.coll = "notifications" /\ o.user = f[1] /\ o.other = f[2] /\ o.name = row[f[1]]
          /\ o.otherName = None
          /\ d = [coll |-> "notifications", user |-> f[1], name |-> row'[f[1]], other |-> f[2],
                  otherName |-> None]
          /\ o = [coll |-> "notifications", user |-> f[1], name |-> row[f[1]], other |-> f[2],
                  otherName |-> None]
      BY <3>1 DEF By
    <3>4. f[1] = u
      <4>1. f[1] \in Users
        BY FollowedParts
      <4> QED BY <1>3, <2>3, <3>2, <3>3, <4>1
    <3> HIDE DEF o
    <3> SUFFICES ASSUME NEW j \in 1..Len(Plan(row[v])), ~ToDo(v, j)', NEW s, s = Plan(row[v])[j],
                        Hits(s, d, v)
                 PROVE  /\ s.op = "set"
                        /\ s.field = "user" => d.name = row[v]
                        /\ s.field = "other" => d.otherName \in {row[v], None}
      BY <2>1 DEF Fitting, Fits, Hits, Plan
    <3>5. s \in Statement
      BY PlanParts
    <3>6. s.field = "other"
      BY <1>7, <3>3, <3>4, <3>5 DEF Statement, Hits
    <3>7. Hits(s, o, v)
      BY <3>3, <3>6 DEF Hits
    <3>8. Fits(s, o, v, row[v])
      BY <1>5, <2>1, <3>2 DEF Named, Fitting
    <3> QED BY <3>3, <3>6, <3>7, <3>8 DEF Fits
  <2> QED BY <1>5, <2>1, <2>2, <2>3, NamedKept
<1>8. ASSUME u \notin missed' PROVE Named(u)'
  <2>1. ~Pending(u)
    BY <1>1, <1>8
  <2>2. \A x \in Told' : x.user = u => x.name = row'[u]
    BY <1>2, <1>3, <1>4, <2>1 DEF Told, Pending
  <2>3. \A d : Fitting(u, d)'
    BY <1>6 DEF Fitting
  <2> QED BY <2>2, <2>3 DEF Named
<1> QED BY <1>7, <1>8 DEF NamesInv

\* A statement keeps what fits already.
LEMMA RunFits ==
  ASSUME TypeInv, NEW w \in Workers, Run(w),
         NEW e, e = worker[w].event, NEW s, s = Plan(e.name)[worker[w].step],
         NEW i \in Ids', NEW u, NEW r, r.field \in {"user", "other", "nobody"},
         u # e.user \/ e.name = row[u], Fits(r, docs[i], u, row[u])
  PROVE  Fits(r, docs'[i], u, row[u])
<1>1. /\ i \in Ids /\ docs[i] \in Doc /\ docs'[i].coll = docs[i].coll
      /\ docs'[i].user = docs[i].user /\ docs'[i].other = docs[i].other
  BY RunParts DEF TypeInv, TypeOK
<1>2. r.field = "nobody" \/ docs'[i][r.field] = docs[i][r.field]
  BY <1>1
<1>3. Hits(r, docs'[i], u) => Hits(r, docs[i], u)
  BY <1>1, <1>2 DEF Hits
<1>4. CASE docs'[i] = docs[i]
  BY <1>4
<1>5. CASE docs'[i] # docs[i]
  <2>1. /\ s.op = "set" /\ Hits(s, docs[i], e.user) /\ docs'[i] = Renamed(s, docs[i], e.name)
        /\ s \in Statement /\ e \in Event
    BY <1>1, <1>5, RunParts
  <2>2. e.name \in Names \cup {Gone}
    BY SMTT(30), <2>1 DEF Event
  <2>3. /\ s.field = "user" => docs'[i].name = e.name /\ docs'[i].otherName = docs[i].otherName
        /\ s.field # "user" => docs'[i].otherName = e.name /\ docs'[i].name = docs[i].name
    BY <1>1, <2>1, <2>2, SetTypes
  <2>4. /\ s.field = "user" => docs[i].user = e.user
        /\ s.field # "user" => s.field = "other" /\ docs[i].other = e.user
    BY <2>1 DEF Hits, Statement
  <2>5. ASSUME Hits(r, docs'[i], u)
        PROVE  /\ r.op = "set"
               /\ r.field = "user" => docs'[i].name = row[u]
               /\ r.field = "other" => docs'[i].otherName \in {row[u], None}
    <3>1. /\ r.op = "set"
          /\ r.field = "user" => docs[i].name = row[u]
          /\ r.field = "other" => docs[i].otherName \in {row[u], None}
      BY <1>3, <2>5 DEF Fits
    <3>2. /\ r.field = "user" => docs[i].user = u
          /\ r.field = "other" => docs[i].other = u
      BY <1>3, <2>5 DEF Hits
    <3> QED BY <2>3, <2>4, <3>1, <3>2
  <2> QED BY <2>5 DEF Fits
<1> QED BY <1>4, <1>5

LEMMA RunNamed ==
  ASSUME TypeInv, NamesInv, NEW w \in Workers, Run(w)
  PROVE  NamesInv'
<1> DEFINE e == worker[w].event
           j == worker[w].step
           s == Plan(e.name)[j]
<1>1. worker[w] # None /\ Advance(w)
      /\ missed' = (IF Overtakes(s, e) THEN missed \cup {e.user} ELSE missed)
      /\ UNCHANGED <<row, outbox, queue, task, followed>>
  BY WorkerParts DEF Run
<1>2. /\ e \in Event /\ e.user \in Users /\ e.name \in Names \cup {Gone}
      /\ j \in 1..Len(Plan(e.name)) /\ Statements(e) = Plan(e.name) /\ e \in Told
  BY <1>1, WorkerParts DEF Told, Handled
<1>3. /\ \A v \in Workers \ {w} : worker'[v] = worker[v]
      /\ worker'[w] # None => worker'[w].event = e /\ worker'[w].step = j + 1
      /\ worker'[w] = None <=> j = Len(Plan(e.name))
  BY <1>1, AdvanceParts
<1>4. Held' = Held
  BY <1>1 DEF Held, By
<1>5. Told' \subseteq Told
  BY <1>1, <1>3 DEF Told, Handled
<1>6. s \in Statement /\ (s.op = "set" => s.field \in {"user", "other"})
  BY <1>2, PlanParts
<1>7. PICK ee, ss : ee = e /\ ss = s
  OBVIOUS
<1>8. /\ ss.op = "set" => \A i \in Ids : docs'[i] = IF Hits(ss, docs[i], ee.user)
                                                  THEN Renamed(ss, docs[i], ee.name) ELSE docs[i]
      /\ ss.op # "set" => /\ Ids' = {i \in Ids : ~Hits(ss, docs[i], ee.user)}
                          /\ \A i \in Ids' : docs'[i] = docs[i]
      /\ \A i \in Ids' : i \in Ids /\ docs[i] \in Doc
      /\ \A i \in Ids' : \A u, r : r.field \in {"user", "other", "nobody"}
            /\ (u # ee.user \/ ee.name = row[u]) /\ Fits(r, docs[i], u, row[u])
              => Fits(r, docs'[i], u, row[u])
  BY <1>7, RunParts, RunFits DEF TypeInv, TypeOK
<1>9. ASSUME NEW u \in Users \ missed' PROVE Named(u)'
  <2>1. u \in Users \ missed /\ Named(u) /\ row'[u] = row[u]
    BY <1>1 DEF NamesInv
  <2>2. \A x \in Told' : x.user = u => x.name = row'[u]
    BY <1>5, <2>1 DEF Named
  <2>3. ASSUME NEW d \in All', NEW k \in 1..Len(Plan(row[u])), ~ToDo(u, k)'
        PROVE  Fits(Plan(row[u])[k], d, u, row[u])
    <3> DEFINE r == Plan(row[u])[k]
    <3>1. r \in Statement
      BY PlanParts
    <3>2. r.field \in {"user", "other", "nobody"}
      BY <3>1 DEF Statement
    <3>3. u = e.user => e.name = row[u]
      BY <1>2, <2>1 DEF Named
    <3>4. CASE ~ToDo(u, k)
      <4>1. \A x \in All : Fits(r, x, u, row[u])
        BY <2>1, <3>4 DEF Named, Fitting
      <4> HIDE DEF r
      <4>2. ASSUME d \in Held PROVE Fits(r, d, u, row[u])
        BY <4>1, <4>2 DEF All
      <4>3. ASSUME NEW i \in Ids', d = docs'[i] PROVE Fits(r, d, u, row[u])
        BY <1>7, <1>8, <3>2, <3>3, <4>1, <4>3 DEF All
      <4>4. Fits(r, d, u, row[u])
        BY <1>4, <4>2, <4>3 DEF All
      <4> QED BY <4>4 DEF r
    <3>5. CASE ToDo(u, k)
      <4>1. u = e.user /\ k = j
        <5>1. j <= k /\ e.user = u /\ (worker'[w] # None => ~(j + 1 <= k))
          BY <1>1, <1>3, <2>3, <3>5 DEF ToDo
        <5>2. Len(Plan(row[u])) \in {6, 8} /\ Len(Plan(e.name)) \in {6, 8} /\ e.name = row[u]
          BY <3>3, <5>1, PlanLength
        <5> DEFINE m == Len(Plan(row[u]))
        <5>3. m \in Nat /\ j \in 1..m /\ k \in 1..m /\ (worker'[w] = None <=> j = m)
          BY <1>2, <1>3, <5>2
        <5> HIDE DEF m, j
        <5>4. j = k
          BY <5>1, <5>3
        <5> QED BY <5>1, <5>4
      <4>2. r = s /\ e.name = row[u]
        BY SMTT(30), <3>3, <4>1
      <4>3. ~Overtakes(s, e)
        BY SMTT(30), <1>1, <4>1
      <4>4. ~Overtakes(ss, ee) /\ ss \in Statement /\ (ss.op = "set" => ss.field \in {"user", "other"})
            /\ ss.op \in {"set", "delete"} /\ ee.user = u /\ ee.name = row[u] /\ r = ss
        BY <1>6, <1>7, <4>1, <4>2, <4>3 DEF Statement
      <4> HIDE DEF r, s, e, j
      <4>5. \A x \in Doc : ss.op = "set" =>
               LET y == Renamed(ss, x, row[u])
               IN  /\ ss.field = "user" => y.name = row[u]
                   /\ ss.field = "other" => y.otherName = row[u]
        BY <1>2, <1>7, <4>4, SetTypes
      <4>6. ASSUME d \in Held PROVE Fits(ss, d, u, row[u])
        <5>1. Hits(ss, d, u) => ss.op # "delete" /\ d = Renamed(ss, d, row[u])
          BY <4>4, <4>6 DEF Overtakes
        <5>2. d \in Doc
          <6>1. \A x \in Tasks : task[x] # None => task[x].doc \in Doc
            BY TaskParts DEF TypeInv, TypeOK
          <6>2. \A f \in followed : By("notifications", f[1], f[2], None) \in Doc
            BY FollowedParts, ByTypes DEF Colls
          <6> QED BY <4>6, <6>1, <6>2 DEF Held
        <5> QED BY <4>4, <4>5, <5>1, <5>2 DEF Fits
      <4>7. ASSUME NEW i \in Ids', d = docs'[i] PROVE Fits(ss, d, u, row[u])
        <5>1. i \in Ids /\ docs[i] \in Doc
          BY <1>8
        <5>2. CASE ss.op = "set" /\ Hits(ss, docs[i], u)
          BY <1>8, <4>4, <4>5, <4>7, <5>1, <5>2 DEF Fits
        <5>3. CASE ~Hits(ss, docs[i], u)
          BY <1>8, <4>4, <4>7, <5>1, <5>3 DEF Fits
        <5>4. CASE ss.op # "set"
          BY <1>8, <4>4, <4>7, <5>1, <5>3, <5>4
        <5> QED BY <5>2, <5>3, <5>4
      <4>8. Fits(ss, d, u, row[u])
        BY <1>4, <4>6, <4>7 DEF All
      <4> QED BY <4>4, <4>8 DEF r
    <3> QED BY <3>4, <3>5
  <2>4. \A d \in All' : Fitting(u, d)'
    BY <2>1, <2>3 DEF Fitting, Fits, Hits, Plan
  <2> QED BY <2>2, <2>4 DEF Named
<1> QED BY <1>9 DEF NamesInv

LEMMA InitNames == Init => NamesInv
<1> SUFFICES ASSUME Init PROVE NamesInv
  OBVIOUS
<1>1. TypeInv
  BY InitTypeInv
<1>2. docs = OldDocs /\ Ids = 1..Len(OldDocs) /\ \A u \in Users : row[u] = First
  BY ProfileAssumption DEF Init, Ids
<1>3. Told = {} /\ Held = {}
  BY DEF Init, Told, Handled, Held
<1>4. ASSUME NEW u \in Users, NEW d \in All PROVE Fitting(u, d)
  <2>1. d \in Doc /\ d.name = First /\ d.otherName \in {First, None} /\ d.user \in Users
        /\ d.other \in Users \cup {None}
    BY <1>2, <1>3, OldDocsFit, ProfileAssumption, DocParts DEF All
  <2> QED BY <1>1, <1>2, <2>1, FreshFits, ProfileAssumption
<1> QED BY <1>3, <1>4 DEF NamesInv, Named

LEMMA NextNames ==
  ASSUME TypeInv, NamesInv, [Next]_vars
  PROVE  NamesInv'
<1>1. ASSUME NEW u \in Changing, Rename(u) \/ DeleteUser(u) PROVE NamesInv'
  BY <1>1, ChangeNamed, ProfileAssumption DEF Rename, DeleteUser
<1>2. ASSUME NEW w \in Workers,
             (\E e \in queue : Take(w, e)) \/ Run(w) \/ StatementFails(w) \/ Dies(w)
      PROVE  NamesInv'
  BY <1>2, QueueNamed, RunNamed
<1>3. ASSUME NEW t \in Tasks,
             \/ \E u \in Users : \/ CreatePost(t, u) \/ CreateComment(t, u)
                                 \/ \E v \in Users : FollowUser(t, u, v)
             \/ \E i \in Ids : UpdatePost(t, i)
             \/ \E f \in followed : HandleFollow(t, f)
             \/ FindParent(t) \/ Save(t) \/ PublishFollow(t) \/ Reread(t) \/ Index(t)
             \/ TaskFails(t)
      PROVE  NamesInv'
  BY <1>3, BeginNamed, AgainNamed, FindParentNamed, PublishFollowNamed, TasksEndNamed
<1>4. CASE UNCHANGED vars
  <2>1. /\ UNCHANGED <<row, outbox, queue, worker, followed, task>> /\ missed \subseteq missed'
        /\ \A i \in Ids' : i \in Ids /\ docs'[i] = docs[i]
    BY <1>4 DEF vars, eventVars, historyVars, Ids
  <2>2. /\ \A i \in Ids' : docs'[i] \in All
        /\ \A x \in Tasks : task'[x] # None => task'[x].doc \in All
        /\ \A f \in followed' : By("notifications", f[1], f[2], None) \in All
    BY <2>1, HeldParts
  <2> QED BY <2>1, <2>2, NothingNew
<1> QED BY <1>1, <1>2, <1>3, <1>4, QueueNamed, OthersNamed DEF Next
-----------------------------------------------------------------------------
(* When all is handled. *)

LEMMA QuietFits ==
  ASSUME NamesInv, Quiet, NEW u \in Users \ missed, NEW j \in 1..Len(Plan(row[u])), NEW i \in Ids
  PROVE  Fits(Plan(row[u])[j], docs[i], u, row[u])
<1>1. ~ToDo(u, j)
  BY DEF Quiet, ToDo
<1> QED BY <1>1, HeldParts DEF NamesInv, Named, Fitting

\* What is left of a deleted user.
LEMMA QuietGone ==
  ASSUME TypeInv, NamesInv, Quiet, NEW u \in Users \ missed, row[u] = Gone, NEW i \in Ids
  PROVE  /\ docs[i].coll = "user_follows" => docs[i].user # u /\ docs[i].other # u
         /\ docs[i].coll = "post_likes" => docs[i].user # u /\ docs[i].other # u
         /\ docs[i].coll = "notifications" => docs[i].other # u
<1>1. Plan(row[u]) = DeleteStatements
  BY DEF Plan
<1>2. /\ Fits(Remove("user_follows", "user"), docs[i], u, row[u])
      /\ Fits(Remove("user_follows", "other"), docs[i], u, row[u])
      /\ Fits(Remove("post_likes", "user"), docs[i], u, row[u])
      /\ Fits(Remove("notifications", "other"), docs[i], u, row[u])
  <2>1. 4 \in 1..8 /\ 5 \in 1..8 /\ 6 \in 1..8 /\ 8 \in 1..8
    OBVIOUS
  <2> QED BY <1>1, <2>1, DeletePlan, QuietFits
<1>3. \A c, f : Fits(Remove(c, f), docs[i], u, row[u]) => ~Hits(Remove(c, f), docs[i], u)
  BY DEF Fits, Remove
<1>4. docs[i].coll = "post_likes" => docs[i].other = None
  BY DEF TypeInv, DocsOK, Shaped
<1> QED BY <1>2, <1>3, <1>4, ProfileAssumption DEF Hits, Remove

\* The statement for a copy of a name.
LEMMA QuietUser ==
  ASSUME TypeInv, NamesInv, Quiet, NEW i \in Ids, docs[i].user \notin missed,
         ~(docs[i].coll = "notifications" /\ row[docs[i].user] = Gone)
  PROVE  docs[i].coll = "post_likes" \/ docs[i].name = row[docs[i].user]
<1> DEFINE d == docs[i]
           u == d.user
<1>1. d \in Doc /\ u \in Users \ missed /\ d.coll \in Colls
  BY DocParts DEF TypeInv, TypeOK
<1>2. \A c : Fits(Set(c, "user"), d, u, row[u]) /\ d.coll = c => d.name = row[u]
  BY DEF Fits, Hits, Set
<1>3. Fits(Set("posts", "user"), d, u, row[u]) /\ Fits(Set("comments", "user"), d, u, row[u])
  <2>1. \A m \in {6, 8} : 1 \in 1..m /\ 2 \in 1..m
    OBVIOUS
  <2>2. 1 \in 1..Len(Plan(row[u])) /\ 2 \in 1..Len(Plan(row[u]))
    BY <2>1, PlanLength
  <2>3. Plan(row[u])[1] = Set("posts", "user") /\ Plan(row[u])[2] = Set("comments", "user")
    BY <2>2, PlanParts
  <2> QED BY <1>1, <2>2, <2>3, QuietFits
<1>4. CASE row[u] = Gone
  <2>1. d.coll # "user_follows" /\ d.coll # "notifications"
    BY <1>1, <1>4, QuietGone
  <2> QED BY <1>1, <1>2, <1>3, <2>1 DEF Colls
<1>5. CASE row[u] # Gone
  <2>1. Plan(row[u]) = UpdateStatements
    BY <1>5 DEF Plan
  <2>2. /\ Fits(Set("user_follows", "user"), d, u, row[u])
        /\ Fits(Set("notifications", "user"), d, u, row[u])
    <3>1. 3 \in 1..6 /\ 6 \in 1..6
      OBVIOUS
    <3> QED BY <1>1, <2>1, <3>1, UpdatePlan, QuietFits
  <2> QED BY <1>1, <1>2, <1>3, <2>2 DEF Colls
<1> QED BY <1>4, <1>5

LEMMA QuietOther ==
  ASSUME TypeInv, NamesInv, Quiet, NEW i \in Ids, docs[i].otherName # None,
         docs[i].other \notin missed
  PROVE  docs[i].otherName = row[docs[i].other]
<1> DEFINE d == docs[i]
           u == d.other
<1>1. d \in Doc /\ u \in Users \ missed /\ d.coll \in {"comments", "user_follows"}
  BY DocParts DEF TypeInv, TypeOK, DocsOK, Shaped
<1>2. \A c : Fits(Set(c, "other"), d, u, row[u]) /\ d.coll = c => d.otherName = row[u]
  BY DEF Fits, Hits, Set
<1>3. CASE row[u] = Gone
  <2>1. Plan(row[u]) = DeleteStatements
    BY <1>3 DEF Plan
  <2>2. Fits(Set("comments", "other"), d, u, row[u])
    <3>1. 3 \in 1..8
      OBVIOUS
    <3> QED BY <1>1, <2>1, <3>1, DeletePlan, QuietFits
  <2>3. d.coll # "user_follows"
    BY <1>1, <1>3, QuietGone
  <2> QED BY <1>1, <1>2, <2>2, <2>3
<1>4. CASE row[u] # Gone
  <2>1. Plan(row[u]) = UpdateStatements
    BY <1>4 DEF Plan
  <2>2. /\ Fits(Set("comments", "other"), d, u, row[u])
        /\ Fits(Set("user_follows", "other"), d, u, row[u])
    <3>1. 4 \in 1..6 /\ 5 \in 1..6
      OBVIOUS
    <3> QED BY <1>1, <2>1, <3>1, UpdatePlan, QuietFits
  <2> QED BY <1>1, <1>2, <2>2
<1> QED BY <1>3, <1>4

LEMMA NamesInvHolds == Spec => []NamesInv
<1>1. TypeInv /\ NamesInv /\ [Next]_vars => NamesInv'
  BY NextNames
<1> QED BY InitNames, TypeInvHolds, <1>1, PTL DEF Spec

\* The types of names, documents, tasks and events; a worker's statement is one of its
\* event's plan, and a task inserts a document under an id of its own.
THEOREM ProfileTypes == Spec => []TypeOK
<1>1. TypeInv => TypeOK
  BY DEF TypeInv
<1> QED BY <1>1, TypeInvHolds, PTL

\* When all is handled, every copy of a name in MongoDB is the one in MySQL: of a user
\* whom nothing overlapped, a statement is still to come for each copy that differs
\* (handleUserUpdate, handleUserDelete).
THEOREM NamesAreCopied == Spec => []NamesSettle
<1>1. TypeInv /\ NamesInv => NamesSettle
  BY QuietUser, QuietOther DEF NamesSettle
<1> QED BY <1>1, TypeInvHolds, NamesInvHolds, PTL

\* Deleted users are in no relation, have nothing private and no notification waits
\* for them, once all is handled.
THEOREM DeletedAreGone == Spec => []DeletedLeaveNothing
<1>1. TypeInv /\ NamesInv => DeletedLeaveNothing
  BY QuietGone DEF DeletedLeaveNothing
<1> QED BY <1>1, TypeInvHolds, NamesInvHolds, PTL
-----------------------------------------------------------------------------
(* Followers. *)

\* At first whoever is followed has a notification that says so.
LEMMA InitFollow == Init => FollowInv
<1> SUFFICES ASSUME Init PROVE FollowInv
  OBVIOUS
<1>1. docs = OldDocs /\ Ids = 1..Len(OldDocs)
  BY ProfileAssumption DEF Init, Ids
<1>2. ASSUME NEW u \in Users, NEW v \in Users, Relation("user_follows", u, v) # {}
      PROVE  Relation("notifications", u, v) # {}
  <2>1. PICK i \in Ids : docs[i].coll = "user_follows" /\ docs[i].user = u /\ docs[i].other = v
    BY <1>2 DEF Relation
  <2>2. PICK k \in Ids : docs[k].coll = "notifications" /\ docs[k].user = u /\ docs[k].other = v
    BY <1>1, <2>1, OldDocsFit
  <2> QED BY <2>2 DEF Relation
<1> QED BY <1>2 DEF FollowInv, Telling

\* Steps that add no relation and take nothing away that tells of one.
LEMMA FollowKept ==
  ASSUME FollowInv, missed \subseteq missed',
         \A u \in Users : row'[u] # Gone => row[u] # Gone,
         \A u, v \in Users \ missed' : row'[u] # Gone /\ row'[v] # Gone =>
            /\ Relation("user_follows", u, v)' # {} => Relation("user_follows", u, v) # {} \/ Telling(u, v)'
            /\ Telling(u, v) => Telling(u, v)'
  PROVE  FollowInv'
BY DEF FollowInv

LEMMA RelationKept ==
  ASSUME \A i \in Ids' : /\ i \in Ids /\ docs'[i].coll = docs[i].coll
                         /\ docs'[i].user = docs[i].user /\ docs'[i].other = docs[i].other,
         NEW c, NEW u, NEW v
  PROVE  Relation(c, u, v)' \subseteq Relation(c, u, v)
BY DEF Relation

LEMMA ChangeFollow ==
  ASSUME TypeInv, FollowInv, NEW u \in Users, NEW n \in Names \cup {Gone}, Change(u, n)
  PROVE  FollowInv'
<1>1. missed \subseteq missed' /\ UNCHANGED <<docs, followed, task>>
      /\ row[u] # Gone /\ \A v \in Users \ {u} : row'[v] = row[v]
  BY DEF Change, TypeInv, TypeOK
<1>2. \A v, x : Telling(v, x)' = Telling(v, x)
  BY <1>1 DEF Telling, Relation, Ids
<1>3. \A c, v, x : Relation(c, v, x)' = Relation(c, v, x)
  BY <1>1 DEF Relation, Ids
<1> QED BY <1>1, <1>2, <1>3, FollowKept

\* Steps that leave documents, tasks and followers' events alone.
LEMMA CalmFollow ==
  ASSUME FollowInv, UNCHANGED <<row, docs, task, followed>>, missed \subseteq missed'
  PROVE  FollowInv'
<1>1. \A v, x : Telling(v, x)' = Telling(v, x)
  BY DEF Telling, Relation, Ids
<1>2. \A c, v, x : Relation(c, v, x)' = Relation(c, v, x)
  BY DEF Relation, Ids
<1> QED BY <1>1, <1>2, FollowKept

\* Notifications are removed for deleted users only.
LEMMA RunFollow ==
  ASSUME TypeInv, NamesInv, FollowInv, NEW w \in Workers, Run(w)
  PROVE  FollowInv'
<1> DEFINE e == worker[w].event
           s == Plan(e.name)[worker[w].step]
<1>1. worker[w] # None /\ UNCHANGED <<row, task, followed>> /\ missed \subseteq missed'
  BY DEF Run
<1>2. /\ e \in Event /\ e.user \in Users /\ worker[w].step \in 1..Len(Plan(e.name)) /\ e \in Told
  BY <1>1, WorkerParts DEF Told, Handled
<1>3. s \in Statement /\ (s.op = "delete" => e.name = Gone)
  BY <1>2, PlanParts
<1>4. /\ s.op = "delete" \/ s.op = "set"
      /\ s.coll = "notifications" /\ s.op = "delete" => s.field \in {"other", "nobody"}
  <2>1. ASSUME s.coll = "notifications", s.op = "delete" PROVE s.field \in {"other", "nobody"}
    <3>1. Plan(e.name) = DeleteStatements
      BY <1>3, <2>1 DEF Plan
    <3>2. worker[w].step \in {1, 2, 3, 4, 5, 6, 7, 8}
      BY <1>2, <3>1, DeletePlan
    <3> QED BY <2>1, <3>1, <3>2, DeletePlan DEF Set, Remove
  <2> QED BY <1>3, <2>1 DEF Statement
<1>5. PICK ee, ss : ee = e /\ ss = s
  OBVIOUS
<1>6. /\ \A i \in Ids' : /\ i \in Ids /\ docs'[i].coll = docs[i].coll
                         /\ docs'[i].user = docs[i].user /\ docs'[i].other = docs[i].other
      /\ ss.op = "set" => Ids' = Ids
      /\ ss.op # "set" => Ids' = {i \in Ids : ~Hits(ss, docs[i], ee.user)}
  BY <1>5, RunParts
<1>7. ASSUME NEW u \in Users \ missed', NEW v \in Users \ missed', row[v] # Gone, Telling(u, v)
      PROVE  Telling(u, v)'
  <2>1. \A i \in Relation("notifications", u, v) : i \in Relation("notifications", u, v)'
    <3> SUFFICES ASSUME NEW i \in Relation("notifications", u, v) PROVE i \in Ids'
      BY <1>6 DEF Relation
    <3>1. i \in Ids /\ docs[i].coll = "notifications" /\ docs[i].other = v
      BY DEF Relation
    <3> SUFFICES ASSUME ss.op # "set", Hits(ss, docs[i], ee.user) PROVE FALSE
      BY <1>6, <3>1
    <3>2. ss.op = "delete" /\ ss.field = "other" /\ ee.name = Gone /\ ee \in Told
      BY <1>2, <1>3, <1>4, <1>5, <3>1 DEF Hits
    <3>3. ee.user = v
      BY <3>1, <3>2 DEF Hits
    <3>4. v \in Users \ missed
      BY <1>1
    <3> QED BY <1>7, <3>2, <3>3, <3>4 DEF NamesInv, Named
  <2> HIDE DEF e, s
  <2> QED BY <1>1, <1>7, <2>1 DEF Telling
<1>8. \A u, v : Relation("user_follows", u, v)' \subseteq Relation("user_follows", u, v)
  BY <1>6, RelationKept
<1> QED BY <1>1, <1>7, <1>8, FollowKept

LEMMA UnfollowFollow ==
  ASSUME FollowInv, NEW x \in Users, NEW y \in Users, UnfollowUser(x, y)
  PROVE  FollowInv'
<1>1. /\ Ids' = Ids \ Relation("user_follows", x, y) /\ \A i \in Ids' : docs'[i] = docs[i]
      /\ UNCHANGED <<row, task, followed, missed>>
  BY DEF UnfollowUser, Ids, Restrict, historyVars
<1>2. \A u, v : Relation("notifications", u, v)' = Relation("notifications", u, v)
  BY <1>1 DEF Relation
<1>3. \A u, v : Telling(u, v)' = Telling(u, v)
  BY <1>1, <1>2 DEF Telling
<1>4. \A u, v : Relation("user_follows", u, v)' \subseteq Relation("user_follows", u, v)
  BY <1>1, RelationKept
<1> QED BY <1>1, <1>3, <1>4, FollowKept

\* Requests that start leave what tells of relations.
LEMMA StartFollow ==
  ASSUME TypeInv, FollowInv, NEW t \in Tasks, NEW kind, NEW step, NEW id, NEW doc,
         Start(t, kind, step, id, doc), followed' = followed
  PROVE  FollowInv'
<1>1. UNCHANGED <<row, docs, missed>> /\ task[t] = None
      /\ \A x \in Tasks \ {t} : task'[x] = task[x]
  BY DEF Start, TypeInv, TypeOK
<1>2. \A c, u, v : Relation(c, u, v)' = Relation(c, u, v)
  BY <1>1 DEF Relation, Ids
<1>3. \A u, v : Telling(u, v) => Telling(u, v)'
  BY <1>1, <1>2 DEF Telling
<1> QED BY <1>1, <1>2, <1>3, FollowKept

LEMMA BeginFollow ==
  ASSUME TypeInv, FollowInv, NEW t \in Tasks,
         \/ \E u \in Users : \/ CreatePost(t, u) \/ CreateComment(t, u)
                             \/ \E v \in Users : FollowUser(t, u, v)
         \/ \E i \in Ids : UpdatePost(t, i)
  PROVE  FollowInv'
BY StartFollow DEF CreatePost, CreateComment, FollowUser, UpdatePost

LEMMA HandleFollowFollow ==
  ASSUME TypeInv, FollowInv, NEW t \in Tasks, NEW f \in followed, HandleFollow(t, f)
  PROVE  FollowInv'
<1>1. followed' = followed \ {f} /\ f = <<f[1], f[2]>> /\ f[1] \in Users /\ f[2] \in Users
  BY FollowedParts DEF HandleFollow
<1>2. CASE row[f[1]] = Gone
  <2>1. UNCHANGED <<row, docs, task, missed>>
    BY <1>2 DEF HandleFollow, historyVars
  <2>2. \A c, u, v : Relation(c, u, v)' = Relation(c, u, v)
    BY <2>1 DEF Relation, Ids
  <2>3. \A u, v : row[u] # Gone /\ Telling(u, v) => Telling(u, v)'
    BY <1>1, <1>2, <2>1, <2>2 DEF Telling
  <2> QED BY <2>1, <2>2, <2>3, FollowKept
<1>3. CASE row[f[1]] # Gone
  <2> DEFINE d == By("notifications", f[1], f[2], None)
             k == [kind |-> "notice", step |-> "save", id |-> NewId, doc |-> d]
  <2>1. UNCHANGED <<row, docs, missed>> /\ task[t] = None /\ task' = [task EXCEPT ![t] = k]
    BY <1>3 DEF HandleFollow, Start
  <2>2. d \in Doc /\ d.user = f[1] /\ d.other = f[2]
    BY <1>1, ByTypes DEF Colls
  <2>3. k.kind = "notice" /\ k.doc = d /\ k \in Task
    BY <2>2, IdTypes DEF Task
  <2>4. k # None
    BY <2>3, TaskParts
  <2> HIDE DEF k, d
  <2>5. task'[t] = k /\ \A x \in Tasks \ {t} : task'[x] = task[x]
    BY <2>1 DEF TypeInv, TypeOK
  <2>6. \A c, u, v : Relation(c, u, v)' = Relation(c, u, v)
    BY <2>1 DEF Relation, Ids
  <2>7. ASSUME NEW u, NEW v, Telling(u, v) PROVE Telling(u, v)'
    <3>1. CASE <<u, v>> = f
      <4>1. u = f[1] /\ v = f[2]
        BY <3>1
      <4> QED BY <2>2, <2>3, <2>4, <2>5, <4>1 DEF Telling
    <3>2. CASE <<u, v>> # f
      BY <1>1, <2>1, <2>5, <2>6, <2>7, <3>2 DEF Telling
    <3> QED BY <3>1, <3>2
  <2> QED BY <2>1, <2>6, <2>7, FollowKept
<1> QED BY <1>2, <1>3

\* Tasks that read, index or end.
LEMMA TaskFollow ==
  ASSUME TypeInv, FollowInv, NEW t \in Tasks,
         FindParent(t) \/ Reread(t) \/ Index(t) \/ PublishFollow(t) \/ TaskFails(t)
  PROVE  FollowInv'
<1>1. /\ UNCHANGED <<row, docs>> /\ task[t] # None /\ task[t] \in Task
      /\ followed \subseteq followed' /\ missed \subseteq missed'
      /\ \A x \in Tasks \ {t} : task'[x] = task[x]
  BY DEF FindParent, Reread, Index, PublishFollow, TaskFails, Fault, historyVars, TypeInv, TypeOK
<1>2. \A c, u, v : Relation(c, u, v)' = Relation(c, u, v)
  BY <1>1 DEF Relation, Ids
<1>3. ASSUME NEW u \in Users \ missed', NEW v \in Users, Telling(u, v) PROVE Telling(u, v)'
  <2>1. CASE task[t].doc.user = u /\ task[t].doc.other = v
             /\ (task[t].kind = "notice" \/ task[t].step = "publish")
    <3>1. ~FindParent(t) /\ ~Reread(t) /\ ~Index(t)
      BY <2>1, ParentParts, PostTaskParts DEF Reread, Index, FindParent
    <3>2. ~TaskFails(t)
      BY <2>1 DEF TaskFails, Fault
    <3>3. <<u, v>> \in followed'
      BY <2>1, <3>1, <3>2 DEF PublishFollow
    <3> QED BY <3>3 DEF Telling
  <2>2. CASE ~(task[t].doc.user = u /\ task[t].doc.other = v
               /\ (task[t].kind = "notice" \/ task[t].step = "publish"))
    BY <1>1, <1>2, <1>3, <2>2 DEF Telling
  <2> QED BY <2>1, <2>2
<1> QED BY <1>1, <1>2, <1>3, FollowKept

\* A relation is saved by who will tell of it.
LEMMA SaveFollow ==
  ASSUME TypeInv, FollowInv, NEW t \in Tasks, Save(t)
  PROVE  FollowInv'
<1> DEFINE d == task[t].doc
<1>1. /\ task[t] # None /\ task[t] \in Task /\ task[t].step = "save" /\ d \in Doc
      /\ d.coll = CollOf(task[t].kind)
      /\ UNCHANGED <<row, es, eventVars, followed, historyVars, changes, writes, faults>>
      /\ \/ Taken(d) /\ task' = [task EXCEPT ![t] = None] /\ UNCHANGED docs
         \/ \E p \in NextIds : SavedAt(t, p)
  BY SaveParts
<1>2. UNCHANGED <<row, followed, missed>>
  BY <1>1 DEF historyVars
<1>3. /\ task[t].kind = "notice" <=> d.coll = "notifications"
      /\ d.coll = "user_follows" => task[t].kind = "follow"
      /\ task[t].kind = "edit" => d.coll = "posts"
  BY <1>1, TaskParts DEF CollOf
<1> HIDE DEF d
<1>4. CASE Taken(d) /\ task' = [task EXCEPT ![t] = None] /\ UNCHANGED docs
  <2>1. \A c, u, v : Relation(c, u, v)' = Relation(c, u, v)
    BY <1>4 DEF Relation, Ids
  <2>2. task[t].kind # "notice"
    BY <1>3, <1>4 DEF Taken
  <2>3. \A x \in Tasks \ {t} : task'[x] = task[x]
    BY <1>4 DEF TypeInv, TypeOK
  <2>4. \A u, v : Telling(u, v) => Telling(u, v)'
    BY <1>1, <1>2, <2>1, <2>2, <2>3 DEF Telling
  <2> QED BY <1>2, <2>1, <2>4, FollowKept
<1>5. ASSUME NEW p \in NextIds, SavedAt(t, p) PROVE FollowInv'
  <2>1. /\ Ids' = Ids \cup {p} /\ docs'[p] = d /\ \A i \in Ids \ {p} : docs'[i] = docs[i]
        /\ p \in Ids => /\ docs[p].coll = d.coll /\ docs[p].user = d.user
                        /\ \/ task[t].kind = "edit"
                           \/ task[t].kind = "notice" /\ docs[p].other = d.other
        /\ task[t].kind = "follow" =>
              task' = [task EXCEPT ![t] = Onward(task[t], AfterSave(task[t].kind), d)]
        /\ \A x \in Tasks \ {t} : task'[x] = task[x]
    BY <1>5 DEF SavedAt, d, TypeInv, TypeOK
  <2>2. \A i \in Ids : docs[i].coll = "notifications" =>
            docs'[i].coll = docs[i].coll /\ docs'[i].user = docs[i].user /\ docs'[i].other = docs[i].other
    BY <1>3, <2>1
  <2>3. \A u, v : Relation("notifications", u, v) \subseteq Relation("notifications", u, v)'
    BY <2>1, <2>2 DEF Relation
  <2>4. \A u, v : task[t].kind = "notice" /\ d.user = u /\ d.other = v
                  => p \in Relation("notifications", u, v)'
    BY <1>3, <2>1 DEF Relation
  <2>5. \A u, v : Telling(u, v) => Telling(u, v)'
    <3> SUFFICES ASSUME NEW u, NEW v, Telling(u, v) PROVE Telling(u, v)'
      OBVIOUS
    <3>1. CASE task[t].kind = "notice" /\ d.user = u /\ d.other = v
      BY <2>4, <3>1 DEF Telling
    <3>2. CASE ~(task[t].kind = "notice" /\ d.user = u /\ d.other = v)
      BY <1>1, <1>2, <2>1, <2>3, <3>2 DEF Telling, d
    <3> QED BY <3>1, <3>2
  <2>6. ASSUME NEW u, NEW v, Relation("user_follows", u, v)' # {},
               Relation("user_follows", u, v) = {}
        PROVE  Telling(u, v)'
    <3>1. d.coll = "user_follows" /\ d.user = u /\ d.other = v
      BY <2>1, <2>6 DEF Relation
    <3>2. task[t].kind = "follow" /\ AfterSave(task[t].kind) = "publish"
      BY <1>3, <3>1 DEF AfterSave
    <3> DEFINE k == Onward(task[t], "publish", d)
    <3>3. k # None /\ k.step = "publish" /\ k.doc = d
      <4>1. "publish" \in Steps
        BY DEF Steps
      <4> QED BY <1>1, <4>1, OnwardParts DEF d
    <3> HIDE DEF k
    <3>4. task'[t] = k
      BY <2>1, <3>2 DEF k, TypeInv, TypeOK
    <3> QED BY <3>1, <3>3, <3>4 DEF Telling
  <2> QED BY <1>2, <2>5, <2>6, FollowKept
<1> QED BY <1>1, <1>4, <1>5

LEMMA NextFollow ==
  ASSUME TypeInv, NamesInv, FollowInv, [Next]_vars
  PROVE  FollowInv'
<1>1. ASSUME NEW u \in Changing, Rename(u) \/ DeleteUser(u) PROVE FollowInv'
  BY <1>1, ChangeFollow, ProfileAssumption DEF Rename, DeleteUser
<1>2. CASE \/ UNCHANGED vars
           \/ \E e \in outbox : Publish(e) \/ PublishFails(e)
           \/ \E w \in Workers : (\E e \in queue : Take(w, e)) \/ StatementFails(w) \/ Dies(w)
           \/ \E e \in esQueue : RenameIndexed(e) \/ RenameIndexedFails(e)
  <2>1. UNCHANGED <<row, docs, task, followed>> /\ missed \subseteq missed'
    BY <1>2 DEF vars, historyVars, Fault, Publish, PublishFails, Take, StatementFails, Dies,
                RenameIndexed, RenameIndexedFails
  <2> QED BY <2>1, CalmFollow
<1>3. ASSUME NEW t \in Tasks,
             \/ \E u \in Users : \/ CreatePost(t, u) \/ CreateComment(t, u)
                                 \/ \E v \in Users : FollowUser(t, u, v)
             \/ \E i \in Ids : UpdatePost(t, i)
             \/ \E f \in followed : HandleFollow(t, f)
             \/ FindParent(t) \/ Save(t) \/ PublishFollow(t) \/ Reread(t) \/ Index(t)
             \/ TaskFails(t)
      PROVE  FollowInv'
  BY <1>3, BeginFollow, HandleFollowFollow, TaskFollow, SaveFollow
<1> QED BY <1>1, <1>2, <1>3, RunFollow, UnfollowFollow DEF Next

LEMMA RelationCount ==
  ASSUME TypeInv, Unique, NEW c \in {"user_follows", "notifications"}, NEW u, NEW v
  PROVE  /\ IsFiniteSet(Relation(c, u, v)) /\ Cardinality(Relation(c, u, v)) \in {0, 1}
         /\ Cardinality(Relation(c, u, v)) = 0 <=> Relation(c, u, v) = {}
<1> DEFINE R == Relation(c, u, v)
<1>1. \A i, j \in R : i = j
  BY DEF Relation, Unique
<1>2. CASE R = {}
  BY <1>2, FS_EmptySet
<1>3. CASE R # {}
  <2>1. PICK i \in R : TRUE
    BY <1>3
  <2>2. R = {i}
    BY <1>1, <2>1
  <2> HIDE DEF R
  <2>3. IsFiniteSet(R) /\ Cardinality(R) = 1
    BY <2>2, FS_Singleton
  <2> QED BY <1>3, <2>3 DEF R
<1> QED BY <1>2, <1>3

LEMMA FollowInvHolds == Spec => [](Unique /\ FollowInv)
<1>1. TypeInv /\ NamesInv /\ (Unique /\ FollowInv) /\ [Next]_vars => (Unique /\ FollowInv)'
  BY NextUnique, NextFollow
<1> QED BY InitUnique, InitFollow, TypeInvHolds, NamesInvHolds, <1>1, PTL DEF Spec

\* However requests overlap, nobody follows another twice: the unique index refuses the
\* second relation. And once all is handled, whoever is followed has one notification:
\* the follower's event is published after the relation is saved, and its notification
\* has one place (followUser, sendFollowNotification).
THEOREM FollowersAreTold == Spec => []FollowedOnce
<1>1. TypeInv /\ NamesInv /\ (Unique /\ FollowInv) => FollowedOnce
  <2> SUFFICES ASSUME TypeInv, NamesInv, Unique, FollowInv, NEW u \in Users, NEW v \in Users
               PROVE  /\ Cardinality(Relation("user_follows", u, v)) <= 1
                      /\ Quiet /\ {u, v} \cap missed = {} /\ Relation("user_follows", u, v) # {}
                           => Cardinality(Relation("notifications", u, v)) = 1
    BY DEF FollowedOnce
  <2>1. Cardinality(Relation("user_follows", u, v)) <= 1
    BY RelationCount
  <2>2. ASSUME Quiet, {u, v} \cap missed = {}, Relation("user_follows", u, v) # {}
        PROVE  Relation("notifications", u, v) # {}
    <3>1. PICK i \in Ids : docs[i].coll = "user_follows" /\ docs[i].user = u /\ docs[i].other = v
      BY <2>2 DEF Relation
    <3>2. u \notin missed /\ v \notin missed
      BY <2>2
    <3>3. row[u] # Gone /\ row[v] # Gone
      BY <2>2, <3>1, <3>2, QuietGone
    <3>4. Telling(u, v)
      BY <2>2, <3>2, <3>3 DEF FollowInv
    <3> QED BY <2>2, <3>4 DEF Telling, Quiet
  <2>3. Relation("notifications", u, v) # {} => Cardinality(Relation("notifications", u, v)) = 1
    BY RelationCount
  <2> QED BY <2>1, <2>2, <2>3
<1> QED BY <1>1, TypeInvHolds, NamesInvHolds, FollowInvHolds, PTL
-----------------------------------------------------------------------------
(* Pages about relations. *)

\* A finite set has as many members as its image under a function that tells them apart.
LEMMA SameCount ==
  ASSUME NEW S, IsFiniteSet(S), NEW f, DOMAIN f = S,
         \A x, y \in S : f[x] = f[y] => x = y
  PROVE  Cardinality({f[x] : x \in S}) = Cardinality(S)
<1> DEFINE T == {f[x] : x \in S}
           g == [x \in S |-> f[x]]
<1>1. g \in [S -> T] /\ \A x \in S : g[x] = f[x]
  OBVIOUS
<1>2. \A y \in T : \E x \in S : g[x] = y
  OBVIOUS
<1> HIDE DEF g, T
<1>3. g \in Bijection(S, T)
  BY <1>1, <1>2 DEF Bijection, Injection, Surjection, IsInjective
<1> QED BY <1>3, FS_Bijection DEF ExistsBijection, T

LEMMA RelationParts ==
  ASSUME TypeInv, NEW i \in RelationIds
  PROVE  /\ i \in Ids /\ docs[i].coll = "user_follows" /\ docs[i] \in Doc
         /\ docs[i].user \in Users /\ docs[i].other \in Users /\ docs[i].user # docs[i].other
         /\ docs[i].otherName # None
<1>1. i \in Ids /\ docs[i].coll = "user_follows" /\ docs[i] \in Doc /\ Shaped(docs[i])
  BY DEF RelationIds, TypeInv, TypeOK, DocsOK
<1> QED BY <1>1, DocParts DEF Shaped

\* The lists hold the persons whose relations they are made of.
LEMMA ListParts ==
  /\ \A u, v : v \in Of(FollowList(u)) <=> Relation("user_follows", u, v) # {}
  /\ \A u, v : v \in Of(FanList(u)) <=> Relation("user_follows", v, u) # {}
<1>1. \A v, n : Card(v, n).user = v
  BY DEF Card
<1>2. \A u, v : v \in Of(FollowList(u))
                  <=> \E i \in RelationIds : docs[i].user = u /\ docs[i].other = v
  <2>1. \A u : FollowList(u) = {Card(docs[i].other, docs[i].otherName) :
                                 i \in {k \in RelationIds : docs[k].user = u}}
    BY DEF FollowList
  <2>2. \A u, v : v \in Of(FollowList(u)) <=> \E c \in FollowList(u) : c.user = v
    BY DEF Of
  <2> QED BY <1>1, <2>1, <2>2
<1>3. \A u, v : v \in Of(FanList(u))
                  <=> \E i \in RelationIds : docs[i].user = v /\ docs[i].other = u
  BY <1>1 DEF Of, FanList
<1>4. \A u, v : Relation("user_follows", u, v) # {}
                  <=> \E i \in RelationIds : docs[i].user = u /\ docs[i].other = v
  BY DEF Relation, RelationIds
<1> QED BY <1>2, <1>3, <1>4

LEMMA Counts ==
  ASSUME TypeInv, Unique, NEW u \in Users
  PROVE  FollowCount(u) = Cardinality(FollowList(u)) /\ FanCount(u) = Cardinality(FanList(u))
<1>1. IsFiniteSet(Ids) /\ RelationIds \subseteq Ids
  BY DEF RelationIds, TypeInv, DocsOK
<1>2. FollowCount(u) = Cardinality(FollowList(u))
  <2> DEFINE S == {i \in RelationIds : docs[i].user = u}
             f == [i \in S |-> Card(docs[i].other, docs[i].otherName)]
  <2>1. IsFiniteSet(S) /\ S \subseteq RelationIds
    <3>1. S \subseteq Ids /\ S \subseteq RelationIds
      BY <1>1
    <3> QED BY <1>1, <3>1, FS_Subset
  <2>2. \A i, j \in S : f[i] = f[j] => i = j
    BY <1>1 DEF Card, RelationIds, Unique
  <2>3. FollowList(u) = {f[i] : i \in S} /\ DOMAIN f = S
    BY DEF FollowList
  <2>4. FollowCount(u) = Cardinality(S)
    BY DEF FollowCount
  <2> HIDE DEF f, S
  <2> QED BY <2>1, <2>2, <2>3, <2>4, SameCount
<1>3. FanCount(u) = Cardinality(FanList(u))
  <2> DEFINE S == {i \in RelationIds : docs[i].other = u}
             f == [i \in S |-> Card(docs[i].user, docs[i].name)]
  <2>1. IsFiniteSet(S) /\ S \subseteq RelationIds
    <3>1. S \subseteq Ids /\ S \subseteq RelationIds
      BY <1>1
    <3> QED BY <1>1, <3>1, FS_Subset
  <2>2. \A i, j \in S : f[i] = f[j] => i = j
    BY <1>1 DEF Card, RelationIds, Unique
  <2>3. FanList(u) = {f[i] : i \in S} /\ DOMAIN f = S
    BY DEF FanList
  <2>4. FanCount(u) = Cardinality(S)
    BY DEF FanCount
  <2> HIDE DEF f, S
  <2> QED BY <2>1, <2>2, <2>3, <2>4, SameCount
<1> QED BY <1>2, <1>3

\* The pages agree about who follows whom.
LEMMA PagesAgree ==
  ASSUME TypeInv, NEW u \in Users
  PROVE  \A s \in SearchUsers(u, Users) :
             /\ s.followed <=> s.card.user # u /\ IsFollowed(u, s.card.user)
             /\ s.followed <=> PostShowsFollowed(u, s.card.user)
             /\ s.followed /\ s.followingMe <=> s.card.user \in Of(FriendList(u))
<1>1. \A x, v : v \in Of(FriendList(x)) <=> v \in Of(FanList(x)) /\ v \in Of(FollowList(x))
  BY DEF FriendList, Of
<1>2. u \notin Of(FollowList(u))
  BY RelationParts DEF Of, FollowList, Card
<1>3. ASSUME NEW x \in Users,
             NEW s, s = [card        |-> Card(x, row[x]),
                         followed    |-> x # u /\ x \in Of(FollowList(u)),
                         followingMe |-> x # u /\ x \in Of(FanList(u))]
      PROVE  /\ s.followed <=> s.card.user # u /\ IsFollowed(u, s.card.user)
             /\ s.followed <=> PostShowsFollowed(u, s.card.user)
             /\ s.followed /\ s.followingMe <=> s.card.user \in Of(FriendList(u))
  <2>1. s.card.user = x
    BY <1>3 DEF Card
  <2>2. s.followed <=> x # u /\ x \in Of(FollowList(u))
    BY <1>3
  <2>3. s.followingMe <=> x # u /\ x \in Of(FanList(u))
    BY <1>3
  <2>4. IsFollowed(u, x) <=> x \in Of(FollowList(u))
    BY ListParts DEF IsFollowed
  <2> QED BY <1>1, <1>2, <2>1, <2>2, <2>3, <2>4 DEF PostShowsFollowed
<1>4. ASSUME NEW s \in SearchUsers(u, Users)
      PROVE  /\ s.followed <=> s.card.user # u /\ IsFollowed(u, s.card.user)
             /\ s.followed <=> PostShowsFollowed(u, s.card.user)
             /\ s.followed /\ s.followingMe <=> s.card.user \in Of(FriendList(u))
  <2>1. PICK x \in Users : s = [card        |-> Card(x, row[x]),
                                followed    |-> x # u /\ x \in Of(FollowList(u)),
                                followingMe |-> x # u /\ x \in Of(FanList(u))]
    BY <1>4 DEF SearchUsers, Present
  <2> QED BY <1>3, <2>1
<1> QED BY <1>4

\* The administrators' pages count the same, whichever posts are removed.
LEMMA AdminAgrees ==
  ASSUME NEW removed \in SUBSET Posts
  PROVE  \A l \in UserList(removed) :
             LET d == UserDetail(l.user, removed)
             IN  l.posts = d.posts /\ l.follows = d.follows /\ l.fans = d.fans
<1> SUFFICES ASSUME NEW u \in Users,
                    NEW l, l = [user    |-> u,
                                posts   |-> Grouped(Ids \ removed, "posts", "user", u),
                                follows |-> Grouped(Ids, "user_follows", "user", u),
                                fans    |-> Grouped(Ids, "user_follows", "other", u)]
             PROVE  LET d == UserDetail(l.user, removed)
                    IN  l.posts = d.posts /\ l.follows = d.follows /\ l.fans = d.fans
  BY DEF UserList, Present
<1>1. l.user = u /\ l.posts = Grouped(Ids \ removed, "posts", "user", u)
      /\ l.follows = Grouped(Ids, "user_follows", "user", u)
      /\ l.fans = Grouped(Ids, "user_follows", "other", u)
  OBVIOUS
<1>2. /\ UserDetail(u, removed).posts = Cardinality(Written(u, "posts") \ removed)
      /\ UserDetail(u, removed).follows = Cardinality(Written(u, "user_follows"))
      /\ UserDetail(u, removed).fans = FanCount(u)
  BY DEF UserDetail
<1>3. {i \in Ids \ removed : docs[i].coll = "posts" /\ docs[i]["user"] = u}
        = Written(u, "posts") \ removed
  BY DEF Written
<1>4. /\ Grouped(Ids \ removed, "posts", "user", u) = Cardinality(Written(u, "posts") \ removed)
      /\ Grouped(Ids, "user_follows", "user", u) = Cardinality(Written(u, "user_follows"))
  BY <1>3 DEF Grouped, Written
<1>5. {i \in RelationIds : docs[i].other = u}
        = {i \in Ids : docs[i].coll = "user_follows" /\ docs[i]["other"] = u}
  BY DEF RelationIds
<1>6. Grouped(Ids, "user_follows", "other", u) = FanCount(u)
  BY <1>5 DEF Grouped, FanCount
<1> QED BY <1>1, <1>2, <1>4, <1>6

\* Once all is handled, a list names users as MySQL does, and no deleted ones.
LEMMA QuietCards ==
  ASSUME TypeInv, NamesInv, Quiet, NEW u \in Users, NEW c \in FollowList(u) \cup FanList(u),
         {u, c.user} \cap missed = {}
  PROVE  c.user \in Present /\ c = Card(c.user, row[c.user])
<1>1. ASSUME NEW i \in RelationIds, docs[i].user = u, c = Card(docs[i].other, docs[i].otherName)
      PROVE  c.user \in Present /\ c = Card(c.user, row[c.user])
  <2>1. c.user = docs[i].other /\ docs[i].other \notin missed
    BY <1>1 DEF Card
  <2>2. docs[i].other \in Users /\ row[docs[i].other] # Gone
    BY <2>1, QuietGone, RelationParts
  <2>3. docs[i].otherName = row[docs[i].other]
    BY <2>1, QuietOther, RelationParts
  <2> QED BY <1>1, <2>1, <2>2, <2>3 DEF Present
<1>2. ASSUME NEW i \in RelationIds, docs[i].other = u, c = Card(docs[i].user, docs[i].name)
      PROVE  c.user \in Present /\ c = Card(c.user, row[c.user])
  <2>1. c.user = docs[i].user /\ docs[i].user \notin missed
    BY <1>2 DEF Card
  <2>2. docs[i].user \in Users /\ row[docs[i].user] # Gone
    BY <2>1, QuietGone, RelationParts
  <2>3. docs[i].name = row[docs[i].user]
    BY <2>1, QuietUser, RelationParts
  <2> QED BY <1>2, <2>1, <2>2, <2>3 DEF Present
<1> QED BY <1>1, <1>2 DEF FollowList, FanList

\* So the search finds whoever of them has a profile, and nobody else.
LEMMA QuietPages ==
  ASSUME TypeInv, NamesInv, Quiet, NEW u \in Users, NEW c \in FollowList(u) \cup FanList(u),
         {u, c.user} \cap missed = {}, NEW enabled \in SUBSET Users
  PROVE  HasProfile(c.user, enabled) <=> \E s \in SearchUsers(u, enabled) : s.card = c
<1>1. c.user \in Present /\ c = Card(c.user, row[c.user])
  BY QuietCards
<1>2. ASSUME HasProfile(c.user, enabled) PROVE \E s \in SearchUsers(u, enabled) : s.card = c
  <2> DEFINE s == [card        |-> Card(c.user, row[c.user]),
                   followed    |-> c.user # u /\ c.user \in Of(FollowList(u)),
                   followingMe |-> c.user # u /\ c.user \in Of(FanList(u))]
  <2>1. s \in SearchUsers(u, enabled)
    BY <1>1, <1>2 DEF SearchUsers, HasProfile
  <2>2. s.card = c
    BY <1>1
  <2> QED BY <2>1, <2>2
<1>3. ASSUME NEW s \in SearchUsers(u, enabled), s.card = c PROVE HasProfile(c.user, enabled)
  <2>1. PICK x \in Present \cap enabled : s.card = Card(x, row[x])
    BY <1>3 DEF SearchUsers
  <2>2. c.user = x
    BY <1>3, <2>1 DEF Card
  <2> QED BY <2>1, <2>2 DEF HasProfile
<1> QED BY <1>2, <1>3

\* Counts and lists, friends, search, posts and the administrators' pages agree at every
\* moment, because relations are unique and nobody follows himself; and once all is
\* handled the lists name users as the search does and show nobody who is deleted.
THEOREM PagesFit == Spec => []RelationsFit
<1>1. ASSUME TypeInv, NamesInv, Quiet, NEW u \in Users, NEW c \in FollowList(u) \cup FanList(u),
             {u, c.user} \cap missed = {}
      PROVE  /\ c.user \in Present
             /\ \A enabled \in SUBSET Users :
                  HasProfile(c.user, enabled) <=> \E s \in SearchUsers(u, enabled) : s.card = c
  BY <1>1, QuietCards, QuietPages
<1>2. TypeInv /\ NamesInv /\ (Unique /\ FollowInv) => RelationsFit
  BY <1>1, Counts, PagesAgree, AdminAgrees DEF RelationsFit
<1> QED BY <1>2, TypeInvHolds, NamesInvHolds, FollowInvHolds, PTL
-----------------------------------------------------------------------------
(* The index. *)

\* t writes a post of u.
Writes(t, u) == task[t] # None /\ task[t].kind \in {"post", "edit"} /\ task[t].doc.user = u

LEMMA PostingParts ==
  ASSUME NEW u
  PROVE  /\ Posting(u) <=> \E t \in Tasks : Writes(t, u)
         /\ Pending(u) <=> \E e \in Told \cup esQueue : e.user = u
BY DEF Posting, Writes, Pending, Told

\* While a row stays: events end in order, who begins to write a post finds none, and
\* posts and their index change to the row's name only.
LEMMA IndexedKept ==
  ASSUME NEW u \in Users, EsNamed(u), row'[u] = row[u],
         \A e \in Told' \cup esQueue' : e.user = u => e \in Told \cup esQueue,
         \A t \in Tasks : Writes(t, u)' => /\ task'[t].doc.name = row[u]
                                           /\ Posting(u) \/ ~Pending(u),
         ToDo(u, 1) => ToDo(u, 1)' \/ \A i \in PostsOf(u)' : docs'[i].name = row[u],
         \A i \in PostsOf(u)' : \/ docs'[i].name = row[u]
                                \/ i \in PostsOf(u) /\ docs'[i].name = docs[i].name,
         \A e \in outbox \cup esQueue : e.user = u =>
             \/ row[u] = Gone \/ \E x \in outbox' \cup esQueue' : x.user = u
             \/ \A i \in DOMAIN es' \cap PostsOf(u)' : es'[i] = row[u],
         \A i \in DOMAIN es' \cap PostsOf(u)' :
             es'[i] = row[u] \/ (i \in DOMAIN es \cap PostsOf(u) /\ es'[i] = es[i])
  PROVE  EsNamed(u)'
<1>1. \A e \in Told' \cup esQueue' : e.user = u => e.name = row'[u]
  BY DEF EsNamed
<1>2. Posting(u)' => ~Pending(u)'
  <2>1. Pending(u)' => Pending(u)
    <3>1. Pending(u)' => \E e \in Told' \cup esQueue' : e.user = u
      BY DEF Pending, Told
    <3> QED BY <3>1, PostingParts
  <2>2. Posting(u)' => Posting(u) \/ ~Pending(u)
    <3>1. Posting(u)' => \E t \in Tasks : Writes(t, u)'
      BY DEF Posting, Writes
    <3> QED BY <3>1
  <2> QED BY <2>1, <2>2 DEF EsNamed
<1>3. ToDo(u, 1)' \/ \A i \in PostsOf(u)' : docs'[i].name = row'[u]
  BY DEF EsNamed
<1>4. \A t \in Tasks : Writes(t, u)' => task'[t].doc.name = row'[u]
  OBVIOUS
<1>5. \/ row'[u] = Gone
      \/ \E e \in outbox' \cup esQueue' : e.user = u
      \/ \A i \in DOMAIN es' \cap PostsOf(u)' : es'[i] = row'[u]
  BY DEF EsNamed
<1> QED BY <1>1, <1>2, <1>3, <1>4, <1>5 DEF EsNamed, Writes

LEMMA InitIndex == Init => IndexInv
<1> SUFFICES ASSUME Init, NEW u \in Users PROVE EsNamed(u)
  BY DEF IndexInv
<1>1. docs = OldDocs /\ Ids = 1..Len(OldDocs) /\ row[u] = First
  BY ProfileAssumption DEF Init, Ids
<1>2. Told = {} /\ esQueue = {} /\ ~Posting(u)
  BY DEF Init, Told, Handled, Posting
<1>3. \A i \in PostsOf(u) : docs[i].name = row[u]
  BY <1>1, OldDocsFit DEF PostsOf, Posts
<1>4. \A i \in DOMAIN es \cap PostsOf(u) : es[i] = row[u]
  BY <1>1 DEF Init
<1>5. \A t \in Tasks : task[t] = None
  BY DEF Init
<1> QED BY <1>2, <1>3, <1>4, <1>5 DEF EsNamed

LEMMA ChangeIndexed ==
  ASSUME TypeInv, IndexInv, NEW u \in Users, NEW n \in Names \cup {Gone}, Change(u, n)
  PROVE  IndexInv'
<1> DEFINE e == [user |-> u, name |-> n, at |-> changes + 1]
<1>1. /\ row' = [row EXCEPT ![u] = n] /\ outbox' = outbox \cup {e}
      /\ esMissed' = IF Pending(u) \/ Posting(u) THEN esMissed \cup {u} ELSE esMissed
      /\ UNCHANGED <<docs, es, queue, esQueue, worker, task>>
  BY DEF Change
<1>2. e.user = u /\ e.name = n
  OBVIOUS
<1> HIDE DEF e
<1>3. row'[u] = n /\ \A v \in Users \ {u} : row'[v] = row[v]
  BY <1>1 DEF TypeInv, TypeOK
<1>4. Told' = Told \cup {e} /\ \A v : PostsOf(v)' = PostsOf(v) /\ Posting(v)' = Posting(v)
  BY <1>1 DEF Told, Handled, PostsOf, Posts, Ids, Posting
<1>5. \A v : /\ ToDo(v, 1) => ToDo(v, 1)'
             /\ \A t : Writes(t, v)' = Writes(t, v)
  BY <1>1 DEF ToDo, Writes
<1>6. ToDo(u, 1)' /\ \E x \in outbox' \cup esQueue' : x.user = u
  BY <1>1, <1>2 DEF ToDo
<1>7. ASSUME NEW v \in Users \ esMissed', v # u PROVE EsNamed(v)'
  <2>1. EsNamed(v) /\ row'[v] = row[v]
    BY <1>1, <1>3, <1>7 DEF IndexInv
  <2>2. \A x \in Told' \cup esQueue' : x.user = v => x \in Told \cup esQueue
    BY <1>1, <1>2, <1>4, <1>7
  <2>3. \A t \in Tasks : Writes(t, v)' => /\ task'[t].doc.name = row[v]
                                          /\ Posting(v) \/ ~Pending(v)
    BY <1>1, <1>5, <2>1, PostingParts DEF EsNamed, Writes
  <2>4. \A i \in PostsOf(v)' : i \in PostsOf(v) /\ docs'[i].name = docs[i].name
    BY <1>1, <1>4
  <2>5. \A x \in outbox \cup esQueue : x.user = v => \E y \in outbox' \cup esQueue' : y.user = v
    BY <1>1
  <2>6. \A i \in DOMAIN es' \cap PostsOf(v)' : i \in DOMAIN es \cap PostsOf(v) /\ es'[i] = es[i]
    BY <1>1, <1>4
  <2> QED BY <1>5, <2>1, <2>2, <2>3, <2>4, <2>5, <2>6, IndexedKept
<1>8. ASSUME u \notin esMissed' PROVE EsNamed(u)'
  <2>1. ~Pending(u) /\ ~Posting(u)
    BY <1>1, <1>8
  <2>2. \A x \in Told' \cup esQueue' : x.user = u => x.name = row'[u]
    BY <1>1, <1>2, <1>3, <1>4, <2>1, PostingParts
  <2>3. ~(Posting(u)') /\ \A t \in Tasks : ~(Writes(t, u)')
    BY <1>4, <1>5, <2>1, PostingParts
  <2> QED BY <1>6, <2>2, <2>3 DEF EsNamed, Writes
<1> QED BY <1>7, <1>8 DEF IndexInv

\* Steps of the queues that leave documents and index alone.
LEMMA QueuesIndexed ==
  ASSUME IndexInv, UNCHANGED <<row, docs, es, task>>, esMissed \subseteq esMissed',
         \A u \in Users \ esMissed' :
            /\ \A e \in Told' \cup esQueue' : e.user = u => e \in Told \cup esQueue
            /\ ToDo(u, 1) => ToDo(u, 1)'
            /\ \A e \in outbox \cup esQueue : e.user = u =>
                  row[u] = Gone \/ \E x \in outbox' \cup esQueue' : x.user = u
  PROVE  IndexInv'
<1> SUFFICES ASSUME NEW u \in Users \ esMissed' PROVE EsNamed(u)'
  BY DEF IndexInv
<1>1. EsNamed(u) /\ row'[u] = row[u]
  BY DEF IndexInv
<1>2. PostsOf(u)' = PostsOf(u) /\ \A t : Writes(t, u)' = Writes(t, u)
  BY DEF PostsOf, Posts, Ids, Writes
<1>3. \A t \in Tasks : Writes(t, u)' => /\ task'[t].doc.name = row[u]
                                        /\ Posting(u) \/ ~Pending(u)
  BY <1>1, <1>2, PostingParts DEF EsNamed, Writes
<1>4. \A i \in PostsOf(u)' : i \in PostsOf(u) /\ docs'[i].name = docs[i].name
  BY <1>2
<1>5. \A i \in DOMAIN es' \cap PostsOf(u)' : i \in DOMAIN es \cap PostsOf(u) /\ es'[i] = es[i]
  BY <1>2
<1> QED BY <1>1, <1>3, <1>4, <1>5, IndexedKept

LEMMA PublishIndexed ==
  ASSUME TypeInv, IndexInv, NEW e \in outbox, Publish(e) \/ PublishFails(e)
  PROVE  IndexInv'
<1>1. CASE Publish(e)
  <2>1. /\ UNCHANGED <<row, docs, es, task, esMissed, worker>> /\ outbox' = outbox \ {e}
        /\ queue' = queue \cup {x \in {e} : "user" \in Routes[Class(e)]}
        /\ esQueue' = esQueue \cup {x \in {e} : "es" \in Routes[Class(e)]}
    BY <1>1 DEF Publish, historyVars
  <2>2. e \in Event
    BY DEF TypeInv, TypeOK
  <2>3. queue' = queue \cup {e} /\ (e.name # Gone => esQueue' = esQueue \cup {e})
    BY <2>1, <2>2, UserRoutes
  <2>4. Told' \cup esQueue' \subseteq Told \cup esQueue
    BY <2>1, <2>3 DEF Told, Handled
  <2>5. \A u : ToDo(u, 1) => ToDo(u, 1)'
    BY <2>1, <2>3 DEF ToDo
  <2>6. ASSUME NEW u \in Users \ esMissed', NEW x \in outbox \cup esQueue, x.user = u
        PROVE  row[u] = Gone \/ \E y \in outbox' \cup esQueue' : y.user = u
    <3>1. CASE x # e
      BY <2>1, <2>6, <3>1
    <3>2. CASE x = e
      <4>1. e.name = row[u]
        BY <2>1, <2>6, <3>2 DEF IndexInv, EsNamed, Told
      <4> QED BY <2>3, <2>6, <3>2, <4>1
    <3> QED BY <3>1, <3>2
  <2> QED BY <2>1, <2>4, <2>5, <2>6, QueuesIndexed
<1>2. CASE PublishFails(e)
  <2>1. /\ UNCHANGED <<row, docs, es, task, worker, queue, esQueue>>
        /\ esMissed' = esMissed \cup {e.user} /\ outbox' = outbox \ {e}
    BY <1>2 DEF PublishFails, Fault
  <2>2. Told' \cup esQueue' \subseteq Told \cup esQueue
    BY <2>1 DEF Told, Handled
  <2>3. \A u \in Users \ esMissed' : ToDo(u, 1) => ToDo(u, 1)'
    BY <2>1 DEF ToDo
  <2>4. \A u \in Users \ esMissed' : \A x \in outbox \cup esQueue : x.user = u =>
           \E y \in outbox' \cup esQueue' : y.user = u
    BY <2>1
  <2> QED BY <2>1, <2>2, <2>3, <2>4, QueuesIndexed
<1> QED BY <1>1, <1>2

LEMMA WorkersIndexed ==
  ASSUME TypeInv, IndexInv, NEW w \in Workers,
         (\E e \in queue : Take(w, e)) \/ StatementFails(w) \/ Dies(w)
  PROVE  IndexInv'
<1>1. ASSUME NEW e \in queue, Take(w, e) PROVE IndexInv'
  <2> DEFINE k == [event |-> e, step |-> 1]
  <2>1. /\ UNCHANGED <<row, docs, es, task, esMissed, outbox, esQueue>>
        /\ worker[w] = None /\ queue' = queue \ {e} /\ worker' = [worker EXCEPT ![w] = k]
    BY <1>1 DEF Take, historyVars
  <2>2. k \in [event : Event, step : Nat] /\ k.event = e /\ k.step = 1
    BY DEF TypeInv, TypeOK
  <2>3. k # None /\ 1 <= 1
    BY <2>2, ProfileAssumption
  <2> HIDE DEF k
  <2>4. worker'[w] = k /\ \A v \in Workers \ {w} : worker'[v] = worker[v]
    BY <2>1 DEF TypeInv, TypeOK
  <2>5. Told' \subseteq Told
    BY <2>1, <2>2, <2>4 DEF Told, Handled
  <2>6. ASSUME NEW u, ToDo(u, 1) PROVE ToDo(u, 1)'
    <3>1. CASE \E x \in (outbox \cup queue) \ {e} : x.user = u
      BY <2>1, <3>1 DEF ToDo
    <3>2. CASE e.user = u
      BY <2>2, <2>3, <2>4, <3>2 DEF ToDo
    <3>3. CASE \E v \in Workers : worker[v] # None /\ worker[v].event.user = u /\ worker[v].step <= 1
      BY <2>1, <2>4, <3>3 DEF ToDo
    <3> QED BY <2>6, <3>1, <3>2, <3>3 DEF ToDo
  <2> QED BY <2>1, <2>5, <2>6, QueuesIndexed
<1>2. CASE StatementFails(w)
  <2>1. /\ worker[w] # None /\ Advance(w) /\ esMissed' = esMissed \cup {worker[w].event.user}
        /\ UNCHANGED <<row, docs, es, task, outbox, queue, esQueue>>
    BY <1>2 DEF StatementFails, Fault
  <2>2. /\ \A v \in Workers \ {w} : worker'[v] = worker[v]
        /\ worker'[w] # None => worker'[w].event = worker[w].event
    BY <2>1, AdvanceParts
  <2>3. Told' \subseteq Told
    BY <2>1, <2>2 DEF Told, Handled
  <2>4. \A u \in Users \ esMissed' : ToDo(u, 1) => ToDo(u, 1)'
    BY <2>1, <2>2 DEF ToDo
  <2> QED BY <2>1, <2>3, <2>4, QueuesIndexed
<1>3. CASE Dies(w)
  <2>1. /\ worker[w] # None /\ queue' = queue \cup {worker[w].event}
        /\ worker' = [worker EXCEPT ![w] = None]
        /\ UNCHANGED <<row, docs, es, task, outbox, esQueue, esMissed>>
    BY <1>3 DEF Dies, historyVars
  <2>2. worker'[w] = None /\ \A v \in Workers \ {w} : worker'[v] = worker[v]
    BY <2>1 DEF TypeInv, TypeOK
  <2>3. Told' \subseteq Told
    BY <2>1, <2>2 DEF Told, Handled
  <2>4. \A u : ToDo(u, 1) => ToDo(u, 1)'
    BY <2>1, <2>2 DEF ToDo
  <2> QED BY <2>1, <2>3, <2>4, QueuesIndexed
<1> QED BY <1>1, <1>2, <1>3

LEMMA RenameIndexedIndexed ==
  ASSUME TypeInv, IndexInv, NEW e \in esQueue, RenameIndexed(e) \/ RenameIndexedFails(e)
  PROVE  IndexInv'
<1>1. /\ UNCHANGED <<row, docs, outbox, queue, worker, task>> /\ esQueue' = esQueue \ {e}
      /\ esMissed \subseteq esMissed' /\ DOMAIN es' = DOMAIN es
      /\ \/ /\ e.user \in esMissed' /\ es' = es
         \/ es' = [i \in DOMAIN es |-> IF docs[i].user = e.user THEN e.name ELSE es[i]]
  BY DEF RenameIndexed, RenameIndexedFails, Fault, historyVars
<1>2. Told' = Told /\ \A v : PostsOf(v)' = PostsOf(v)
  BY <1>1 DEF Told, Handled, PostsOf, Posts, Ids
<1>3. \A v : /\ ToDo(v, 1) => ToDo(v, 1)'
             /\ \A t : Writes(t, v)' = Writes(t, v)
  BY <1>1 DEF ToDo, Writes
<1> SUFFICES ASSUME NEW u \in Users \ esMissed' PROVE EsNamed(u)'
  BY DEF IndexInv
<1>4. EsNamed(u) /\ row'[u] = row[u]
  BY <1>1 DEF IndexInv
<1>5. \A x \in Told' \cup esQueue' : x.user = u => x \in Told \cup esQueue
  BY <1>1, <1>2
<1>6. \A t \in Tasks : Writes(t, u)' => /\ task'[t].doc.name = row[u]
                                        /\ Posting(u) \/ ~Pending(u)
  BY <1>1, <1>3, <1>4, PostingParts DEF EsNamed, Writes
<1>7. \A i \in PostsOf(u)' : i \in PostsOf(u) /\ docs'[i].name = docs[i].name
  BY <1>1, <1>2
<1>8. e.user = u => \A i \in DOMAIN es' \cap PostsOf(u)' : es'[i] = row[u]
  <2> SUFFICES ASSUME e.user = u PROVE \A i \in DOMAIN es' \cap PostsOf(u)' : es'[i] = row[u]
    OBVIOUS
  <2>1. e.name = row[u]
    BY <1>4 DEF EsNamed
  <2> QED BY <1>1, <1>2, <2>1 DEF PostsOf
<1>9. e.user # u => \A i \in DOMAIN es' \cap PostsOf(u)' : es'[i] = es[i]
  BY <1>1, <1>2 DEF PostsOf
<1>10. \A x \in outbox \cup esQueue : x.user = u =>
          \/ \E y \in outbox' \cup esQueue' : y.user = u
          \/ \A i \in DOMAIN es' \cap PostsOf(u)' : es'[i] = row[u]
  BY <1>1, <1>8
<1>11. \A i \in DOMAIN es' \cap PostsOf(u)' :
           es'[i] = row[u] \/ (i \in DOMAIN es \cap PostsOf(u) /\ es'[i] = es[i])
  BY <1>1, <1>2, <1>8, <1>9
<1> QED BY <1>3, <1>4, <1>5, <1>6, <1>7, <1>10, <1>11, IndexedKept

\* The first statement of every plan corrects the posts.
LEMMA RunIndexed ==
  ASSUME TypeInv, IndexInv, NEW w \in Workers, Run(w)
  PROVE  IndexInv'
<1> DEFINE e == worker[w].event
           j == worker[w].step
           s == Plan(e.name)[j]
<1>1. /\ worker[w] # None /\ Advance(w)
      /\ UNCHANGED <<row, outbox, queue, esQueue, task, esMissed>>
  BY DEF Run
<1>2. /\ e \in Event /\ e.user \in Users /\ j \in 1..Len(Plan(e.name)) /\ e \in Told
      /\ e.name \in Names \cup {Gone}
  BY <1>1, WorkerParts DEF Told, Handled
<1>3. /\ \A v \in Workers \ {w} : worker'[v] = worker[v]
      /\ worker'[w] # None => worker'[w].event = e
  BY <1>1, AdvanceParts
<1>4. Told' \subseteq Told
  BY <1>1, <1>3 DEF Told, Handled
<1>5. /\ s \in Statement /\ (s.op = "set" /\ s.coll = "posts" => s.field = "user")
      /\ s.op = "delete" => s.coll # "posts"
      /\ j = 1 => s = Set("posts", "user")
  <2>1. /\ s \in Statement /\ (s.op = "delete" => s.coll # "posts")
        /\ (s.op = "set" => s.field \in {"user", "other"} /\ (s.field = "other" => s.coll \in {"comments", "user_follows"}))
        /\ Plan(e.name)[1] = Set("posts", "user")
    BY <1>2, PlanParts
  <2> QED BY <2>1
<1>6. PICK ee, ss : ee = e /\ ss = s
  OBVIOUS
<1>7. /\ ss.op = "set" => \A i \in Ids : docs'[i] = IF Hits(ss, docs[i], ee.user)
                                                  THEN Renamed(ss, docs[i], ee.name) ELSE docs[i]
      /\ ss.op # "set" => \A i \in Ids' : docs'[i] = docs[i]
      /\ \A i \in Ids' : docs'[i].user = docs[i].user
      /\ Posts' = Posts /\ Posts' \subseteq Ids' /\ es' = es
  BY <1>6, RunParts DEF Posts
<1>8. /\ ss \in Statement /\ (ss.op = "set" /\ ss.coll = "posts" => ss.field = "user")
      /\ j = 1 => ss = Set("posts", "user")
      /\ ee.user = e.user /\ ee.name = e.name /\ ee.name \in Names \cup {Gone}
  BY <1>2, <1>5, <1>6
<1>9. \A v : PostsOf(v)' = PostsOf(v)
  BY <1>7 DEF PostsOf, Posts
<1> HIDE DEF s
<1>10. ASSUME NEW i \in Posts
       PROVE  \/ docs'[i] = docs[i]
              \/ docs[i].user = e.user /\ docs'[i].name = e.name
  <2>1. i \in Ids /\ i \in Ids' /\ docs[i] \in Doc /\ docs[i].coll = "posts"
    BY <1>7 DEF Posts, TypeInv, TypeOK
  <2>2. CASE ss.op = "set" /\ Hits(ss, docs[i], ee.user)
    <3>1. ss.coll = "posts" /\ ss.field = "user" /\ docs[i].user = e.user
      BY <1>8, <2>1, <2>2 DEF Hits
    <3>2. docs'[i] = Renamed(ss, docs[i], ee.name)
      BY <1>7, <2>1, <2>2
    <3> QED BY <1>8, <2>1, <3>1, <3>2, SetTypes
  <2>3. CASE ~(ss.op = "set" /\ Hits(ss, docs[i], ee.user))
    BY <1>7, <2>1, <2>3
  <2> QED BY <2>2, <2>3
<1>11. ASSUME j = 1, NEW i \in PostsOf(e.user) PROVE docs'[i].name = e.name
  <2>1. i \in Ids /\ docs[i] \in Doc /\ docs[i].coll = "posts" /\ docs[i].user = e.user
    BY DEF PostsOf, Posts, TypeInv, TypeOK
  <2>2. ss = Set("posts", "user")
    BY <1>8, <1>11
  <2>3. ss.op = "set" /\ ss.field = "user" /\ Hits(ss, docs[i], ee.user)
    BY <1>8, <2>1, <2>2 DEF Hits, Set
  <2> QED BY <1>7, <1>8, <2>1, <2>3, SetTypes
<1>12. ASSUME NEW u \in Users \ esMissed' PROVE EsNamed(u)'
  <2>1. EsNamed(u) /\ row'[u] = row[u]
    BY <1>1, <1>12 DEF IndexInv
  <2>2. \A x \in Told' \cup esQueue' : x.user = u => x \in Told \cup esQueue
    BY <1>1, <1>4
  <2>3. \A t \in Tasks : Writes(t, u)' => /\ task'[t].doc.name = row[u]
                                          /\ Posting(u) \/ ~Pending(u)
    BY <1>1, <2>1, PostingParts DEF EsNamed, Writes
  <2>4. e.user = u => e.name = row[u]
    BY <1>2, <2>1 DEF EsNamed
  <2>5. ToDo(u, 1) => ToDo(u, 1)' \/ \A i \in PostsOf(u)' : docs'[i].name = row[u]
    <3> SUFFICES ASSUME ToDo(u, 1), ~ToDo(u, 1)'
                 PROVE  \A i \in PostsOf(u)' : docs'[i].name = row[u]
      OBVIOUS
    <3>1. e.user = u /\ j <= 1
      BY <1>1, <1>3 DEF ToDo
    <3>2. j = 1
      <4>1. \A m \in {6, 8} : \A k \in 1..m : k <= 1 => k = 1
        OBVIOUS
      <4> QED BY <1>2, <3>1, <4>1, PlanLength
    <3> QED BY <1>9, <1>11, <2>4, <3>1, <3>2
  <2>6. \A i \in PostsOf(u)' : \/ docs'[i].name = row[u]
                               \/ i \in PostsOf(u) /\ docs'[i].name = docs[i].name
    <3>1. PostsOf(u) = {i \in Posts : docs[i].user = u}
      BY DEF PostsOf
    <3> QED BY <1>9, <1>10, <2>4, <3>1
  <2>7. \A x \in outbox \cup esQueue : x.user = u => \E y \in outbox' \cup esQueue' : y.user = u
    BY <1>1
  <2>8. \A i \in DOMAIN es' \cap PostsOf(u)' : i \in DOMAIN es \cap PostsOf(u) /\ es'[i] = es[i]
    BY <1>7, <1>9
  <2> HIDE DEF e, j
  <2> QED BY <2>1, <2>2, <2>3, <2>5, <2>6, <2>7, <2>8, IndexedKept
<1> QED BY <1>12 DEF IndexInv

\* Steps of requests and listeners.
LEMMA TasksIndexed ==
  ASSUME IndexInv, UNCHANGED <<row, outbox, queue, esQueue, worker>>, esMissed \subseteq esMissed',
         \A u \in Users \ esMissed' :
            /\ \A t \in Tasks : Writes(t, u)' => /\ task'[t].doc.name = row[u]
                                                 /\ Posting(u) \/ ~Pending(u)
            /\ \A i \in PostsOf(u)' : \/ docs'[i].name = row[u]
                                      \/ i \in PostsOf(u) /\ docs'[i].name = docs[i].name
            /\ \A i \in DOMAIN es' \cap PostsOf(u)' :
                  es'[i] = row[u] \/ (i \in DOMAIN es \cap PostsOf(u) /\ es'[i] = es[i])
  PROVE  IndexInv'
<1> SUFFICES ASSUME NEW u \in Users \ esMissed' PROVE EsNamed(u)'
  BY DEF IndexInv
<1>1. EsNamed(u) /\ row'[u] = row[u]
  BY DEF IndexInv
<1>2. Told' = Told /\ (ToDo(u, 1) => ToDo(u, 1)')
  BY DEF Told, Handled, ToDo
<1> QED BY <1>1, <1>2, IndexedKept

\* The tasks that were writing a post go on with the name they have.
LEMMA WritesNamed ==
  ASSUME IndexInv, NEW u \in Users \ esMissed, NEW t \in Tasks, Writes(t, u)
  PROVE  task[t].doc.name = row[u] /\ Posting(u) /\ ~Pending(u)
BY PostingParts DEF IndexInv, EsNamed, Writes

LEMMA StartIndexed ==
  ASSUME TypeInv, IndexInv, NEW t \in Tasks, NEW kind, NEW step, NEW id, NEW doc,
         Start(t, kind, step, id, doc),
         kind \in {"post", "edit"} /\ doc.user \in Users \ esMissed /\ ~Pending(doc.user)
           => doc.name = row[doc.user]
  PROVE  IndexInv'
<1>1. /\ UNCHANGED <<row, docs, es, outbox, queue, esQueue, worker>> /\ task[t] = None
      /\ esMissed' = IF kind \in {"post", "edit"} /\ Pending(doc.user)
                     THEN esMissed \cup {doc.user} ELSE esMissed
  BY DEF Start, eventVars
<1>2. /\ \A x \in Tasks \ {t} : task'[x] = task[x]
      /\ task'[t].kind = kind /\ task'[t].doc = doc
  BY DEF Start, TypeInv, TypeOK
<1>3. ASSUME NEW u \in Users \ esMissed', NEW x \in Tasks, Writes(x, u)'
      PROVE  task'[x].doc.name = row[u] /\ (Posting(u) \/ ~Pending(u))
  <2>1. u \in Users \ esMissed
    BY <1>1
  <2>2. CASE x # t
    <3>1. Writes(x, u) /\ task'[x] = task[x]
      BY <1>2, <1>3, <2>2 DEF Writes
    <3> QED BY <2>1, <3>1, WritesNamed
  <2>3. CASE x = t
    <3>1. kind \in {"post", "edit"} /\ doc.user = u
      BY <1>2, <1>3, <2>3 DEF Writes
    <3>2. ~Pending(u)
      BY <1>1, <3>1
    <3> QED BY <1>2, <2>1, <2>3, <3>1, <3>2
  <2> QED BY <2>2, <2>3
<1>4. \A u : PostsOf(u)' = PostsOf(u)
  BY <1>1 DEF PostsOf, Posts, Ids
<1>5. \A u : /\ \A i \in PostsOf(u)' : i \in PostsOf(u) /\ docs'[i].name = docs[i].name
             /\ \A i \in DOMAIN es' \cap PostsOf(u)' : i \in DOMAIN es \cap PostsOf(u) /\ es'[i] = es[i]
  BY <1>1, <1>4
<1> QED BY <1>1, <1>3, <1>5, TasksIndexed

\* A post is read when nothing is under way for its author: it has his name.
LEMMA ReadNamed ==
  ASSUME IndexInv, NEW u \in Users \ esMissed, ~Pending(u), NEW i \in Posts, docs[i].user = u
  PROVE  docs[i].name = row[u]
<1>1. ~ToDo(u, 1)
  BY DEF Pending, ToDo, Handled
<1> QED BY <1>1 DEF IndexInv, EsNamed, PostsOf

LEMMA BeginIndexed ==
  ASSUME TypeInv, IndexInv, NEW t \in Tasks,
         \/ \E u \in Users : \/ CreatePost(t, u) \/ CreateComment(t, u)
                             \/ \E v \in Users : FollowUser(t, u, v)
         \/ \E i \in Ids : UpdatePost(t, i)
  PROVE  IndexInv'
<1>1. ASSUME NEW u \in Users, CreatePost(t, u) PROVE IndexInv'
  <2> DEFINE d == By("posts", u, None, None)
  <2>1. d.user = u /\ d.name = row[u]
    BY DEF By
  <2>2. Start(t, "post", "save", NewId, d)
    BY <1>1 DEF CreatePost
  <2> HIDE DEF d
  <2> QED BY <2>1, <2>2, StartIndexed
<1>2. ASSUME NEW i \in Ids, UpdatePost(t, i) PROVE IndexInv'
  <2>1. i \in Posts /\ Start(t, "edit", "save", i, docs[i])
    BY <1>2 DEF UpdatePost
  <2> QED BY <2>1, ReadNamed, StartIndexed
<1>3. ASSUME NEW u \in Users, CreateComment(t, u) \/ \E v \in Users : FollowUser(t, u, v)
      PROVE  IndexInv'
  BY <1>3, StartIndexed DEF CreateComment, FollowUser
<1> QED BY <1>1, <1>2, <1>3

\* Documents and index stay, and no post is begun.
LEMMA StillIndexed ==
  ASSUME IndexInv, UNCHANGED <<row, docs, es, outbox, queue, esQueue, worker>>,
         esMissed \subseteq esMissed',
         \A t \in Tasks : \A u \in Users \ esMissed' :
             Writes(t, u)' => task'[t].doc.name = row[u] /\ (Posting(u) \/ ~Pending(u))
  PROVE  IndexInv'
<1>1. \A u : PostsOf(u)' = PostsOf(u)
  BY DEF PostsOf, Posts, Ids
<1>2. \A u : /\ \A i \in PostsOf(u)' : i \in PostsOf(u) /\ docs'[i].name = docs[i].name
             /\ \A i \in DOMAIN es' \cap PostsOf(u)' : i \in DOMAIN es \cap PostsOf(u) /\ es'[i] = es[i]
  BY <1>1
<1> QED BY <1>2, TasksIndexed

LEMMA HandleFollowIndexed ==
  ASSUME TypeInv, IndexInv, NEW t \in Tasks, NEW f \in followed, HandleFollow(t, f)
  PROVE  IndexInv'
<1>1. CASE row[f[1]] = Gone
  <2>1. UNCHANGED <<row, docs, es, outbox, queue, esQueue, worker, task, esMissed>>
    BY <1>1 DEF HandleFollow, eventVars, historyVars
  <2>2. \A x \in Tasks : \A u \in Users \ esMissed' : Writes(x, u)' => Writes(x, u) /\ task'[x] = task[x]
    BY <2>1 DEF Writes
  <2>3. \A x \in Tasks : \A u \in Users \ esMissed' :
           Writes(x, u)' => task'[x].doc.name = row[u] /\ (Posting(u) \/ ~Pending(u))
    BY <2>1, <2>2, WritesNamed
  <2> QED BY <2>1, <2>3, StillIndexed
<1>2. CASE row[f[1]] # Gone
  BY <1>2, StartIndexed DEF HandleFollow
<1> QED BY <1>1, <1>2

LEMMA TaskIndexed ==
  ASSUME TypeInv, IndexInv, NEW t \in Tasks,
         FindParent(t) \/ PublishFollow(t) \/ TaskFails(t) \/ Reread(t)
  PROVE  IndexInv'
<1>1. /\ UNCHANGED <<row, docs, es, outbox, queue, esQueue, worker>> /\ esMissed \subseteq esMissed'
      /\ \A x \in Tasks \ {t} : task'[x] = task[x]
  BY DEF FindParent, PublishFollow, TaskFails, Reread, Fault, eventVars, historyVars, TypeInv, TypeOK
<1>2. ASSUME NEW u \in Users \ esMissed', Writes(t, u)'
      PROVE  task'[t].doc.name = row[u] /\ (Posting(u) \/ ~Pending(u))
  <2>1. ~PublishFollow(t) /\ ~TaskFails(t)
    BY <1>2 DEF PublishFollow, TaskFails, Writes, TypeInv, TypeOK
  <2>2. ~FindParent(t)
    <3> SUFFICES ASSUME FindParent(t) PROVE FALSE
      OBVIOUS
    <3>1. task[t].kind = "comment" /\ \E d \in Doc : task' = [task EXCEPT ![t] = Onward(task[t], "save", d)]
      BY ParentParts
    <3>2. task'[t].kind = "comment"
      BY <3>1 DEF Onward, TypeInv, TypeOK
    <3> QED BY <1>2, <3>2 DEF Writes
  <2>3. Reread(t)
    BY <2>1, <2>2
  <2> DEFINE i == task[t].id
  <2>4. /\ task[t] # None /\ task[t].kind \in {"post", "edit"} /\ i \in Posts
        /\ docs[i].user = task[t].doc.user
    BY <2>3, PostTaskParts DEF Reread
  <2>5. task'[t].doc = docs[i]
    BY <2>3 DEF Reread, Onward, TypeInv, TypeOK
  <2> HIDE DEF i
  <2>6. Writes(t, u)
    BY <1>2, <2>4, <2>5 DEF Writes
  <2>7. u \in Users \ esMissed /\ docs[i].user = u
    BY <1>1, <2>4, <2>6 DEF Writes
  <2>8. ~Pending(u)
    BY <2>6, <2>7, WritesNamed
  <2> QED BY <2>4, <2>5, <2>7, <2>8, ReadNamed
<1>3. ASSUME NEW x \in Tasks, NEW u \in Users \ esMissed', Writes(x, u)'
      PROVE  task'[x].doc.name = row[u] /\ (Posting(u) \/ ~Pending(u))
  <2>1. CASE x = t
    BY <1>2, <1>3, <2>1
  <2>2. CASE x # t
    <3>1. Writes(x, u) /\ task'[x] = task[x]
      BY <1>1, <1>3, <2>2 DEF Writes
    <3> QED BY <1>1, <3>1, WritesNamed
  <2> QED BY <2>1, <2>2
<1> QED BY <1>1, <1>3, StillIndexed

LEMMA IndexIndexed ==
  ASSUME TypeInv, IndexInv, NEW t \in Tasks, Index(t)
  PROVE  IndexInv'
<1> DEFINE p == task[t].id
           d == task[t].doc
<1>1. /\ UNCHANGED <<row, docs, outbox, queue, esQueue, worker, esMissed>>
      /\ es' = Put(es, p, d.name) /\ task' = [task EXCEPT ![t] = None] /\ task[t] # None
  BY DEF Index, eventVars, historyVars
<1>2. task[t].kind \in {"post", "edit"} /\ docs[p].user = d.user
  BY PostTaskParts DEF Index
<1>3. DOMAIN es' = DOMAIN es \cup {p} /\ \A i \in DOMAIN es' : es'[i] = IF i = p THEN d.name ELSE es[i]
  BY <1>1 DEF Put
<1>4. \A x \in Tasks : \A u : Writes(x, u)' => Writes(x, u) /\ task'[x] = task[x]
  BY <1>1 DEF Writes, TypeInv, TypeOK
<1>5. \A u : PostsOf(u)' = PostsOf(u)
  BY <1>1 DEF PostsOf, Posts, Ids
<1>6. \A u : d.user = u => Writes(t, u)
  BY <1>1, <1>2 DEF Writes
<1> HIDE DEF p, d
<1>7. ASSUME NEW u \in Users \ esMissed'
      PROVE  /\ \A x \in Tasks : Writes(x, u)' => /\ task'[x].doc.name = row[u]
                                                  /\ Posting(u) \/ ~Pending(u)
             /\ \A i \in PostsOf(u)' : i \in PostsOf(u) /\ docs'[i].name = docs[i].name
             /\ \A i \in DOMAIN es' \cap PostsOf(u)' :
                   es'[i] = row[u] \/ (i \in DOMAIN es \cap PostsOf(u) /\ es'[i] = es[i])
  <2>1. u \in Users \ esMissed
    BY <1>1
  <2>2. p \in PostsOf(u) => d.name = row[u]
    <3>1. p \in PostsOf(u) => Writes(t, u)
      BY <1>2, <1>6 DEF PostsOf
    <3> QED BY <2>1, <3>1, WritesNamed DEF d
  <2> QED BY <1>1, <1>3, <1>4, <1>5, <2>1, <2>2, WritesNamed
<1> QED BY <1>1, <1>7, TasksIndexed

LEMMA SaveIndexed ==
  ASSUME TypeInv, IndexInv, NEW t \in Tasks, Save(t)
  PROVE  IndexInv'
<1> DEFINE d == task[t].doc
<1>1. /\ task[t] # None /\ task[t] \in Task /\ d.coll = CollOf(task[t].kind)
      /\ UNCHANGED <<row, es, eventVars, followed, historyVars, changes, writes, faults>>
      /\ \/ task' = [task EXCEPT ![t] = None] /\ UNCHANGED docs
         \/ \E p \in NextIds : SavedAt(t, p)
  BY SaveParts
<1>2. UNCHANGED <<row, es, outbox, queue, esQueue, worker, esMissed>>
  BY <1>1 DEF eventVars, historyVars
<1>3. d.coll = "posts" => task[t].kind \in {"post", "edit"}
  BY <1>1, TaskParts DEF CollOf
<1>4. \A x \in Tasks : \A u : Writes(x, u)' => Writes(x, u) /\ task'[x].doc = task[x].doc
  <2>1. \/ task' = [task EXCEPT ![t] = None]
        \/ \E s : task' = [task EXCEPT ![t] = Onward(task[t], s, d)]
    BY <1>1 DEF SavedAt
  <2>2. \A s : Onward(task[t], s, d).doc = d /\ Onward(task[t], s, d).kind = task[t].kind
    BY DEF Onward
  <2>3. /\ \A x \in Tasks \ {t} : task'[x] = task[x]
        /\ task'[t] = None \/ (task'[t].doc = d /\ task'[t].kind = task[t].kind)
    <3> HIDE DEF d
    <3> QED BY <2>1, <2>2 DEF TypeInv, TypeOK
  <2> QED BY <1>1, <2>3 DEF Writes
<1>5. \A u : d.coll = "posts" /\ d.user = u => Writes(t, u)
  BY <1>1, <1>3 DEF Writes
<1>6. \/ UNCHANGED docs
      \/ \E p : /\ Ids' = Ids \cup {p} /\ docs'[p] = d /\ \A i \in Ids \ {p} : docs'[i] = docs[i]
                /\ p \in Ids => docs[p].user = d.user
  BY <1>1 DEF SavedAt
<1>7. \A u : \A i \in PostsOf(u)' : \/ i \in PostsOf(u) /\ docs'[i] = docs[i]
                                    \/ docs'[i] = d /\ d.coll = "posts" /\ d.user = u
  <2> HIDE DEF d
  <2> QED BY <1>6 DEF PostsOf, Posts, Ids
<1>8. \A u : \A i \in PostsOf(u)' : i \in DOMAIN es => i \in PostsOf(u)
  <2> HIDE DEF d
  <2>1. DOMAIN es \subseteq Posts /\ Posts \subseteq Ids
    BY DEF Posts, TypeInv, TypeOK
  <2>2. CASE UNCHANGED docs
    BY <2>2 DEF PostsOf, Posts, Ids
  <2>3. ASSUME NEW p, Ids' = Ids \cup {p}, docs'[p] = d, \A i \in Ids \ {p} : docs'[i] = docs[i],
               p \in Ids => docs[p].user = d.user
        PROVE  \A u : \A i \in PostsOf(u)' : i \in DOMAIN es => i \in PostsOf(u)
    BY <2>1, <2>3 DEF PostsOf
  <2> QED BY <1>6, <2>2, <2>3
<1>9. ASSUME NEW u \in Users \ esMissed'
      PROVE  /\ \A x \in Tasks : Writes(x, u)' => /\ task'[x].doc.name = row[u]
                                                  /\ Posting(u) \/ ~Pending(u)
             /\ \A i \in PostsOf(u)' : \/ docs'[i].name = row[u]
                                       \/ i \in PostsOf(u) /\ docs'[i].name = docs[i].name
             /\ \A i \in DOMAIN es' \cap PostsOf(u)' :
                   es'[i] = row[u] \/ (i \in DOMAIN es \cap PostsOf(u) /\ es'[i] = es[i])
  <2>1. u \in Users \ esMissed
    BY <1>2
  <2>2. d.coll = "posts" /\ d.user = u => d.name = row[u]
    BY <1>5, <2>1, WritesNamed
  <2>3. \A x \in Tasks : Writes(x, u)' => /\ task'[x].doc.name = row[u]
                                          /\ Posting(u) \/ ~Pending(u)
    BY <1>4, <2>1, WritesNamed
  <2> HIDE DEF d
  <2> QED BY <1>2, <1>7, <1>8, <2>2, <2>3
<1> QED BY <1>2, <1>9, TasksIndexed

LEMMA UnfollowIndexed ==
  ASSUME IndexInv, NEW x \in Users, NEW y \in Users, UnfollowUser(x, y)
  PROVE  IndexInv'
<1>1. /\ UNCHANGED <<row, es, outbox, queue, esQueue, worker, task, esMissed>>
      /\ \A i \in Ids' : i \in Ids /\ docs'[i] = docs[i]
  BY DEF UnfollowUser, Ids, Restrict, eventVars, historyVars
<1>2. \A u : \A i \in PostsOf(u)' : i \in PostsOf(u) /\ docs'[i] = docs[i]
  BY <1>1 DEF PostsOf, Posts
<1>3. \A t \in Tasks : \A u : Writes(t, u)' => Writes(t, u) /\ task'[t] = task[t]
  BY <1>1 DEF Writes
<1>4. \A u \in Users \ esMissed' : \A t \in Tasks : Writes(t, u)' =>
          task'[t].doc.name = row[u] /\ (Posting(u) \/ ~Pending(u))
  BY <1>1, <1>3, WritesNamed
<1> QED BY <1>1, <1>2, <1>4, TasksIndexed

LEMMA NextIndex ==
  ASSUME TypeInv, IndexInv, [Next]_vars
  PROVE  IndexInv'
<1>1. ASSUME NEW u \in Changing, Rename(u) \/ DeleteUser(u) PROVE IndexInv'
  BY <1>1, ChangeIndexed, ProfileAssumption DEF Rename, DeleteUser
<1>2. ASSUME NEW w \in Workers,
             (\E e \in queue : Take(w, e)) \/ Run(w) \/ StatementFails(w) \/ Dies(w)
      PROVE  IndexInv'
  BY <1>2, WorkersIndexed, RunIndexed
<1>3. ASSUME NEW t \in Tasks,
             \/ \E u \in Users : \/ CreatePost(t, u) \/ CreateComment(t, u)
                                 \/ \E v \in Users : FollowUser(t, u, v)
             \/ \E i \in Ids : UpdatePost(t, i)
             \/ \E f \in followed : HandleFollow(t, f)
             \/ FindParent(t) \/ Save(t) \/ PublishFollow(t) \/ Reread(t) \/ Index(t)
             \/ TaskFails(t)
      PROVE  IndexInv'
  BY <1>3, BeginIndexed, HandleFollowIndexed, TaskIndexed, SaveIndexed, IndexIndexed
<1>4. CASE UNCHANGED vars
  <2>1. UNCHANGED <<row, docs, es, outbox, queue, esQueue, worker, task, esMissed>>
    BY <1>4 DEF vars, eventVars, historyVars
  <2>2. \A x \in Tasks : \A u : Writes(x, u)' => Writes(x, u) /\ task'[x] = task[x]
    BY <2>1 DEF Writes
  <2>3. \A x \in Tasks : \A u \in Users \ esMissed' :
           Writes(x, u)' => task'[x].doc.name = row[u] /\ (Posting(u) \/ ~Pending(u))
    BY <2>1, <2>2, WritesNamed
  <2> QED BY <2>1, <2>3, StillIndexed
<1> QED BY <1>1, <1>2, <1>3, <1>4, PublishIndexed, RenameIndexedIndexed, UnfollowIndexed DEF Next

LEMMA IndexInvHolds == Spec => []IndexInv
<1>1. TypeInv /\ IndexInv /\ [Next]_vars => IndexInv'
  BY NextIndex
<1> QED BY InitIndex, TypeInvHolds, <1>1, PTL DEF Spec

\* When all is handled, the index names a post's author as MySQL does: of an author for
\* whom nothing overlapped, no post is written while an event of his name is under way
\* (handleESUserUpdate, handlePostUpdate).
THEOREM IndexNamesAreCopied == Spec => []IndexNamesSettle
<1>1. TypeInv /\ IndexInv => IndexNamesSettle
  <2> SUFFICES ASSUME TypeInv, IndexInv, Quiet, NEW i \in DOMAIN es,
                      docs[i].user \notin esMissed, row[docs[i].user] # Gone
               PROVE  es[i] = row[docs[i].user]
    BY DEF IndexNamesSettle
  <2>1. i \in Posts /\ docs[i] \in Doc
    BY DEF Posts, TypeInv, TypeOK
  <2>2. docs[i].user \in Users \ esMissed /\ i \in PostsOf(docs[i].user)
    BY <2>1, DocParts DEF PostsOf
  <2>3. outbox = {} /\ esQueue = {}
    BY DEF Quiet
  <2> QED BY <2>2, <2>3 DEF IndexInv, EsNamed
<1> QED BY <1>1, TypeInvHolds, IndexInvHolds, PTL
=============================================================================
