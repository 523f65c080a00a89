--------------------------- MODULE CommentsProofs ---------------------------
(***************************************************************************)
(* What Comments guarantees for every set of comments and handlers and any *)
(* number of faults, for requests that do not name a comment another       *)
(* request works on.                                                       *)
(***************************************************************************)
EXTENDS Comments, FiniteSetTheorems, TLAPS

-----------------------------------------------------------------------------
(* What handlers and events know of the comments they are about. *)

Creating(p) == pc[p] \in {"parent", "increment", "insert", "publish", "undoinsert", "undocount"}

\* A root that stays: its creation was answered, or published.
Firm(r) ==
    /\ r \in drawn /\ docs[r] # None /\ docs[r].root = None
    /\ \A p \in Procs : Creating(p) => id[p] # r

HandlerOK(p) ==
    /\ Idle(p) => id[p] = None /\ parent[p] = None /\ root[p] = None
    /\ ~Idle(p) => id[p] \in drawn
    /\ Creating(p) => Author[id[p]] # Bot
    /\ parent[p] # None => Creating(p) /\ parent[p] \in drawn
    /\ pc[p] = "parent" => parent[p] # None
    /\ pc[p] \in {"parent", "find"} => root[p] = None
    /\ pc[p] \in {"increment", "undocount", "publishdelete"} => root[p] # None
    /\ root[p] # None => Firm(root[p])
    /\ pc[p] \in {"parent", "increment", "insert", "publishdelete"} => docs[id[p]] = None
    /\ pc[p] \in {"publish", "undoinsert", "remove"} =>
         docs[id[p]] # None /\ docs[id[p]].root = root[p]

HandlersOK ==
    /\ \A p \in Procs : HandlerOK(p)
    /\ \A p, q \in Procs : id[p] # None /\ id[p] = id[q] => p = q
    /\ \A p, q \in Procs : id[p] # None => parent[q] # id[p]

DocsOK == \A c \in Present : c \in drawn /\ (docs[c].root # None => Firm(docs[c].root))

\* An event is about a comment nobody creates any more; once it is deleted it
\* is gone, and its creation was told before.
EventOK(e) ==
    /\ e.id \in drawn
    /\ \A p \in Procs : Creating(p) => id[p] # e.id
    /\ e.root # None => Firm(e.root)
    /\ e.type = "CREATE" /\ e.root = None => Firm(e.id)
    /\ e.type = "DELETE" => e.root # None /\ docs[e.id] = None
                              /\ \A p \in Procs : pc[p] = "publishdelete" => id[p] # e.id

Events == 1..Len(queue)

QueueOK ==
    /\ \A i \in Events : EventOK(queue[i])
    /\ \A i, j \in Events : queue[i].id = queue[j].id /\ queue[i].type = queue[j].type => i = j
    /\ \A i, j \in Events : queue[i].id = queue[j].id /\ queue[i].type = "DELETE" => j <= i
    /\ step # "start" => queue # <<>>
    /\ step \in {"notify", "answer", "countanswer", "countreply"} => First.type = "CREATE"
    /\ step = "uncount" => First.type = "DELETE"

TypeInv == TypeOK /\ HandlersOK /\ DocsOK /\ QueueOK
-----------------------------------------------------------------------------
(* What is still to be counted. *)

\* Comments whose creation commentCount does not know yet.
Uncounted ==
    {c \in Ids :
        \/ \E p \in Procs : pc[p] \in {"publish", "undoinsert"} /\ id[p] = c
        \/ \E i \in Events : /\ queue[i].type = "CREATE" /\ queue[i].id = c
                             /\ i = 1 => step = "start"}

\* Replies that were removed, which commentCount does not know yet.
Gone ==
    {c \in Ids :
        \/ \E p \in Procs : pc[p] = "publishdelete" /\ id[p] = c
        \/ \E i \in Events : /\ queue[i].type = "DELETE" /\ queue[i].id = c
                             /\ i = 1 => step # "uncount"}

\* The comments commentCount is about.
Known == Present \cup Gone

Answered == IF step = "countanswer" THEN 1 ELSE 0

\* commentCount is the number of comments but for what is on its way, and each
\* fault moves it by one.
CountInv ==
    /\ Near(commentCount + Answered + Cardinality(Uncounted), Cardinality(Known), harm)
    /\ Cardinality(Uncounted \ Known) <= harm

\* Replies of r that were removed and are still in its count.
GoneFrom(r) ==
    {c \in Ids :
        \/ \E p \in Procs : pc[p] = "publishdelete" /\ id[p] = c /\ root[p] = r
        \/ \E i \in Events : queue[i].type = "DELETE" /\ queue[i].id = c /\ queue[i].root = r}

\* Handlers that have increased the count of r for a comment that is not there.
Ahead(r) == {p \in Procs : pc[p] \in {"insert", "undocount"} /\ root[p] = r}

Answering(r) == step \in {"countanswer", "countreply"} /\ AnswerRoot(First) = r

Replies(r) == SubList(r) \cup GoneFrom(r)

\* What replyCount would be if nothing was on its way and nothing had failed.
Total(r) == Cardinality(Replies(r)) + Cardinality(Ahead(r))
Shown(r) == docs[r].replyCount + (IF Answering(r) THEN 1 ELSE 0)

\* The AI's answer is there while it is not counted.
RootCount(r) ==
    /\ Near(Shown(r), Total(r), harm)
    /\ Answering(r) => harm > 0 \/ \E b \in Replies(r) : Author[b] = Bot

RepliesInv == \A r \in RootList : RootCount(r)
-----------------------------------------------------------------------------
(* Facts about sequences. *)

LEMMA AppendFacts ==
  ASSUME NEW S, NEW q \in Seq(S), NEW e \in S
  PROVE  /\ Append(q, e) \in Seq(S)
         /\ Len(q) \in Nat /\ Len(Append(q, e)) = Len(q) + 1
         /\ \A i \in 1..Len(q) : Append(q, e)[i] = q[i]
         /\ Append(q, e)[Len(q) + 1] = e
         /\ Append(q, e) # <<>>
         /\ q # <<>> => Head(Append(q, e)) = Head(q)
<1>1. Append(q, e) \in Seq(S) /\ Len(q) \in Nat /\ Len(Append(q, e)) = Len(q) + 1
  OBVIOUS
<1>2. \A i \in 1..Len(q) : Append(q, e)[i] = q[i]
  OBVIOUS
<1>3. Append(q, e)[Len(q) + 1] = e
  OBVIOUS
<1>4. Append(q, e) # <<>>
  <2>1. Len(Append(q, e)) # 0
    BY <1>1
  <2>2. Len(<<>>) = 0
    OBVIOUS
  <2> QED BY <2>1, <2>2
<1>5. ASSUME q # <<>> PROVE Head(Append(q, e)) = Head(q)
  <2>1. 1 \in 1..Len(q) /\ Head(q) = q[1]
    BY <1>5
  <2>2. Head(Append(q, e)) = Append(q, e)[1]
    BY <1>1, <1>4
  <2> QED BY <1>2, <2>1, <2>2
<1> QED BY <1>1, <1>2, <1>3, <1>4, <1>5

LEMMA TailFacts ==
  ASSUME NEW S, NEW q \in Seq(S), q # <<>>
  PROVE  /\ Head(q) \in S /\ Head(q) = q[1]
         /\ Len(q) \in Nat /\ 1 \in 1..Len(q)
         /\ Tail(q) \in Seq(S)
         /\ Len(Tail(q)) = Len(q) - 1
         /\ \A i \in 1..Len(Tail(q)) : i + 1 \in 1..Len(q) /\ Tail(q)[i] = q[i + 1]
         /\ \A i \in 1..Len(q) : i # 1 => i - 1 \in 1..Len(Tail(q)) /\ Tail(q)[i - 1] = q[i]
OBVIOUS
-----------------------------------------------------------------------------
(* Types. *)

LEMMA InitTypeInv == Init => TypeInv
<1> SUFFICES ASSUME Init PROVE TypeInv
  OBVIOUS
<1>1. TypeOK
  BY DEF Init, TypeOK, ListenerSteps
<1>2. HandlersOK
  BY CommentsAssumption DEF Init, HandlersOK, HandlerOK, Creating, Idle
<1>3. DocsOK
  BY DEF Init, DocsOK, Present
<1>4. QueueOK
  BY DEF Init, QueueOK, Events
<1> QED BY <1>1, <1>2, <1>3, <1>4 DEF TypeInv

\* A comment changes at most its count and its text.
SameKind(c) ==
    /\ docs'[c] = None <=> docs[c] = None
    /\ docs[c] # None => docs'[c].root = docs[c].root

LEMMA FirmStays ==
  ASSUME drawn \subseteq drawn', NEW r, Firm(r),
         docs'[r] # None /\ docs'[r].root = None,
         \A p \in Procs : Creating(p)' => (Creating(p) /\ id'[p] = id[p]) \/ id'[p] \notin drawn
  PROVE  Firm(r)'
BY DEF Firm

\* A handler takes a step that ends or continues its request and may change the
\* document of its comment.
LEMMA HandlerStep ==
  ASSUME TypeInv, TypeOK', NEW p \in Procs,
         \A q \in Procs \ {p} :
            pc'[q] = pc[q] /\ id'[q] = id[q] /\ parent'[q] = parent[q] /\ root'[q] = root[q],
         drawn' = drawn, queue' = queue, step' = step,
         id'[p] \in {id[p], None}, parent'[p] \in {parent[p], None},
         Creating(p)' => Creating(p) /\ id'[p] = id[p],
         \A c \in Ids : c # id[p] => SameKind(c),
         Firm(id[p]) => docs'[id[p]] # None /\ docs'[id[p]].root = None,
         docs[id[p]] = None => docs'[id[p]] = None \/ Creating(p),
         docs'[id[p]] # None => SameKind(id[p]) \/ docs'[id[p]].root = root[p],
         pc'[p] = "publishdelete" => id'[p] = id[p] /\ docs[id[p]] # None,
         ~Idle(p),
         (\A r \in Ids : Firm(r) => Firm(r)') => HandlerOK(p)'
  PROVE  TypeInv'
<1> USE CommentsAssumption
<1>1. id[p] \in drawn /\ id[p] \in Ids /\ drawn \subseteq Ids
  BY DEF TypeInv, TypeOK, HandlersOK, HandlerOK
<1>2. ASSUME NEW q \in Procs, Creating(q)' PROVE Creating(q) /\ id'[q] = id[q]
  BY <1>2 DEF Creating
<1>3. ASSUME NEW r \in Ids, Firm(r) PROVE Firm(r)'
  <2>1. docs'[r] # None /\ docs'[r].root = None
    BY <1>3 DEF SameKind, Firm
  <2> QED BY <1>2, <1>3, <2>1, FirmStays
<1>4. HandlersOK'
  <2>1. ASSUME NEW q \in Procs \ {p} PROVE HandlerOK(q)'
    <3>1. HandlerOK(q) /\ (id[q] # None => id[q] # id[p] /\ id[q] \in Ids)
      BY <1>1 DEF TypeInv, TypeOK, HandlersOK
    <3>2. root[q] \in Ids \cup {None}
      BY DEF TypeInv, TypeOK
    <3>3. id[q] # None => SameKind(id[q])
      BY <3>1
    <3>4. Idle(q)' <=> Idle(q)
      BY DEF Idle
    <3>5. Creating(q)' <=> Creating(q)
      BY DEF Creating
    <3>6. ~Idle(q) => id[q] # None
      BY <1>1, <3>1 DEF HandlerOK
    <3> QED BY <1>3, <3>1, <3>2, <3>3, <3>4, <3>5, <3>6 DEF HandlerOK, SameKind, Idle
  <2>2. HandlerOK(p)'
    BY <1>3
  <2> QED BY <2>1, <2>2 DEF TypeInv, HandlersOK
<1>5. DocsOK'
  <2> SUFFICES ASSUME NEW c \in Ids, docs'[c] # None
               PROVE  c \in drawn' /\ (docs'[c].root # None => Firm(docs[c].root)')
    BY DEF DocsOK, Present
  <2>1. CASE SameKind(c)
    <3>1. docs[c] # None /\ docs'[c].root = docs[c].root
      BY <2>1 DEF SameKind
    <3>2. docs[c].root \in Ids \cup {None}
      BY <3>1 DEF TypeInv, TypeOK, Doc
    <3> QED BY <1>3, <3>1, <3>2 DEF TypeInv, DocsOK, Present
  <2>2. CASE ~SameKind(c)
    <3>1. c = id[p] /\ docs'[c].root = root[p]
      BY <2>2
    <3>2. root[p] \in Ids \cup {None} /\ (root[p] # None => Firm(root[p]))
      BY DEF TypeInv, TypeOK, HandlersOK, HandlerOK
    <3> QED BY <1>1, <1>3, <3>1, <3>2
  <2> QED BY <2>1, <2>2
<1>6. ASSUME NEW i \in Events PROVE EventOK(queue[i])'
  <2> DEFINE e == queue[i]
  <2>1. e \in CommentEvent /\ EventOK(e)
    BY <1>6 DEF TypeInv, TypeOK, QueueOK, Events
  <2>2. e.id \in Ids /\ e.root \in Ids \cup {None}
    BY <2>1 DEF CommentEvent
  <2>3. docs[e.id] = None => docs'[e.id] = None \/ (e.id = id[p] /\ Creating(p))
    BY <2>2 DEF SameKind
  <2>4. e.type = "DELETE" => docs'[e.id] = None
    BY <2>1, <2>3 DEF EventOK
  <2>5. ASSUME e.type = "DELETE", NEW q \in Procs, pc'[q] = "publishdelete" PROVE id'[q] # e.id
    BY <2>1, <2>5 DEF EventOK
  <2>6. \A q \in Procs : Creating(q)' => id'[q] # e.id
    BY <1>2, <2>1 DEF EventOK
  <2>7. /\ e.root # None => Firm(e.root)'
        /\ e.type = "CREATE" /\ e.root = None => Firm(e.id)'
    BY <1>3, <2>1, <2>2 DEF EventOK
  <2>8. e.id \in drawn' /\ queue' = queue
    BY <2>1 DEF EventOK
  <2> HIDE DEF e
  <2>9. EventOK(e)'
    <3>1. e' = e
      BY <2>8 DEF e
    <3> QED BY <2>1, <2>4, <2>5, <2>6, <2>7, <2>8, <3>1 DEF EventOK
  <2> QED BY <2>9 DEF e
<1>7. QueueOK'
  <2>1. \A i \in Events' : EventOK(queue[i])'
    BY <1>6 DEF Events
  <2>2. First' = First
    BY DEF First
  <2> QED BY <2>1, <2>2 DEF TypeInv, QueueOK, Events
<1> QED BY <1>4, <1>5, <1>7 DEF TypeInv

\* Handlers go on with their request, or answer.
LEMMA GoToFacts ==
  ASSUME TypeOK, NEW p \in Procs, NEW s, GoTo(p, s)
  PROVE  /\ pc'[p] = s /\ id'[p] = id[p] /\ parent'[p] = parent[p] /\ root'[p] = root[p]
         /\ \A q \in Procs \ {p} :
              pc'[q] = pc[q] /\ id'[q] = id[q] /\ parent'[q] = parent[q] /\ root'[q] = root[q]
         /\ s \in {"idle"} \cup CreateSteps \cup DeleteSteps =>
              /\ pc' \in [Procs -> {"idle"} \cup CreateSteps \cup DeleteSteps]
              /\ op' \in [Procs -> {"create", "delete", None}]
              /\ id' \in [Procs -> Ids \cup {None}]
              /\ parent' \in [Procs -> Ids \cup {None}]
              /\ root' \in [Procs -> Ids \cup {None}]
BY DEF TypeOK, GoTo

LEMMA ReplyFacts ==
  ASSUME TypeOK, NEW p \in Procs, Reply(p)
  PROVE  /\ pc'[p] = "idle" /\ id'[p] = None /\ parent'[p] = None /\ root'[p] = None
         /\ \A q \in Procs \ {p} :
              pc'[q] = pc[q] /\ id'[q] = id[q] /\ parent'[q] = parent[q] /\ root'[q] = root[q]
         /\ pc' \in [Procs -> {"idle"} \cup CreateSteps \cup DeleteSteps]
         /\ op' \in [Procs -> {"create", "delete", None}]
         /\ id' \in [Procs -> Ids \cup {None}]
         /\ parent' \in [Procs -> Ids \cup {None}]
         /\ root' \in [Procs -> Ids \cup {None}]
BY DEF TypeOK, Reply

LEMMA ReplyHandlerOK ==
  ASSUME TypeOK, NEW p \in Procs, Reply(p)
  PROVE  HandlerOK(p)' /\ ~Creating(p)'
BY ReplyFacts, CommentsAssumption DEF HandlerOK, Creating, Idle

\* A document's count changes.
LEMMA AddReplyFacts ==
  ASSUME TypeOK, NEW r \in Ids, NEW n \in Int, AddReply(r, n),
         docs[r] # None => docs[r].replyCount + n \in Nat
  PROVE  /\ docs' \in [Ids -> Doc \cup {None}]
         /\ \A c \in Ids : SameKind(c)
         /\ \A c \in Ids : c # r => docs'[c] = docs[c]
         /\ docs[r] # None => docs'[r].replyCount = docs[r].replyCount + n
<1>1. CASE docs[r] = None
  BY <1>1 DEF AddReply, SameKind, TypeOK
<1>2. CASE docs[r] # None
  <2> DEFINE d == [docs[r] EXCEPT !.replyCount = @ + n]
  <2>1. docs' = [docs EXCEPT ![r] = d]
    BY <1>2 DEF AddReply
  <2>2. d \in Doc /\ d.root = docs[r].root /\ d.replyCount = docs[r].replyCount + n
    BY <1>2 DEF TypeOK, Doc
  <2>3. d # None
    BY <2>2, CommentsAssumption
  <2> HIDE DEF d
  <2> QED BY <1>2, <2>1, <2>2, <2>3 DEF TypeOK, SameKind
<1> QED BY <1>1, <1>2

LEMMA DropReplyFacts ==
  ASSUME TypeOK, NEW r \in Ids, DropReply(r)
  PROVE  /\ docs' \in [Ids -> Doc \cup {None}]
         /\ \A c \in Ids : SameKind(c)
         /\ \A c \in Ids : c # r => docs'[c] = docs[c]
         /\ docs[r] # None =>
              docs'[r].replyCount = IF docs[r].replyCount > 0 THEN docs[r].replyCount - 1 ELSE 0
<1>1. docs[r] # None => docs[r].replyCount \in Nat
  BY DEF TypeOK, Doc
<1>2. CASE docs[r] # None /\ docs[r].replyCount > 0
  BY <1>1, <1>2, AddReplyFacts DEF DropReply
<1>3. CASE ~(docs[r] # None /\ docs[r].replyCount > 0)
  BY <1>1, <1>3 DEF DropReply, SameKind, TypeOK
<1> QED BY <1>2, <1>3

\* A root is marked as deleted.
LEMMA MarkFacts ==
  ASSUME TypeOK, NEW r \in Ids, docs[r] # None, docs' = [docs EXCEPT ![r].deleted = TRUE]
  PROVE  /\ docs' \in [Ids -> Doc \cup {None}]
         /\ \A c \in Ids : SameKind(c)
         /\ \A c \in Ids : docs[c] # None => docs'[c].replyCount = docs[c].replyCount
<1> DEFINE d == [docs[r] EXCEPT !.deleted = TRUE]
<1>1. docs[r] \in Doc
  BY DEF TypeOK
<1>2. d \in Doc /\ d.root = docs[r].root /\ d.replyCount = docs[r].replyCount
  BY <1>1 DEF Doc
<1>3. d # None
  BY <1>2, CommentsAssumption
<1>4. docs' = [docs EXCEPT ![r] = d]
  OBVIOUS
<1> HIDE DEF d
<1> QED BY <1>2, <1>3, <1>4 DEF TypeOK, SameKind

LEMMA NewDocFacts ==
  ASSUME NEW r \in Ids \cup {None}
  PROVE  NewDoc(r) \in Doc /\ NewDoc(r).root = r /\ NewDoc(r).replyCount = 0 /\ NewDoc(r) # None
<1>1. NewDoc(r) \in Doc /\ NewDoc(r).root = r /\ NewDoc(r).replyCount = 0
  BY DEF NewDoc, Doc
<1> QED BY <1>1, CommentsAssumption

\* Requests fail, or their comment or its parent is gone.
LEMMA ReplyTypeInv ==
  ASSUME TypeInv, NEW p \in Procs, Reply(p), ~Idle(p), docs' = docs, drawn' = drawn,
         queue' = queue, step' = step, UNCHANGED <<commentCount, notified>>,
         harm' \in Nat, refused' \in Nat
  PROVE  TypeInv'
<1>1. TypeOK'
  BY ReplyFacts DEF TypeInv, TypeOK
<1>2. \A c \in Ids : SameKind(c)
  BY DEF SameKind
<1>3. id[p] \in Ids
  BY DEF TypeInv, TypeOK, HandlersOK, HandlerOK
<1>4. docs[id[p]] # None => SameKind(id[p])
  BY <1>2, <1>3
<1> QED
  BY <1>1, <1>2, <1>4, HandlerStep, ReplyFacts, ReplyHandlerOK DEF TypeInv, Firm

LEMMA FindParentTypeInv ==
  ASSUME TypeInv, NEW p \in Procs, FindParent(p)
  PROVE  TypeInv'
<1> DEFINE t == parent[p]
           r == IF docs[t].root = None THEN t ELSE docs[t].root
<1>1. /\ pc[p] = "parent" /\ docs[t] # None
      /\ root' = [root EXCEPT ![p] = r] /\ pc' = [pc EXCEPT ![p] = "increment"]
      /\ UNCHANGED <<storeVars, listenerVars, op, id, parent, harm, refused>>
  BY DEF FindParent
<1>2. HandlerOK(p) /\ t \in drawn /\ t \in Ids /\ t # None
  BY <1>1 DEF TypeInv, TypeOK, HandlersOK, HandlerOK
<1>3. Firm(r) /\ r \in Ids
  <2>1. CASE docs[t].root = None
    <3>1. \A q \in Procs : Creating(q) => id[q] # t
      BY <1>2, CommentsAssumption DEF TypeInv, HandlersOK, HandlerOK, Creating, Idle, TypeOK
    <3> QED BY <1>1, <1>2, <2>1, <3>1 DEF Firm
  <2>2. CASE docs[t].root # None
    BY <1>1, <1>2, <2>2 DEF TypeInv, TypeOK, Doc, DocsOK, Present
  <2> QED BY <2>1, <2>2
<1>4. TypeOK'
  BY <1>1, <1>3 DEF TypeInv, TypeOK, storeVars, listenerVars, CreateSteps
<1>5. \A c \in Ids : SameKind(c)
  BY <1>1 DEF SameKind, storeVars
<1>6. id[p] \in Ids /\ ~Idle(p) /\ Creating(p) /\ Creating(p)'
  BY <1>1, <1>2 DEF TypeInv, TypeOK, HandlerOK, Idle, Creating
<1>7. ASSUME NEW x \in Ids, x = r, Firm(x)' PROVE HandlerOK(p)'
  <2>1. pc'[p] = "increment" /\ root'[p] = x
    BY <1>1, <1>7 DEF TypeInv, TypeOK
  <2>2. x # None
    BY CommentsAssumption
  <2>3. Firm(root[p])'
    BY <1>7, <2>1 DEF Firm
  <2> QED
    BY <1>1, <1>2, <1>6, <2>1, <2>2, <2>3
       DEF HandlerOK, Idle, Creating, storeVars
<1> HIDE DEF r
<1> QED
  BY <1>1, <1>3, <1>4, <1>5, <1>6, <1>7, HandlerStep
     DEF TypeInv, TypeOK, storeVars, listenerVars, Firm

LEMMA IncrementRootTypeInv ==
  ASSUME TypeInv, NEW p \in Procs, IncrementRoot(p)
  PROVE  TypeInv'
<1>1. HandlerOK(p) /\ id[p] \in Ids /\ root[p] \in Ids /\ Firm(root[p])
      /\ ~Idle(p) /\ Creating(p)
  BY DEF TypeInv, TypeOK, HandlersOK, HandlerOK, IncrementRoot, Idle, Creating
<1>2. docs[root[p]].replyCount + 1 \in Nat
  BY <1>1 DEF TypeInv, TypeOK, Doc, Firm
<1>3. docs' \in [Ids -> Doc \cup {None}] /\ \A c \in Ids : SameKind(c)
  BY <1>1, <1>2, AddReplyFacts DEF TypeInv, IncrementRoot
<1>4. GoTo(p, "insert") /\ pc[p] = "increment"
      /\ UNCHANGED <<drawn, commentCount, listenerVars, harm, refused>>
  BY DEF IncrementRoot
<1>5. TypeOK'
  BY <1>3, <1>4, GoToFacts DEF TypeInv, TypeOK, listenerVars, CreateSteps
<1>6. docs[id[p]] = None /\ SameKind(id[p])
  BY <1>1, <1>3, <1>4 DEF HandlerOK
<1>7. pc'[p] = "insert" /\ id'[p] = id[p] /\ parent'[p] = parent[p] /\ root'[p] = root[p]
      /\ \A q \in Procs \ {p} :
           pc'[q] = pc[q] /\ id'[q] = id[q] /\ parent'[q] = parent[q] /\ root'[q] = root[q]
  BY <1>4, GoToFacts DEF TypeInv
<1>8. ASSUME Firm(root[p])' PROVE HandlerOK(p)'
  BY <1>1, <1>4, <1>6, <1>7, <1>8 DEF HandlerOK, SameKind, Idle, Creating
<1>9. ASSUME \A r \in Ids : Firm(r) => Firm(r)' PROVE Firm(root[p])'
  <2>1. \A x \in Ids : x = root[p] => Firm(x)'
    BY <1>1, <1>9
  <2>2. \A x \in Ids : x = root'[p] => Firm(x)'
    BY <2>1, <1>7
  <2> QED BY <2>2, <1>1, <1>7 DEF Firm
<1>10. ~Firm(id[p])
  BY <1>1 DEF Firm
<1> QED
  BY <1>1, <1>3, <1>4, <1>5, <1>6, <1>7, <1>8, <1>9, <1>10, HandlerStep DEF listenerVars, Creating

LEMMA InsertCommentTypeInv ==
  ASSUME TypeInv, NEW p \in Procs, InsertComment(p)
  PROVE  TypeInv'
<1>1. HandlerOK(p) /\ id[p] \in Ids /\ root[p] \in Ids \cup {None}
      /\ ~Idle(p) /\ Creating(p)
  BY DEF TypeInv, TypeOK, HandlersOK, HandlerOK, InsertComment, Idle, Creating
<1>2. docs' = [docs EXCEPT ![id[p]] = NewDoc(root[p])] /\ GoTo(p, "publish") /\ pc[p] = "insert"
      /\ UNCHANGED <<drawn, commentCount, listenerVars, harm, refused>>
  BY DEF InsertComment
<1>3. docs' \in [Ids -> Doc \cup {None}] /\ docs'[id[p]] # None /\ docs'[id[p]].root = root[p]
      /\ \A c \in Ids : c # id[p] => SameKind(c)
  BY <1>1, <1>2, NewDocFacts DEF TypeInv, TypeOK, SameKind
<1>5. TypeOK'
  BY <1>2, <1>3, GoToFacts DEF TypeInv, TypeOK, listenerVars, CreateSteps
<1>7. pc'[p] = "publish" /\ id'[p] = id[p] /\ parent'[p] = parent[p] /\ root'[p] = root[p]
      /\ \A q \in Procs \ {p} :
           pc'[q] = pc[q] /\ id'[q] = id[q] /\ parent'[q] = parent[q] /\ root'[q] = root[q]
  BY <1>2, GoToFacts DEF TypeInv
<1>8. ASSUME root[p] # None => Firm(root[p])' PROVE HandlerOK(p)'
  BY <1>1, <1>2, <1>3, <1>7, <1>8 DEF HandlerOK, Idle, Creating
<1>9. ASSUME \A r \in Ids : Firm(r) => Firm(r)', root[p] # None PROVE Firm(root[p])'
  <2>1. \A x \in Ids : x = root[p] => Firm(x)'
    BY <1>1, <1>9 DEF HandlerOK
  <2>2. \A x \in Ids : x = root'[p] => Firm(x)'
    BY <2>1, <1>7
  <2> QED BY <2>2, <1>1, <1>7, <1>9 DEF Firm
<1>10. ~Firm(id[p])
  BY <1>1 DEF Firm
<1> QED
  BY <1>1, <1>2, <1>3, <1>5, <1>7, <1>8, <1>9, <1>10, HandlerStep DEF listenerVars, Creating

LEMMA UndoInsertTypeInv ==
  ASSUME TypeInv, NEW p \in Procs, UndoInsert(p)
  PROVE  TypeInv'
<1>1. HandlerOK(p) /\ id[p] \in Ids /\ root[p] \in Ids \cup {None}
      /\ ~Idle(p) /\ Creating(p) /\ ~Firm(id[p])
  BY DEF TypeInv, TypeOK, HandlersOK, HandlerOK, UndoInsert, Idle, Creating, Firm
<1>2. pc[p] = "undoinsert" /\ (IF root[p] = None THEN Reply(p) ELSE GoTo(p, "undocount"))
      /\ UNCHANGED <<drawn, commentCount, listenerVars, refused>>
  BY DEF UndoInsert
<1>3. docs' = docs \/ docs' = [docs EXCEPT ![id[p]] = None]
  BY DEF UndoInsert
<1>4. docs' \in [Ids -> Doc \cup {None}] /\ (docs'[id[p]] # None => SameKind(id[p]))
      /\ \A c \in Ids : c # id[p] => SameKind(c)
  BY <1>1, <1>3 DEF TypeInv, TypeOK, SameKind
<1>5. harm' \in Nat
  BY DEF UndoInsert, Fault, TypeInv, TypeOK
<1>6. CASE root[p] = None
  <2>1. Reply(p)
    BY <1>2, <1>6
  <2>2. TypeOK'
    BY <1>2, <1>4, <1>5, <2>1, ReplyFacts DEF TypeInv, TypeOK, listenerVars
  <2> QED
    BY <1>1, <1>2, <1>4, <2>1, <2>2, ReplyFacts, ReplyHandlerOK, HandlerStep
       DEF TypeInv, listenerVars, Creating
<1>7. CASE root[p] # None
  <2>1. GoTo(p, "undocount")
    BY <1>2, <1>7
  <2>2. TypeOK'
    BY <1>2, <1>4, <1>5, <2>1, GoToFacts DEF TypeInv, TypeOK, listenerVars, CreateSteps
  <2>3. pc'[p] = "undocount" /\ id'[p] = id[p] /\ parent'[p] = parent[p] /\ root'[p] = root[p]
        /\ \A q \in Procs \ {p} :
             pc'[q] = pc[q] /\ id'[q] = id[q] /\ parent'[q] = parent[q] /\ root'[q] = root[q]
    BY <2>1, GoToFacts DEF TypeInv
  <2>4. ASSUME Firm(root[p])' PROVE HandlerOK(p)'
    BY <1>1, <1>2, <1>7, <2>3, <2>4 DEF HandlerOK, Idle, Creating
  <2>5. ASSUME \A r \in Ids : Firm(r) => Firm(r)' PROVE Firm(root[p])'
    <3>1. \A x \in Ids : x = root'[p] => Firm(x)'
      BY <1>1, <1>7, <2>3, <2>5 DEF HandlerOK
    <3> QED BY <3>1, <1>1, <1>7, <2>3 DEF Firm
  <2> QED
    BY <1>1, <1>2, <1>4, <2>2, <2>3, <2>4, <2>5, HandlerStep DEF listenerVars, Creating
<1> QED BY <1>6, <1>7

LEMMA UndoCountTypeInv ==
  ASSUME TypeInv, NEW p \in Procs, UndoCount(p)
  PROVE  TypeInv'
<1>1. HandlerOK(p) /\ id[p] \in Ids /\ root[p] \in Ids
      /\ ~Idle(p) /\ Creating(p) /\ ~Firm(id[p])
  BY DEF TypeInv, TypeOK, HandlersOK, HandlerOK, UndoCount, Idle, Creating, Firm
<1>2. Reply(p) /\ UNCHANGED <<drawn, commentCount, listenerVars, refused>>
  BY DEF UndoCount
<1>3. docs' \in [Ids -> Doc \cup {None}] /\ \A c \in Ids : SameKind(c)
  <2>1. CASE docs' = docs
    BY <2>1 DEF TypeInv, TypeOK, SameKind
  <2>2. CASE DropReply(root[p])
    BY <1>1, <2>2, DropReplyFacts DEF TypeInv
  <2> QED BY <2>1, <2>2 DEF UndoCount
<1>4. harm' \in Nat
  BY DEF UndoCount, Fault, TypeInv, TypeOK
<1>5. TypeOK'
  BY <1>2, <1>3, <1>4, ReplyFacts DEF TypeInv, TypeOK, listenerVars
<1> QED
  BY <1>1, <1>2, <1>3, <1>5, ReplyFacts, ReplyHandlerOK, HandlerStep
     DEF TypeInv, listenerVars, Creating

LEMMA FindCommentTypeInv ==
  ASSUME TypeInv, NEW p \in Procs, FindComment(p)
  PROVE  TypeInv'
<1>1. HandlerOK(p) /\ id[p] \in Ids /\ ~Idle(p) /\ pc[p] = "find" /\ parent[p] = None
      /\ UNCHANGED <<storeVars, listenerVars, harm, refused>>
  BY DEF TypeInv, TypeOK, HandlersOK, HandlerOK, FindComment, Idle, Creating
<1>2. CASE docs[id[p]] = None
  BY <1>1, <1>2, ReplyTypeInv DEF FindComment, storeVars, listenerVars, TypeInv, TypeOK
<1>3. CASE docs[id[p]] # None
  <2>1. root' = [root EXCEPT ![p] = docs[id[p]].root] /\ pc' = [pc EXCEPT ![p] = "remove"]
        /\ UNCHANGED <<op, id, parent>>
    BY <1>3 DEF FindComment
  <2>2. docs[id[p]].root \in Ids \cup {None} /\ (docs[id[p]].root # None => Firm(docs[id[p]].root))
    BY <1>1, <1>3 DEF TypeInv, TypeOK, Doc, DocsOK, Present
  <2>3. TypeOK'
    BY <1>1, <2>1, <2>2 DEF TypeInv, TypeOK, storeVars, listenerVars, DeleteSteps
  <2>4. \A c \in Ids : SameKind(c)
    BY <1>1 DEF SameKind, storeVars
  <2>5. pc'[p] = "remove" /\ id'[p] = id[p] /\ parent'[p] = parent[p] /\ root'[p] = docs[id[p]].root
        /\ \A q \in Procs \ {p} :
             pc'[q] = pc[q] /\ id'[q] = id[q] /\ parent'[q] = parent[q] /\ root'[q] = root[q]
    BY <2>1 DEF TypeInv, TypeOK
  <2>6. ASSUME root'[p] # None => Firm(root[p])' PROVE HandlerOK(p)'
    BY <1>1, <1>3, <2>5, <2>6 DEF HandlerOK, Idle, Creating, storeVars
  <2>7. ASSUME \A r \in Ids : Firm(r) => Firm(r)', root'[p] # None PROVE Firm(root[p])'
    <3>1. \A x \in Ids : x = root'[p] => Firm(x)'
      BY <2>2, <2>5, <2>7
    <3> QED BY <3>1, <2>2, <2>5, <2>7 DEF Firm
  <2> QED
    BY <1>1, <1>3, <2>3, <2>4, <2>5, <2>6, <2>7, HandlerStep
       DEF storeVars, listenerVars, Creating, Firm, SameKind
<1> QED BY <1>2, <1>3

LEMMA RemoveCommentTypeInv ==
  ASSUME TypeInv, NEW p \in Procs, RemoveComment(p)
  PROVE  TypeInv'
<1>1. HandlerOK(p) /\ id[p] \in Ids /\ ~Idle(p) /\ pc[p] = "remove" /\ parent[p] = None
      /\ ~Creating(p) /\ root[p] \in Ids \cup {None}
      /\ docs[id[p]] # None /\ docs[id[p]].root = root[p]
      /\ UNCHANGED <<drawn, commentCount, listenerVars, harm, refused>>
  BY DEF TypeInv, TypeOK, HandlersOK, HandlerOK, RemoveComment, Idle, Creating
<1>2. CASE root[p] = None
  <2>1. docs' = [docs EXCEPT ![id[p]].deleted = TRUE] /\ Reply(p)
    BY <1>1, <1>2 DEF RemoveComment
  <2>2. docs' \in [Ids -> Doc \cup {None}] /\ \A c \in Ids : SameKind(c)
    BY <1>1, <2>1, MarkFacts DEF TypeInv
  <2>3. TypeOK'
    BY <1>1, <2>1, <2>2, ReplyFacts DEF TypeInv, TypeOK, listenerVars
  <2> QED
    BY <1>1, <2>1, <2>2, <2>3, ReplyFacts, ReplyHandlerOK, HandlerStep
       DEF TypeInv, listenerVars, SameKind, Firm
<1>3. CASE root[p] # None
  <2>1. docs' = [docs EXCEPT ![id[p]] = None] /\ GoTo(p, "publishdelete")
    BY <1>3 DEF RemoveComment
  <2>2. docs' \in [Ids -> Doc \cup {None}] /\ docs'[id[p]] = None
        /\ \A c \in Ids : c # id[p] => SameKind(c)
    BY <1>1, <2>1 DEF TypeInv, TypeOK, SameKind
  <2>3. TypeOK'
    BY <1>1, <2>1, <2>2, GoToFacts DEF TypeInv, TypeOK, listenerVars, DeleteSteps
  <2>4. pc'[p] = "publishdelete" /\ id'[p] = id[p] /\ parent'[p] = parent[p] /\ root'[p] = root[p]
        /\ \A q \in Procs \ {p} :
             pc'[q] = pc[q] /\ id'[q] = id[q] /\ parent'[q] = parent[q] /\ root'[q] = root[q]
    BY <2>1, GoToFacts DEF TypeInv
  <2>5. ASSUME Firm(root[p])' PROVE HandlerOK(p)'
    BY <1>1, <1>3, <2>2, <2>4, <2>5 DEF HandlerOK, Idle, Creating
  <2>6. ASSUME \A r \in Ids : Firm(r) => Firm(r)' PROVE Firm(root[p])'
    <3>1. \A x \in Ids : x = root'[p] => Firm(x)'
      BY <1>1, <1>3, <2>4, <2>6 DEF HandlerOK
    <3> QED BY <3>1, <1>1, <1>3, <2>4 DEF Firm
  <2>7. ~Firm(id[p])
    BY <1>1, <1>3 DEF Firm
  <2> QED
    BY <1>1, <2>2, <2>3, <2>4, <2>5, <2>6, <2>7, HandlerStep DEF listenerVars, Creating
<1> QED BY <1>2, <1>3

\* The event of a request is published.
LEMMA PublishTypeInv ==
  ASSUME TypeInv, NEW p \in Procs, Reply(p), NEW e \in CommentEvent,
         queue' = Append(queue, e), e.id = id[p], e.root = root[p],
         \/ e.type = "CREATE" /\ pc[p] = "publish"
         \/ e.type = "DELETE" /\ pc[p] = "publishdelete",
         UNCHANGED <<docs, drawn, commentCount, step, notified>>, harm' \in Nat, refused' \in Nat
  PROVE  TypeInv'
<1>1. HandlerOK(p) /\ id[p] \in Ids /\ root[p] \in Ids \cup {None} /\ ~Idle(p)
  BY DEF TypeInv, TypeOK, HandlersOK, HandlerOK, Idle
<1>2. /\ queue' \in Seq(CommentEvent) /\ Len(queue) \in Nat /\ Len(queue') = Len(queue) + 1
      /\ \A i \in 1..Len(queue) : queue'[i] = queue[i]
      /\ queue'[Len(queue) + 1] = e /\ queue' # <<>>
      /\ queue # <<>> => First' = First
  BY AppendFacts DEF TypeInv, TypeOK, First
<1>3. TypeOK'
  BY <1>2, ReplyFacts DEF TypeInv, TypeOK
<1>4. ~Creating(p)' /\ HandlerOK(p)' /\ pc'[p] = "idle" /\ id'[p] = None /\ parent'[p] = None
      /\ \A q \in Procs \ {p} :
           pc'[q] = pc[q] /\ id'[q] = id[q] /\ parent'[q] = parent[q] /\ root'[q] = root[q]
  BY <1>1, ReplyFacts, ReplyHandlerOK DEF TypeInv
<1>5. ASSUME NEW q \in Procs, Creating(q)' PROVE q # p /\ Creating(q) /\ id'[q] = id[q]
  BY <1>4, <1>5 DEF Creating
<1>6. ASSUME NEW r \in Ids, Firm(r) PROVE Firm(r)'
  BY <1>5, <1>6 DEF Firm
<1>7. HandlersOK'
  <2>1. ASSUME NEW q \in Procs \ {p} PROVE HandlerOK(q)'
    <3>1. HandlerOK(q) /\ root[q] \in Ids \cup {None}
      BY DEF TypeInv, TypeOK, HandlersOK
    <3>2. Idle(q)' <=> Idle(q)
      BY <1>4 DEF Idle
    <3>3. Creating(q)' <=> Creating(q)
      BY <1>4 DEF Creating
    <3> QED BY <1>4, <1>6, <3>1, <3>2, <3>3 DEF HandlerOK, Idle
  <2> QED BY <1>4, <2>1 DEF TypeInv, HandlersOK
<1>8. DocsOK'
  BY <1>6 DEF TypeInv, TypeOK, Doc, DocsOK, Present
<1>9. ASSUME NEW f \in CommentEvent, EventOK(f) PROVE EventOK(f)'
  <2>1. f.id \in Ids /\ f.root \in Ids \cup {None}
    BY DEF CommentEvent
  <2>2. \A q \in Procs : pc'[q] = "publishdelete" => pc[q] = "publishdelete" /\ id'[q] = id[q]
    BY <1>4 DEF Idle, HandlerOK
  <2> QED BY <1>5, <1>6, <1>9, <2>1, <2>2 DEF EventOK
<1>10. \A q \in Procs \ {p} : id'[q] # id[p]
  BY <1>1, <1>4, CommentsAssumption DEF TypeInv, HandlersOK
<1>11. EventOK(e)'
  <2>1. /\ e.id \in drawn'
        /\ \A q \in Procs : Creating(q)' => id'[q] # e.id
        /\ \A q \in Procs : pc'[q] = "publishdelete" => id'[q] # e.id
    <3>1. \A q \in Procs : id'[q] # e.id
      BY <1>1, <1>4, <1>10, CommentsAssumption
    <3> QED BY <1>1, <3>1 DEF HandlerOK
  <2>2. e.root # None => Firm(e.root)'
    BY <1>1, <1>6 DEF HandlerOK
  <2>3. e.type = "CREATE" /\ e.root = None => Firm(e.id)'
    <3>1. e.type = "CREATE" => pc[p] = "publish"
      OBVIOUS
    <3> QED BY <1>1, <2>1, <3>1 DEF HandlerOK, Firm
  <2>4. e.type = "DELETE" => e.root # None /\ docs'[e.id] = None
    BY <1>1 DEF HandlerOK
  <2> QED BY <2>1, <2>2, <2>3, <2>4 DEF EventOK
<1>12. \A i \in 1..Len(queue) : queue[i] \in CommentEvent /\ EventOK(queue[i])
  BY DEF TypeInv, TypeOK, QueueOK, Events
<1>13. ASSUME NEW i \in 1..Len(queue), queue[i].id = e.id
       PROVE  e.type = "DELETE" /\ queue[i].type = "CREATE"
  <2>1. pc[p] # "publish"
    BY <1>12, <1>13 DEF EventOK, Creating
  <2>2. queue[i].type # "DELETE"
    BY <2>1, <1>12, <1>13 DEF EventOK
  <2> QED BY <2>1, <2>2, <1>12 DEF CommentEvent
<1>14. \A i \in 1..Len(queue') : i \in 1..Len(queue) \/ i = Len(queue) + 1
  BY <1>2
<1>15. QueueOK'
  <2>1. \A i \in 1..Len(queue') : EventOK(queue[i])'
    <3>1. \A i \in 1..Len(queue) : EventOK(queue[i])'
      BY <1>2, <1>9, <1>12 DEF EventOK, Firm
    <3>2. \A i \in 1..Len(queue') : i = Len(queue) + 1 => EventOK(queue[i])'
      BY <1>2, <1>11 DEF EventOK, Firm
    <3> QED BY <3>1, <3>2, <1>14
  <2>2. ASSUME NEW i \in 1..Len(queue'), NEW j \in 1..Len(queue'), queue'[i].id = queue'[j].id
        PROVE  /\ queue'[i].type = queue'[j].type => i = j
               /\ queue'[i].type = "DELETE" => j <= i
    <3>1. CASE i \in 1..Len(queue) /\ j \in 1..Len(queue)
      BY <1>2, <2>2, <3>1 DEF TypeInv, QueueOK, Events
    <3>2. CASE i = Len(queue) + 1 /\ j \in 1..Len(queue)
      BY <1>2, <1>13, <2>2, <3>2
    <3>3. CASE j = Len(queue) + 1 /\ i \in 1..Len(queue)
      BY <1>2, <1>13, <2>2, <3>3
    <3>4. CASE i = Len(queue) + 1 /\ j = Len(queue) + 1
      BY <1>2, <3>4
    <3> QED BY <1>14, <3>1, <3>2, <3>3, <3>4
  <2>3. /\ step' # "start" => queue' # <<>>
        /\ step' \in {"notify", "answer", "countanswer", "countreply"} => First'.type = "CREATE"
        /\ step' = "uncount" => First'.type = "DELETE"
    BY <1>2 DEF TypeInv, QueueOK
  <2> QED BY <2>1, <2>2, <2>3 DEF QueueOK, Events
<1> QED BY <1>3, <1>7, <1>8, <1>15 DEF TypeInv

LEMMA PublishCreateTypeInv ==
  ASSUME TypeInv, NEW p \in Procs, PublishCreate(p)
  PROVE  TypeInv'
<1>1. HandlerOK(p) /\ id[p] \in Ids /\ root[p] \in Ids \cup {None} /\ parent[p] \in Ids \cup {None}
      /\ ~Idle(p) /\ Creating(p) /\ ~Firm(id[p])
  BY DEF TypeInv, TypeOK, HandlersOK, HandlerOK, PublishCreate, Idle, Creating, Firm
<1>2. pc[p] = "publish" /\ UNCHANGED <<storeVars, step, notified, harm>>
  BY DEF PublishCreate
<1>3. CASE queue' = Append(queue, CreatedBy(p)) /\ Reply(p) /\ UNCHANGED refused
  <2> DEFINE e == CreatedBy(p)
  <2>1. e \in CommentEvent /\ e.id = id[p] /\ e.root = root[p] /\ e.type = "CREATE"
    BY <1>1 DEF CreatedBy, CommentEvent, Users
  <2> HIDE DEF e
  <2>2. queue' = Append(queue, e)
    BY <1>3 DEF e
  <2> QED BY <1>2, <1>3, <2>1, <2>2, PublishTypeInv DEF TypeInv, TypeOK, storeVars
<1>4. CASE refused' = refused + 1 /\ GoTo(p, "undoinsert") /\ UNCHANGED queue
  <2>1. TypeOK'
    BY <1>2, <1>4, GoToFacts DEF TypeInv, TypeOK, storeVars, CreateSteps
  <2>2. pc'[p] = "undoinsert" /\ id'[p] = id[p] /\ parent'[p] = parent[p] /\ root'[p] = root[p]
        /\ \A q \in Procs \ {p} :
             pc'[q] = pc[q] /\ id'[q] = id[q] /\ parent'[q] = parent[q] /\ root'[q] = root[q]
    BY <1>4, GoToFacts DEF TypeInv
  <2>3. ASSUME root[p] # None => Firm(root[p])' PROVE HandlerOK(p)'
    BY <1>1, <1>2, <2>2, <2>3 DEF HandlerOK, Idle, Creating, storeVars
  <2>4. ASSUME \A r \in Ids : Firm(r) => Firm(r)', root[p] # None PROVE Firm(root[p])'
    <3>1. \A x \in Ids : x = root'[p] => Firm(x)'
      BY <1>1, <2>2, <2>4 DEF HandlerOK
    <3> QED BY <3>1, <1>1, <2>2, <2>4 DEF Firm
  <2>5. \A c \in Ids : SameKind(c)
    BY <1>2 DEF SameKind, storeVars
  <2> QED
    BY <1>1, <1>2, <1>4, <2>1, <2>2, <2>3, <2>4, <2>5, HandlerStep DEF storeVars, Creating
<1> QED BY <1>3, <1>4 DEF PublishCreate

LEMMA PublishDeleteTypeInv ==
  ASSUME TypeInv, NEW p \in Procs, PublishDelete(p)
  PROVE  TypeInv'
<1>1. HandlerOK(p) /\ id[p] \in Ids /\ root[p] \in Ids \cup {None} /\ ~Idle(p)
  BY DEF TypeInv, TypeOK, HandlersOK, HandlerOK, PublishDelete, Idle
<1>2. pc[p] = "publishdelete" /\ Reply(p) /\ UNCHANGED <<storeVars, step, notified, refused>>
  BY DEF PublishDelete
<1>3. CASE queue' = Append(queue, DeletedBy(p)) /\ UNCHANGED harm
  <2> DEFINE e == DeletedBy(p)
  <2>1. e \in CommentEvent /\ e.id = id[p] /\ e.root = root[p] /\ e.type = "DELETE"
    BY <1>1 DEF DeletedBy, CommentEvent
  <2> HIDE DEF e
  <2>2. queue' = Append(queue, e)
    BY <1>3 DEF e
  <2> QED BY <1>2, <1>3, <2>1, <2>2, PublishTypeInv DEF TypeInv, TypeOK, storeVars
<1>4. CASE Fault("undeleted") /\ UNCHANGED queue
  BY <1>1, <1>2, <1>4, ReplyTypeInv DEF TypeInv, TypeOK, Fault, storeVars
<1> QED BY <1>3, <1>4 DEF PublishDelete

\* A request begins with a comment that no other request works on.
LEMMA BeginTypeInv ==
  ASSUME TypeInv, NEW p \in Procs, Idle(p), NEW c \in Ids, TypeOK',
         \A q \in Procs \ {p} :
            pc'[q] = pc[q] /\ id'[q] = id[q] /\ parent'[q] = parent[q] /\ root'[q] = root[q],
         id'[p] = c, drawn' = drawn \cup {c}, UNCHANGED <<docs, queue, step>>,
         \A q \in Procs : id[q] # c, \A q \in Procs : parent[q] # c,
         Creating(p)' => c \notin drawn, parent'[p] # c,
         \A q \in Procs : id[q] # None => parent'[p] # id[q],
         pc'[p] # "publishdelete", HandlerOK(p)'
  PROVE  TypeInv'
<1>1. ASSUME NEW q \in Procs, Creating(q)'
      PROVE  (Creating(q) /\ id'[q] = id[q]) \/ id'[q] \notin drawn
  BY <1>1 DEF Creating
<1>2. ASSUME NEW r, Firm(r) PROVE Firm(r)'
  BY <1>1, <1>2 DEF Firm
<1>3. HandlersOK'
  <2>1. ASSUME NEW q \in Procs \ {p} PROVE HandlerOK(q)'
    <3>1. HandlerOK(q) /\ root[q] \in Ids \cup {None}
      BY DEF TypeInv, TypeOK, HandlersOK
    <3>2. Idle(q)' <=> Idle(q)
      BY DEF Idle
    <3>3. Creating(q)' <=> Creating(q)
      BY DEF Creating
    <3> QED BY <1>2, <3>1, <3>2, <3>3 DEF HandlerOK, Idle
  <2>2. \A q, s \in Procs : id'[q] # None /\ id'[q] = id'[s] => q = s
    BY DEF TypeInv, HandlersOK
  <2>3. \A q, s \in Procs : id'[q] # None => parent'[s] # id'[q]
    BY DEF TypeInv, HandlersOK
  <2> QED BY <2>1, <2>2, <2>3 DEF TypeInv, HandlersOK
<1>4. DocsOK'
  BY <1>2 DEF TypeInv, TypeOK, Doc, DocsOK, Present
<1>5. ASSUME NEW f \in CommentEvent, EventOK(f) PROVE EventOK(f)'
  <2>1. f.id \in Ids /\ f.root \in Ids \cup {None}
    BY DEF CommentEvent
  <2>2. \A q \in Procs : pc'[q] = "publishdelete" => pc[q] = "publishdelete" /\ id'[q] = id[q]
    OBVIOUS
  <2>3. \A q \in Procs : Creating(q)' => id'[q] # f.id
    BY <1>1, <1>5 DEF EventOK
  <2> QED BY <1>2, <1>5, <2>1, <2>2, <2>3 DEF EventOK
<1>6. QueueOK'
  <2>1. \A i \in 1..Len(queue) : queue[i] \in CommentEvent /\ EventOK(queue[i])
    BY SMTT(30) DEF TypeInv, TypeOK, QueueOK, Events
  <2>2. \A i \in Events' : EventOK(queue[i])'
    BY <1>5, <2>1 DEF Events, EventOK, Firm
  <2>3. First' = First
    BY DEF First
  <2> QED BY <2>2, <2>3 DEF TypeInv, QueueOK, Events
<1> QED BY <1>3, <1>4, <1>6 DEF TypeInv

LEMMA BeginCreateTypeInv ==
  ASSUME TypeInv, Overlap = FALSE,
         NEW p \in Procs, NEW c \in Ids, NEW t \in Ids \cup {None}, BeginCreate(p, c, t)
  PROVE  TypeInv'
<1> USE CommentsAssumption
<1>1. /\ Idle(p) /\ c \notin drawn /\ Author[c] # Bot
      /\ drawn' = drawn \cup {c}
      /\ pc' = [pc EXCEPT ![p] = IF t = None THEN "insert" ELSE "parent"]
      /\ op' = [op EXCEPT ![p] = "create"] /\ id' = [id EXCEPT ![p] = c]
      /\ parent' = [parent EXCEPT ![p] = t]
      /\ UNCHANGED <<docs, commentCount, queue, step, notified, root, harm, refused>>
  BY DEF BeginCreate, listenerVars
<1>2. t # None => t \in drawn /\ \A q \in Procs : id[q] # t
  BY DEF BeginCreate, Nameable
<1>3. TypeOK'
  <2>1. (IF t = None THEN "insert" ELSE "parent") \in CreateSteps
    BY DEF CreateSteps
  <2> QED BY <1>1, <2>1 DEF TypeInv, TypeOK
<1>4. \A q \in Procs \ {p} :
         pc'[q] = pc[q] /\ id'[q] = id[q] /\ parent'[q] = parent[q] /\ root'[q] = root[q]
  BY <1>1 DEF TypeInv, TypeOK
<1>5. \A q \in Procs : id[q] # c /\ parent[q] # c
  <2> SUFFICES ASSUME NEW q \in Procs PROVE id[q] # c /\ parent[q] # c
    OBVIOUS
  <2>1. HandlerOK(q)
    BY DEF TypeInv, HandlersOK
  <2> QED BY <1>1, <2>1 DEF HandlerOK
<1>6. docs[c] = None
  BY <1>1 DEF TypeInv, DocsOK, Present
<1>7. id'[p] = c /\ parent'[p] = t /\ root'[p] = None /\ pc'[p] \in {"insert", "parent"}
      /\ (pc'[p] = "parent" => t # None)
  BY <1>1 DEF TypeInv, TypeOK, HandlersOK, HandlerOK
<1>8. HandlerOK(p)'
  BY <1>1, <1>2, <1>6, <1>7 DEF HandlerOK, Idle, Creating
<1> QED BY <1>1, <1>2, <1>3, <1>4, <1>5, <1>7, <1>8, BeginTypeInv

LEMMA BeginDeleteTypeInv ==
  ASSUME TypeInv, Overlap = FALSE, NEW p \in Procs, NEW c \in Ids, BeginDelete(p, c)
  PROVE  TypeInv'
<1> USE CommentsAssumption
<1>1. /\ Idle(p) /\ c \in drawn /\ (\A q \in Procs : id[q] # c) /\ (\A q \in Procs : parent[q] # c)
      /\ pc' = [pc EXCEPT ![p] = "find"]
      /\ op' = [op EXCEPT ![p] = "delete"] /\ id' = [id EXCEPT ![p] = c]
      /\ UNCHANGED <<docs, drawn, commentCount, queue, step, notified, parent, root, harm, refused>>
  BY DEF BeginDelete, Nameable, listenerVars, storeVars
<1>3. TypeOK'
  BY <1>1 DEF TypeInv, TypeOK, DeleteSteps
<1>4. \A q \in Procs \ {p} :
         pc'[q] = pc[q] /\ id'[q] = id[q] /\ parent'[q] = parent[q] /\ root'[q] = root[q]
  BY <1>1 DEF TypeInv, TypeOK
<1>7. id'[p] = c /\ parent'[p] = None /\ root'[p] = None /\ pc'[p] = "find"
  BY <1>1 DEF TypeInv, TypeOK, HandlersOK, HandlerOK
<1>8. HandlerOK(p)' /\ ~Creating(p)'
  BY <1>1, <1>7 DEF HandlerOK, Idle, Creating
<1> QED BY <1>1, <1>3, <1>4, <1>7, <1>8, BeginTypeInv
-----------------------------------------------------------------------------
(* The listener. *)

\* It handles the first event, or takes it off the queue.
LEMMA ListenerStep ==
  ASSUME TypeInv, TypeOK', UNCHANGED handlerVars, drawn \subseteq drawn',
         \A c \in drawn : SameKind(c),
         \A c \in Ids \ drawn : docs'[c] # None =>
            c \in drawn' /\ docs'[c].root \in drawn /\ Firm(docs'[c].root),
         \/ /\ queue' = queue
            /\ step' # "start" => queue # <<>>
            /\ step' \in {"notify", "answer", "countanswer", "countreply"} => First.type = "CREATE"
            /\ step' = "uncount" => First.type = "DELETE"
         \/ queue # <<>> /\ queue' = Tail(queue) /\ step' = "start"
  PROVE  TypeInv'
<1> USE CommentsAssumption
<1>1. drawn \subseteq Ids
  BY DEF TypeInv, TypeOK
<1>2. ASSUME NEW r, Firm(r) PROVE Firm(r)'
  BY <1>2 DEF Firm, SameKind, handlerVars, Creating
<1>3. HandlersOK'
  <2>1. ASSUME NEW q \in Procs PROVE HandlerOK(q)'
    <3>1. HandlerOK(q) /\ root[q] \in Ids \cup {None}
      BY DEF TypeInv, TypeOK, HandlersOK
    <3>2. ~Idle(q) => SameKind(id[q])
      BY <3>1 DEF HandlerOK
    <3>3. pc' = pc /\ id' = id /\ parent' = parent /\ root' = root
      BY DEF handlerVars
    <3>4. root[q] # None => Firm(root[q])'
      <4>1. \A x \in Ids : x = root[q] => Firm(x)'
        BY <1>2, <3>1 DEF HandlerOK
      <4>2. \A x \in Ids : x = root'[q] => Firm(x)'
        BY <3>3, <4>1
      <4> QED BY <3>1, <3>3, <4>2 DEF Firm
    <3> QED BY <3>1, <3>2, <3>3, <3>4 DEF HandlerOK, SameKind, Idle, Creating
  <2> QED BY <2>1 DEF TypeInv, HandlersOK, handlerVars
<1>4. DocsOK'
  <2> SUFFICES ASSUME NEW c \in Ids, docs'[c] # None
               PROVE  c \in drawn' /\ (docs'[c].root # None => Firm(docs[c].root)')
    BY DEF DocsOK, Present
  <2>1. CASE c \in drawn
    <3>1. docs[c] # None /\ docs'[c].root = docs[c].root
      BY <2>1 DEF SameKind
    <3>2. docs[c].root # None => Firm(docs[c].root)
      BY <3>1 DEF TypeInv, DocsOK, Present
    <3>3. docs'[c].root # None => Firm(docs[c].root)'
      BY <1>2, <3>1, <3>2 DEF Firm
    <3> QED BY <2>1, <3>3
  <2>2. CASE c \notin drawn
    <3>1. c \in drawn' /\ Firm(docs'[c].root)
      BY <2>2
    <3>2. \A x \in Ids : x = docs'[c].root => Firm(x)'
      BY <1>2, <3>1
    <3>3. docs'[c].root \in Ids
      BY <1>1, <2>2
    <3> QED BY <3>1, <3>2, <3>3 DEF Firm
  <2> QED BY <2>1, <2>2
<1>5. ASSUME NEW f \in CommentEvent, EventOK(f) PROVE EventOK(f)'
  <2>1. f.id \in Ids /\ f.root \in Ids \cup {None}
    BY DEF CommentEvent
  <2>2. pc' = pc /\ id' = id
    BY DEF handlerVars
  <2>3. SameKind(f.id) /\ f.id \in drawn'
    BY <1>5 DEF EventOK
  <2> QED BY <1>2, <1>5, <2>1, <2>2, <2>3 DEF EventOK, SameKind, Creating
<1>6. \A i \in 1..Len(queue) : queue[i] \in CommentEvent /\ EventOK(queue[i])
  BY DEF TypeInv, TypeOK, QueueOK, Events
<1>8. CASE queue' = queue
  <2>1. \A i \in Events' : EventOK(queue[i])'
    BY <1>5, <1>6, <1>8 DEF Events, EventOK, Firm
  <2>2. First' = First /\ queue' = queue
    BY <1>8 DEF First
  <2>3. Tail(queue) # queue \/ queue = <<>>
    <3>1. queue # <<>> => Len(Tail(queue)) = Len(queue) - 1 /\ Len(queue) \in Nat
      BY TailFacts DEF TypeInv, TypeOK
    <3> QED BY <3>1
  <2>4. /\ step' # "start" => queue' # <<>>
        /\ step' \in {"notify", "answer", "countanswer", "countreply"} => First'.type = "CREATE"
        /\ step' = "uncount" => First'.type = "DELETE"
    BY <2>2, <2>3, <1>8
  <2>5. QueueOK'
    BY <2>1, <2>2, <2>4 DEF TypeInv, QueueOK, Events
  <2> QED BY <1>3, <1>4, <2>5 DEF TypeInv
<1>9. CASE queue # <<>> /\ queue' = Tail(queue) /\ step' = "start"
  <2>1. /\ Len(queue) \in Nat /\ Len(queue') = Len(queue) - 1
        /\ \A i \in 1..Len(queue') : i + 1 \in 1..Len(queue) /\ queue'[i] = queue[i + 1]
    BY <1>9, TailFacts DEF TypeInv, TypeOK
  <2>2. ASSUME NEW i \in 1..Len(queue') PROVE EventOK(queue[i])'
    <3>1. queue[i + 1] \in CommentEvent /\ EventOK(queue[i + 1])
      BY <1>6, <2>1
    <3>2. \A f \in CommentEvent : f = queue'[i] => EventOK(f)'
      BY <1>5, <2>1, <3>1
    <3>3. queue'[i] \in CommentEvent
      BY <2>1, <3>1
    <3> QED BY <3>2, <3>3 DEF EventOK, Firm
  <2>3. ASSUME NEW i \in 1..Len(queue'), NEW j \in 1..Len(queue'), queue'[i].id = queue'[j].id
        PROVE  /\ queue'[i].type = queue'[j].type => i = j
               /\ queue'[i].type = "DELETE" => j <= i
    <3>1. /\ queue[i + 1].type = queue[j + 1].type => i + 1 = j + 1
          /\ queue[i + 1].type = "DELETE" => j + 1 <= i + 1
      BY <2>1, <2>3 DEF TypeInv, QueueOK, Events
    <3> QED BY <2>1, <3>1
  <2>4. QueueOK'
    BY <1>9, <2>2, <2>3 DEF QueueOK, Events
  <2> QED BY <1>3, <1>4, <2>4 DEF TypeInv
<1> QED BY <1>8, <1>9

\* The first event.
LEMMA FirstFacts ==
  ASSUME TypeInv, queue # <<>>
  PROVE  /\ First \in CommentEvent /\ EventOK(First) /\ First = queue[1] /\ 1 \in Events
         /\ First.id \in Ids /\ First.root \in Ids \cup {None}
         /\ First.type = "CREATE" => AnswerRoot(First) \in Ids /\ Firm(AnswerRoot(First))
         /\ First.type = "DELETE" => First.root \in Ids /\ Firm(First.root)
<1>1. First \in CommentEvent /\ First = queue[1] /\ 1 \in Events
  BY TailFacts DEF TypeInv, TypeOK, First, Events
<1>2. EventOK(First)
  BY <1>1 DEF TypeInv, QueueOK
<1>3. First.id \in Ids /\ First.root \in Ids \cup {None}
  BY <1>1 DEF CommentEvent
<1> QED BY <1>1, <1>2, <1>3 DEF EventOK, AnswerRoot

LEMMA SameDocs ==
  ASSUME TypeInv, docs' = docs, drawn' = drawn
  PROVE  /\ \A c \in drawn : SameKind(c)
         /\ \A c \in Ids \ drawn : docs'[c] # None =>
              c \in drawn' /\ docs'[c].root \in drawn /\ Firm(docs'[c].root)
<1>1. \A c \in Ids \ drawn : docs[c] = None
  BY DEF TypeInv, DocsOK, Present
<1> QED BY <1>1 DEF SameKind

LEMMA CountedTypeInv ==
  ASSUME TypeInv, CountComment \/ CountAnswer \/ UncountComment \/ Redeliver
  PROVE  TypeInv'
<1>1. UNCHANGED handlerVars /\ docs' = docs /\ drawn' = drawn /\ queue' = queue
      /\ notified' = notified /\ refused' = refused
  BY DEF CountComment, CountAnswer, UncountComment, Redeliver, storeVars
<1>2. step' # "start" => queue # <<>>
  BY DEF CountComment, CountAnswer, UncountComment, Redeliver, At
<1>3. /\ step' \in {"notify", "answer", "countanswer", "countreply"} => First.type = "CREATE"
      /\ step' = "uncount" => First.type = "DELETE"
  BY DEF CountComment, CountAnswer, UncountComment, Redeliver, At
<1>4. commentCount' \in Nat /\ harm' \in Nat /\ step' \in ListenerSteps
  BY DEF CountComment, CountAnswer, UncountComment, Redeliver, Fault, TypeInv, TypeOK,
         ListenerSteps, storeVars
<1>5. TypeOK'
  BY <1>1, <1>4 DEF TypeInv, TypeOK, handlerVars
<1> QED BY <1>1, <1>2, <1>3, <1>5, SameDocs, ListenerStep

\* The event is taken off the queue.
LEMMA AcknowledgeTypeInv ==
  ASSUME TypeInv, queue # <<>>, Acknowledge, UNCHANGED <<handlerVars, drawn>>,
         docs' \in [Ids -> Doc \cup {None}], \A c \in Ids : SameKind(c),
         notified' \subseteq Ids \X (Users \cup {Zero}),
         commentCount' \in Nat, harm' \in Nat, refused' \in Nat
  PROVE  TypeInv'
<1>1. queue' = Tail(queue) /\ step' = "start" /\ queue' \in Seq(CommentEvent)
  BY TailFacts DEF Acknowledge, TypeInv, TypeOK
<1>2. TypeOK'
  BY <1>1 DEF TypeInv, TypeOK, handlerVars, ListenerSteps
<1>3. \A c \in Ids \ drawn : docs'[c] = None
  BY DEF SameKind, TypeInv, DocsOK, Present
<1>4. \A c \in drawn : SameKind(c)
  BY DEF TypeInv, TypeOK
<1> QED BY <1>1, <1>2, <1>3, <1>4, ListenerStep

LEMMA SendTypeInv ==
  ASSUME TypeInv, SendCommentNotification
  PROVE  TypeInv'
<1>1. At("CREATE", "notify") /\ UNCHANGED <<storeVars, handlerVars, harm, refused>>
      /\ notified' = notified \cup ({First.id} \X Receivers(First))
  BY DEF SendCommentNotification
<1>2. queue # <<>> /\ First.type = "CREATE"
  BY <1>1 DEF At
<1>3. notified' \subseteq Ids \X (Users \cup {Zero})
  <2>1. First.id \in Ids /\ First.replyTo \in Users \cup {Zero}
    BY <1>2, FirstFacts DEF CommentEvent
  <2> QED BY <1>1, <2>1 DEF Receivers, TypeInv, TypeOK
<1>4. CASE step' = "answer" /\ UNCHANGED queue
  <2>1. TypeOK'
    BY <1>1, <1>3, <1>4 DEF TypeInv, TypeOK, handlerVars, storeVars, ListenerSteps
  <2> QED BY <1>1, <1>2, <1>4, <2>1, SameDocs, ListenerStep DEF storeVars
<1>5. CASE Acknowledge
  <2>1. docs' = docs /\ drawn' = drawn /\ commentCount' = commentCount
    BY <1>1 DEF storeVars
  <2>2. \A c \in Ids : SameKind(c)
    BY <2>1 DEF SameKind
  <2> QED BY <1>1, <1>2, <1>3, <1>5, <2>1, <2>2, AcknowledgeTypeInv DEF TypeInv, TypeOK
<1> QED BY <1>4, <1>5 DEF SendCommentNotification

LEMMA HandledTypeInv ==
  ASSUME TypeInv, NoAnswer \/ CountAnswerReply \/ UncountReply \/ AnswerFails
  PROVE  TypeInv'
<1>1. Acknowledge /\ UNCHANGED <<handlerVars, drawn, commentCount, notified, refused>>
  BY DEF NoAnswer, CountAnswerReply, UncountReply, AnswerFails, storeVars
<1>2. queue # <<>>
  BY DEF NoAnswer, CountAnswerReply, UncountReply, AnswerFails, At, TypeInv, QueueOK
<1>3. harm' \in Nat
  BY DEF NoAnswer, CountAnswerReply, UncountReply, AnswerFails, Fault, TypeInv, TypeOK
<1>4. docs' \in [Ids -> Doc \cup {None}] /\ \A c \in Ids : SameKind(c)
  <2>1. CASE NoAnswer \/ AnswerFails
    BY <2>1 DEF NoAnswer, AnswerFails, storeVars, SameKind, TypeInv, TypeOK
  <2>2. CASE CountAnswerReply
    <3>1. First.type = "CREATE" /\ AddReply(AnswerRoot(First), 1)
      BY <2>2 DEF CountAnswerReply, At
    <3>2. AnswerRoot(First) \in Ids /\ Firm(AnswerRoot(First))
      BY <1>2, <3>1, FirstFacts
    <3>3. docs[AnswerRoot(First)].replyCount + 1 \in Nat
      BY <3>2 DEF Firm, TypeInv, TypeOK, Doc
    <3> QED BY <3>1, <3>2, <3>3, AddReplyFacts DEF TypeInv
  <2>3. CASE UncountReply
    <3>1. First.type = "DELETE" /\ DropReply(First.root)
      BY <2>3 DEF UncountReply, At
    <3> QED BY <1>2, <3>1, FirstFacts, DropReplyFacts DEF TypeInv
  <2> QED BY <2>1, <2>2, <2>3
<1> QED BY <1>1, <1>2, <1>3, <1>4, AcknowledgeTypeInv DEF TypeInv, TypeOK

LEMMA SaveAnswerTypeInv ==
  ASSUME TypeInv, SaveAnswer
  PROVE  TypeInv'
<1>1. PICK b \in Ids \ drawn :
         Author[b] = Bot /\ drawn' = drawn \cup {b}
         /\ docs' = [docs EXCEPT ![b] = NewDoc(AnswerRoot(First))]
  BY DEF SaveAnswer
<1>2. queue # <<>> /\ First.type = "CREATE" /\ step' = "countanswer"
      /\ UNCHANGED <<commentCount, queue, notified, handlerVars, harm, refused>>
  BY DEF SaveAnswer, At
<1>3. AnswerRoot(First) \in Ids /\ Firm(AnswerRoot(First)) /\ AnswerRoot(First) \in drawn
  BY <1>2, FirstFacts DEF Firm
<1>4. docs' \in [Ids -> Doc \cup {None}] /\ docs'[b].root = AnswerRoot(First)
      /\ \A c \in Ids : c # b => docs'[c] = docs[c]
  BY <1>1, <1>3, NewDocFacts DEF TypeInv, TypeOK
<1>5. TypeOK'
  BY <1>1, <1>2, <1>4 DEF TypeInv, TypeOK, handlerVars, ListenerSteps
<1>6. \A c \in drawn : SameKind(c)
  BY <1>1, <1>4 DEF SameKind, TypeInv, TypeOK
<1>7. \A c \in Ids \ drawn : docs'[c] # None => c = b
  BY <1>4 DEF TypeInv, DocsOK, Present
<1> QED BY <1>1, <1>2, <1>3, <1>4, <1>5, <1>6, <1>7, ListenerStep

\* Types, and what every handler and every event in the queue knows of its comment:
\* nobody else works on it, its root stays, and a deletion is told after the creation.
THEOREM TypeInvHolds ==
  ASSUME Overlap = FALSE
  PROVE  Spec => []TypeInv
<1>1. TypeInv /\ [Next]_vars => TypeInv'
  <2> SUFFICES ASSUME TypeInv, [Next]_vars PROVE TypeInv'
    OBVIOUS
  <2>1. ASSUME NEW p \in Procs, NEW c \in Ids, NEW t \in Ids \cup {None}, BeginCreate(p, c, t)
        PROVE  TypeInv'
    BY <2>1, BeginCreateTypeInv
  <2>2. ASSUME NEW p \in Procs, NEW c \in Ids, BeginDelete(p, c) PROVE TypeInv'
    BY <2>2, BeginDeleteTypeInv
  <2>3. ASSUME NEW p \in Procs, ParentGone(p) \/ RequestFails(p) \/ HandlerDies(p) PROVE TypeInv'
    <3>1. Reply(p) /\ ~Idle(p) /\ UNCHANGED <<storeVars, listenerVars, refused>>
      BY <2>3 DEF ParentGone, RequestFails, HandlerDies, Idle
    <3>2. harm' \in Nat
      BY <2>3 DEF ParentGone, RequestFails, HandlerDies, Fault, TypeInv, TypeOK
    <3> QED BY <3>1, <3>2, ReplyTypeInv DEF storeVars, listenerVars, TypeInv, TypeOK
  <2>4. ASSUME NEW p \in Procs, CreateComment(p) PROVE TypeInv'
    BY <2>3, <2>4, FindParentTypeInv, IncrementRootTypeInv, InsertCommentTypeInv,
       PublishCreateTypeInv, UndoInsertTypeInv, UndoCountTypeInv DEF CreateComment
  <2>5. ASSUME NEW p \in Procs, DeleteComment(p) PROVE TypeInv'
    BY <2>5, FindCommentTypeInv, RemoveCommentTypeInv, PublishDeleteTypeInv DEF DeleteComment
  <2>6. CASE HandleCommentEvent \/ AnswerFails \/ Redeliver
    BY <2>6, CountedTypeInv, SendTypeInv, HandledTypeInv, SaveAnswerTypeInv DEF HandleCommentEvent
  <2>7. CASE UNCHANGED vars
    BY <2>7 DEF vars, storeVars, listenerVars, handlerVars, TypeInv, TypeOK, HandlersOK, HandlerOK,
                Firm, Creating, Idle, DocsOK, Present, QueueOK, Events, EventOK, First
  <2> QED BY <2>1, <2>2, <2>3, <2>4, <2>5, <2>6, <2>7 DEF Next
<1> QED BY <1>1, InitTypeInv, PTL DEF Spec
-----------------------------------------------------------------------------
(* What the steps do to the sets of comments that are still to be counted. *)

LEMMA CardinalityFacts ==
  ASSUME NEW T, IsFiniteSet(T), NEW S \in SUBSET T
  PROVE  /\ IsFiniteSet(S) /\ Cardinality(S) \in Nat
         /\ Cardinality(S) = 0 <=> S = {}
         /\ \A x : x \notin S => Cardinality(S \cup {x}) = Cardinality(S) + 1
         /\ \A x \in S : Cardinality(S \ {x}) = Cardinality(S) - 1
<1>1. IsFiniteSet(S)
  BY FS_Subset
<1> QED BY <1>1, FS_CardinalityType, FS_EmptySet, FS_AddElement, FS_RemoveElement

Publishing(p) == pc[p] \in {"publish", "undoinsert"}

\* A handler's step, while the listener waits.
LEMMA HandlerSets ==
  ASSUME TypeInv, NEW p \in Procs,
         \A q \in Procs \ {p} :
            pc'[q] = pc[q] /\ id'[q] = id[q] /\ parent'[q] = parent[q] /\ root'[q] = root[q],
         queue' = queue, step' = step
  PROVE  /\ \A c \in Ids : c \in Uncounted' <=>
              \/ c \in Uncounted /\ ~(Publishing(p) /\ c = id[p])
              \/ Publishing(p)' /\ c = id'[p]
         /\ \A c \in Ids : c \in Gone' <=>
              \/ c \in Gone /\ ~(pc[p] = "publishdelete" /\ c = id[p])
              \/ pc'[p] = "publishdelete" /\ c = id'[p]
         /\ \A r \in Ids : \A c \in Ids : c \in GoneFrom(r)' <=>
              \/ c \in GoneFrom(r) /\ ~(pc[p] = "publishdelete" /\ c = id[p])
              \/ pc'[p] = "publishdelete" /\ c = id'[p] /\ root'[p] = r
         /\ \A r \in Ids : \A q \in Procs \ {p} : q \in Ahead(r)' <=> q \in Ahead(r)
         /\ \A r \in Ids : Answering(r)' = Answering(r)
         /\ Answered' = Answered
<1>1. ASSUME NEW q \in Procs, id[q] = id[p], pc[p] # "idle" PROVE q = p
  BY <1>1, CommentsAssumption DEF TypeInv, HandlersOK, HandlerOK, Idle, TypeOK
<1>2. \A i \in Events : queue[i] \in CommentEvent /\ EventOK(queue[i])
  BY DEF TypeInv, TypeOK, QueueOK, Events
<1>3. ASSUME NEW i \in Events, Publishing(p) PROVE queue[i].id # id[p]
  BY <1>2, <1>3 DEF EventOK, Publishing, Creating
<1>4. ASSUME NEW i \in Events, pc[p] = "publishdelete", queue[i].type = "DELETE"
      PROVE  queue[i].id # id[p]
  BY <1>2, <1>4 DEF EventOK
<1>5. Events' = Events
  BY DEF Events
<1>6. \A c \in Ids : c \in Uncounted' <=>
              \/ c \in Uncounted /\ ~(Publishing(p) /\ c = id[p])
              \/ Publishing(p)' /\ c = id'[p]
  BY <1>1, <1>3, <1>5 DEF Uncounted, Publishing
<1>7. \A c \in Ids : c \in Gone' <=>
              \/ c \in Gone /\ ~(pc[p] = "publishdelete" /\ c = id[p])
              \/ pc'[p] = "publishdelete" /\ c = id'[p]
  BY <1>1, <1>4, <1>5 DEF Gone
<1>8. ASSUME NEW r \in Ids, NEW c \in Ids
      PROVE  c \in GoneFrom(r)' <=>
              \/ c \in GoneFrom(r) /\ ~(pc[p] = "publishdelete" /\ c = id[p])
              \/ pc'[p] = "publishdelete" /\ c = id'[p] /\ root'[p] = r
  BY <1>1, <1>4, <1>5 DEF GoneFrom
<1>9. \A r \in Ids : \A q \in Procs \ {p} : q \in Ahead(r)' <=> q \in Ahead(r)
  BY DEF Ahead
<1>10. /\ \A r \in Ids : Answering(r)' = Answering(r)
       /\ Answered' = Answered
  BY DEF Answering, AnswerRoot, First, Answered
<1> QED BY <1>6, <1>7, <1>8, <1>9, <1>10

\* A handler publishes its event.
LEMMA PublishSets ==
  ASSUME TypeInv, NEW p \in Procs, Reply(p), NEW e \in CommentEvent,
         queue' = Append(queue, e), e.id = id[p], e.root = root[p],
         \/ e.type = "CREATE" /\ pc[p] = "publish"
         \/ e.type = "DELETE" /\ pc[p] = "publishdelete",
         step' = step
  PROVE  /\ Uncounted' = Uncounted /\ Gone' = Gone
         /\ \A r \in Ids : GoneFrom(r)' = GoneFrom(r) /\ Ahead(r)' = Ahead(r)
         /\ \A r \in Ids : Answering(r)' = Answering(r)
         /\ Answered' = Answered
<1>1. ASSUME NEW q \in Procs, id[q] = id[p] PROVE q = p
  BY <1>1, CommentsAssumption DEF TypeInv, HandlersOK, HandlerOK, Idle, TypeOK
<1>2. /\ Len(queue) \in Nat /\ Len(queue') = Len(queue) + 1
      /\ \A i \in 1..Len(queue) : queue'[i] = queue[i]
      /\ queue'[Len(queue) + 1] = e
      /\ queue # <<>> => First' = First
      /\ queue = <<>> => step = "start"
  BY AppendFacts DEF TypeInv, TypeOK, First, QueueOK
<1>3. /\ \A i \in Events : i \in Events'
      /\ Len(queue) + 1 \in Events'
      /\ \A i \in Events' : i \in Events \/ i = Len(queue) + 1
      /\ Len(queue) + 1 = 1 => step = "start"
  <2>1. Len(queue) = 0 => queue = <<>>
    BY DEF TypeInv, TypeOK
  <2> QED BY <1>2, <2>1 DEF Events
<1>4. /\ pc'[p] = "idle" /\ id'[p] = None
      /\ \A q \in Procs \ {p} : pc'[q] = pc[q] /\ id'[q] = id[q] /\ root'[q] = root[q]
  BY ReplyFacts DEF TypeInv
<1>5. \A i \in Events : queue'[i] = queue[i]
  BY <1>2 DEF Events
<1>7. ASSUME NEW c \in Ids PROVE c \in Uncounted' <=> c \in Uncounted
  <2>1. c \in Uncounted' <=>
          \/ \E q \in Procs \ {p} : pc[q] \in {"publish", "undoinsert"} /\ id[q] = c
          \/ \E i \in Events : queue[i].type = "CREATE" /\ queue[i].id = c /\ (i = 1 => step = "start")
          \/ e.type = "CREATE" /\ e.id = c
    BY ZenonT(60), <1>2, <1>3, <1>4, <1>5 DEF Uncounted
  <2> QED BY <2>1, <1>1 DEF Uncounted
<1>8. ASSUME NEW c \in Ids PROVE c \in Gone' <=> c \in Gone
  <2>1. c \in Gone' <=>
          \/ \E q \in Procs \ {p} : pc[q] = "publishdelete" /\ id[q] = c
          \/ \E i \in Events : queue[i].type = "DELETE" /\ queue[i].id = c /\ (i = 1 => step # "uncount")
          \/ e.type = "DELETE" /\ e.id = c
    BY ZenonT(60), <1>2, <1>3, <1>4, <1>5 DEF Gone
  <2> QED BY <2>1, <1>1 DEF Gone
<1>9. ASSUME NEW r \in Ids, NEW c \in Ids PROVE c \in GoneFrom(r)' <=> c \in GoneFrom(r)
  <2>1. c \in GoneFrom(r)' <=>
          \/ \E q \in Procs \ {p} : pc[q] = "publishdelete" /\ id[q] = c /\ root[q] = r
          \/ \E i \in Events : queue[i].type = "DELETE" /\ queue[i].id = c /\ queue[i].root = r
          \/ e.type = "DELETE" /\ e.id = c /\ e.root = r
    BY ZenonT(60), <1>2, <1>3, <1>4, <1>5 DEF GoneFrom
  <2> QED BY <2>1, <1>1 DEF GoneFrom
<1>10. \A r \in Ids : Ahead(r)' = Ahead(r)
  BY <1>4 DEF Ahead
<1>11. /\ \A r \in Ids : Answering(r)' = Answering(r)
       /\ Answered' = Answered
  BY <1>2 DEF Answering, AnswerRoot, Answered
<1>12. Uncounted' = Uncounted /\ Gone' = Gone /\ \A r \in Ids : GoneFrom(r)' = GoneFrom(r)
  <2>1. \A c \in Uncounted \cup Uncounted' \cup Gone \cup Gone' : c \in Ids
    BY DEF Uncounted, Gone
  <2>2. \A r \in Ids : \A c \in GoneFrom(r) \cup GoneFrom(r)' : c \in Ids
    BY DEF GoneFrom
  <2> QED BY <1>7, <1>8, <1>9, <2>1, <2>2
<1> QED BY <1>10, <1>11, <1>12

\* The first event is taken off the queue after it was counted.
LEMMA AcknowledgeSets ==
  ASSUME TypeInv, step # "start", Acknowledge, UNCHANGED handlerVars
  PROVE  /\ Uncounted' = Uncounted /\ Gone' = Gone
         /\ \A r \in Ids : Ahead(r)' = Ahead(r) /\ ~Answering(r)'
         /\ \A r \in Ids : \A c \in Ids : c \in GoneFrom(r)' <=>
              c \in GoneFrom(r) /\ ~(First.type = "DELETE" /\ First.root = r /\ First.id = c)
         /\ Answered' = 0
<1>1. queue # <<>> /\ queue' = Tail(queue) /\ step' = "start"
  BY DEF TypeInv, QueueOK, Acknowledge
<1>2. /\ First = queue[1] /\ 1 \in Events /\ First \in CommentEvent /\ EventOK(First)
      /\ Len(queue) \in Nat /\ Len(queue') = Len(queue) - 1
      /\ \A i \in Events' : i + 1 \in Events /\ queue'[i] = queue[i + 1] /\ i + 1 # 1
      /\ \A i \in Events : i # 1 => i - 1 \in Events' /\ queue'[i - 1] = queue[i]
  <2>1. /\ First = queue[1] /\ 1 \in Events /\ First \in CommentEvent /\ EventOK(First)
    BY <1>1, FirstFacts
  <2>2. /\ Len(queue) \in Nat /\ Len(queue') = Len(queue) - 1
        /\ \A i \in 1..Len(queue') : i + 1 \in 1..Len(queue) /\ queue'[i] = queue[i + 1]
        /\ \A i \in 1..Len(queue) : i # 1 => i - 1 \in 1..Len(queue') /\ queue'[i - 1] = queue[i]
    BY <1>1, TailFacts DEF TypeInv, TypeOK
  <2> QED BY <2>1, <2>2 DEF Events
<1>3. pc' = pc /\ id' = id /\ root' = root
  BY DEF handlerVars
<1>4. First.type = "DELETE" => step = "uncount"
  BY DEF TypeInv, QueueOK, TypeOK, ListenerSteps
<1>5. First.type = "CREATE" \/ First.type = "DELETE"
  BY <1>2 DEF CommentEvent
<1>6. Uncounted' = Uncounted
  <2>1. ASSUME NEW c \in Ids
        PROVE (\E i \in Events' : queue'[i].type = "CREATE" /\ queue'[i].id = c)
              <=> \E i \in Events : /\ queue[i].type = "CREATE" /\ queue[i].id = c
                                    /\ i = 1 => step = "start"
    BY <1>2
  <2> QED BY <1>1, <1>3, <2>1 DEF Uncounted
<1>7. Gone' = Gone
  <2>1. ASSUME NEW c \in Ids
        PROVE (\E i \in Events' : queue'[i].type = "DELETE" /\ queue'[i].id = c)
              <=> \E i \in Events : /\ queue[i].type = "DELETE" /\ queue[i].id = c
                                    /\ i = 1 => step # "uncount"
    BY <1>2, <1>4
  <2> QED BY <1>1, <1>3, <2>1 DEF Gone
<1>8. ASSUME NEW r \in Ids, NEW c \in Ids
      PROVE c \in GoneFrom(r)' <=>
              c \in GoneFrom(r) /\ ~(First.type = "DELETE" /\ First.root = r /\ First.id = c)
  <2>1. ASSUME NEW i \in Events, First.type = "DELETE", queue[i].type = "DELETE",
               queue[i].id = First.id
        PROVE  i = 1
    BY <1>2, <2>1 DEF TypeInv, QueueOK
  <2>2. ASSUME First.type = "DELETE", NEW q \in Procs, pc[q] = "publishdelete"
        PROVE  id[q] # First.id
    BY <1>2, <2>2 DEF EventOK
  <2>3. (\E i \in Events' : queue'[i].type = "DELETE" /\ queue'[i].id = c /\ queue'[i].root = r)
        <=> \E i \in Events : queue[i].type = "DELETE" /\ queue[i].id = c /\ queue[i].root = r /\ i # 1
    BY <1>2
  <2> QED BY <1>2, <1>3, <2>1, <2>2, <2>3 DEF GoneFrom
<1>9. \A r \in Ids : Ahead(r)' = Ahead(r) /\ ~Answering(r)'
  BY <1>1, <1>3 DEF Ahead, Answering
<1> QED BY <1>1, <1>6, <1>7, <1>8, <1>9 DEF Answered

\* The listener goes on with the first event.
LEMMA ListenerSets ==
  ASSUME TypeInv, queue # <<>>, queue' = queue, UNCHANGED handlerVars
  PROVE  /\ \A c \in Ids : c \in Uncounted' <=>
              IF First.type = "CREATE" /\ c = First.id THEN step' = "start" ELSE c \in Uncounted
         /\ \A c \in Ids : c \in Gone' <=>
              IF First.type = "DELETE" /\ c = First.id THEN step' # "uncount" ELSE c \in Gone
         /\ First.type = "CREATE" => (First.id \in Uncounted <=> step = "start")
         /\ First.type = "DELETE" => First.id \notin Uncounted /\ (First.id \in Gone <=> step # "uncount")
         /\ \A r \in Ids : GoneFrom(r)' = GoneFrom(r) /\ Ahead(r)' = Ahead(r)
         /\ First' = First
<1>1. First = queue[1] /\ 1 \in Events /\ First \in CommentEvent /\ EventOK(First)
      /\ Events' = Events /\ First' = First /\ Len(queue) \in Nat
  BY FirstFacts, TailFacts DEF Events, First, TypeInv, TypeOK
<1>2. pc' = pc /\ id' = id /\ root' = root
  BY DEF handlerVars
<1>3. First.type = "CREATE" \/ First.type = "DELETE"
  BY <1>1 DEF CommentEvent
<1>4. ASSUME NEW i \in Events, i # 1, queue[i].id = First.id PROVE queue[i].type # First.type
  BY <1>1, <1>4 DEF TypeInv, QueueOK
<1>5. \A q \in Procs : pc[q] \in {"publish", "undoinsert"} => id[q] # First.id
  BY <1>1 DEF EventOK, Creating
<1>6. First.type = "DELETE" => \A q \in Procs : pc[q] = "publishdelete" => id[q] # First.id
  BY <1>1 DEF EventOK
<1>7. ASSUME NEW i \in Events, First.type = "DELETE", queue[i].id = First.id PROVE i = 1
  <2>1. i <= 1
    BY <1>1, <1>7 DEF TypeInv, QueueOK
  <2> QED BY <2>1 DEF Events
<1>8. \A c \in Ids : c \in Uncounted' <=>
              IF First.type = "CREATE" /\ c = First.id THEN step' = "start" ELSE c \in Uncounted
  BY <1>1, <1>2, <1>4, <1>5 DEF Uncounted
<1>9. \A c \in Ids : c \in Gone' <=>
              IF First.type = "DELETE" /\ c = First.id THEN step' # "uncount" ELSE c \in Gone
  BY <1>1, <1>2, <1>4, <1>6 DEF Gone
<1>10. First.id \in Ids
  BY <1>1 DEF CommentEvent
<1>11. First.type = "CREATE" => (First.id \in Uncounted <=> step = "start")
  BY <1>1, <1>4, <1>5, <1>10 DEF Uncounted
<1>12. First.type = "DELETE" => First.id \notin Uncounted /\ (First.id \in Gone <=> step # "uncount")
  BY <1>1, <1>5, <1>6, <1>7, <1>10 DEF Uncounted, Gone
<1>13. \A r \in Ids : GoneFrom(r)' = GoneFrom(r) /\ Ahead(r)' = Ahead(r)
  BY <1>1, <1>2 DEF GoneFrom, Ahead
<1> QED BY <1>1, <1>8, <1>9, <1>11, <1>12, <1>13
-----------------------------------------------------------------------------
(* The post's count. *)

LEMMA CountFacts ==
  ASSUME NEW S \in SUBSET Ids
  PROVE  /\ IsFiniteSet(S) /\ Cardinality(S) \in Nat
         /\ Cardinality(S) = 0 <=> S = {}
         /\ \A x : x \notin S => Cardinality(S \cup {x}) = Cardinality(S) + 1
         /\ \A x \in S : Cardinality(S \ {x}) = Cardinality(S) - 1
BY CardinalityFacts, CommentsAssumption

LEMMA CountTypes ==
  /\ Uncounted \in SUBSET Ids /\ Known \in SUBSET Ids /\ Uncounted \ Known \in SUBSET Ids
  /\ Cardinality(Uncounted) \in Nat /\ Cardinality(Known) \in Nat
  /\ Cardinality(Uncounted \ Known) \in Nat
  /\ Answered \in {0, 1}
<1>1. Uncounted \in SUBSET Ids /\ Known \in SUBSET Ids
  BY DEF Uncounted, Known, Present, Gone
<1>2. Uncounted \ Known \in SUBSET Ids
  BY <1>1
<1> QED BY <1>1, <1>2, CountFacts DEF Answered

LEMMA CountTypesNext ==
  /\ Uncounted' \in SUBSET Ids /\ Known' \in SUBSET Ids /\ Uncounted' \ Known' \in SUBSET Ids
  /\ Cardinality(Uncounted') \in Nat /\ Cardinality(Known') \in Nat
  /\ Cardinality(Uncounted' \ Known') \in Nat
  /\ Answered' \in {0, 1}
<1>1. Uncounted' \in SUBSET Ids /\ Known' \in SUBSET Ids
  BY DEF Uncounted, Known, Present, Gone
<1>2. Uncounted' \ Known' \in SUBSET Ids
  BY <1>1
<1> QED BY <1>1, <1>2, CountFacts DEF Answered

\* An element more or less.
LEMMA OneElement ==
  ASSUME NEW S \in SUBSET Ids, NEW c \in Ids
  PROVE  /\ Cardinality(S) \in Nat
         /\ c \in S => S \cup {c} = S /\ Cardinality(S \ {c}) = Cardinality(S) - 1
         /\ c \notin S => S \ {c} = S /\ Cardinality(S \cup {c}) = Cardinality(S) + 1
BY CountFacts

LEMMA AtMostOneElement ==
  ASSUME NEW S \in SUBSET Ids, NEW c \in Ids, NEW T,
         T = S \/ T = S \cup {c} \/ T = S \ {c}
  PROVE  Cardinality(T) = Cardinality(S) \/ Cardinality(T) = Cardinality(S) + 1
         \/ Cardinality(T) = Cardinality(S) - 1
<1>1. CASE c \in S /\ T = S \ {c}
  BY <1>1, OneElement
<1>2. CASE c \notin S /\ T = S \cup {c}
  BY <1>2, OneElement
<1>3. CASE T = S
  BY <1>3
<1> QED BY <1>1, <1>2, <1>3

LEMMA NearMoves ==
  ASSUME NEW x \in Int, NEW y \in Int, NEW n \in Int, NEW m \in Int, NEW d \in Nat,
         Near(x, n, d), y - m <= x - n + 1, y - m >= x - n - 1
  PROVE  Near(y, m, d + 1)
BY DEF Near

LEMMA OneMoves ==
  ASSUME NEW U \in SUBSET Ids, NEW K \in SUBSET Ids, NEW V \in SUBSET Ids, NEW L \in SUBSET Ids,
         NEW a \in Int, NEW b \in Int, NEW d \in Nat, NEW c \in Ids,
         Near(a + Cardinality(U), Cardinality(K), d), Cardinality(U \ K) <= d,
         \/ L = K /\ (V = U \cup {c} \/ V = U \ {c}) /\ b = a
         \/ (L = K \cup {c} \/ L = K \ {c}) /\ V = U /\ b = a
         \/ L = K /\ V = U /\ b = a - 1
         \/ L = K /\ c \notin U /\ V = U \cup {c} /\ b = a - 1
  PROVE  Near(b + Cardinality(V), Cardinality(L), d + 1) /\ Cardinality(V \ L) <= d + 1
<1> DEFINE u == Cardinality(U)
           v == Cardinality(V)
           k == Cardinality(K)
           l == Cardinality(L)
<1>1. u \in Nat /\ v \in Nat /\ k \in Nat /\ l \in Nat
  BY CountFacts
<1>2. v - l + b <= u - k + a + 1 /\ v - l + b >= u - k + a - 1
  <2>1. ASSUME L = K, V = U \cup {c} \/ V = U \ {c} PROVE l = k /\ v <= u + 1 /\ v >= u - 1
    <3>1. l = k /\ (v = u \/ v = u + 1 \/ v = u - 1)
      BY <2>1, AtMostOneElement
    <3> QED BY <3>1, <1>1
  <2>2. ASSUME L = K \cup {c} \/ L = K \ {c}, V = U PROVE v = u /\ l <= k + 1 /\ l >= k - 1
    <3>1. v = u /\ (l = k \/ l = k + 1 \/ l = k - 1)
      BY <2>2, AtMostOneElement
    <3> QED BY <3>1, <1>1
  <2>3. ASSUME L = K, V = U PROVE l = k /\ v = u
    BY <2>3
  <2>4. ASSUME L = K, V = U \cup {c}, c \notin U PROVE l = k /\ v = u + 1
    BY <2>4, OneElement
  <2> HIDE DEF u, v, k, l
  <2> QED BY <1>1, <2>1, <2>2, <2>3, <2>4
<1>3. Near(b + v, l, d + 1)
  <2>1. Near(a + u, k, d)
    OBVIOUS
  <2> HIDE DEF u, v, k, l
  <2> QED BY <1>1, <1>2, <2>1, NearMoves
<1>4. Cardinality(V \ L) <= d + 1
  <2> DEFINE X == U \ K
             Y == V \ L
  <2>1. X \in SUBSET Ids /\ Cardinality(X) \in Nat /\ Cardinality(X) <= d
    BY CountFacts
  <2>2. Y = X \/ Y = X \cup {c} \/ Y = X \ {c}
    OBVIOUS
  <2> HIDE DEF X, Y
  <2>3. Cardinality(Y) = Cardinality(X) \/ Cardinality(Y) = Cardinality(X) + 1
        \/ Cardinality(Y) = Cardinality(X) - 1
    BY <2>1, <2>2, AtMostOneElement
  <2>4. Cardinality(Y) <= d + 1
    BY <2>1, <2>3
  <2> QED BY <2>4 DEF Y
<1> QED BY <1>3, <1>4

\* Nothing the count is about changes.
LEMMA CountStays ==
  ASSUME TypeOK, TypeOK', CountInv, Uncounted' = Uncounted, Known' = Known,
         commentCount' + Answered' = commentCount + Answered, harm' >= harm
  PROVE  CountInv'
<1>1. harm \in Nat /\ harm' \in Nat /\ commentCount \in Nat
  BY DEF TypeOK
<1>2. Near(commentCount' + Answered' + Cardinality(Uncounted'), Cardinality(Known'), harm')
  BY <1>1, CountTypes DEF Near, CountInv
<1>3. Cardinality(Uncounted' \ Known') <= harm'
  BY <1>1, CountTypes DEF CountInv
<1> QED BY <1>2, <1>3 DEF CountInv, Near

\* A comment appears or disappears with its announcement.
LEMMA BothChange ==
  ASSUME TypeOK, TypeOK', CountInv, NEW c \in Ids,
         \/ /\ c \notin Uncounted /\ Uncounted' = Uncounted \cup {c}
            /\ c \notin Known /\ Known' = Known \cup {c}
         \/ /\ c \in Uncounted /\ Uncounted' = Uncounted \ {c}
            /\ c \in Known /\ Known' = Known \ {c},
         commentCount' = commentCount, Answered' = Answered, harm' = harm
  PROVE  CountInv'
<1>1. Uncounted' \ Known' = Uncounted \ Known
  OBVIOUS
<1>2. Cardinality(Uncounted') - Cardinality(Known') = Cardinality(Uncounted) - Cardinality(Known)
  <2>1. CASE c \notin Uncounted /\ Uncounted' = Uncounted \cup {c}
             /\ c \notin Known /\ Known' = Known \cup {c}
    <3>1. Cardinality(Uncounted') = Cardinality(Uncounted) + 1
      BY <2>1, CountTypes, OneElement
    <3>2. Cardinality(Known') = Cardinality(Known) + 1
      BY <2>1, CountTypes, OneElement
    <3> QED BY <3>1, <3>2, CountTypes
  <2>2. CASE c \in Uncounted /\ Uncounted' = Uncounted \ {c} /\ c \in Known /\ Known' = Known \ {c}
    <3>1. Cardinality(Uncounted') = Cardinality(Uncounted) - 1
      BY <2>2, CountTypes, OneElement
    <3>2. Cardinality(Known') = Cardinality(Known) - 1
      BY <2>2, CountTypes, OneElement
    <3> QED BY <3>1, <3>2, CountTypes
  <2> QED BY <2>1, <2>2
<1>3. harm \in Nat /\ commentCount \in Nat
  BY DEF TypeOK
<1>4. Near(commentCount' + Answered' + Cardinality(Uncounted'), Cardinality(Known'), harm')
  BY <1>2, <1>3, CountTypes, CountTypesNext DEF CountInv, Near
<1> QED BY <1>1, <1>4 DEF CountInv, Near

\* A fault loses an announcement, or repeats it.
LEMMA OneChanges ==
  ASSUME TypeOK, TypeOK', CountInv, NEW c \in Ids, harm' = harm + 1,
         commentCount' + Answered' = commentCount + Answered,
         \/ Known' = Known /\ (Uncounted' = Uncounted \cup {c} \/ Uncounted' = Uncounted \ {c})
         \/ (Known' = Known \cup {c} \/ Known' = Known \ {c}) /\ Uncounted' = Uncounted
  PROVE  CountInv'
<1> DEFINE a == commentCount + Answered
           b == commentCount' + Answered'
<1>1. harm \in Nat /\ a \in Int /\ b \in Int
  BY CountTypes, CountTypesNext DEF TypeOK
<1>2. Cardinality(Uncounted \ Known) <= harm /\ Near(a + Cardinality(Uncounted), Cardinality(Known), harm)
  BY DEF CountInv
<1>3. /\ Uncounted \in SUBSET Ids /\ Known \in SUBSET Ids
      /\ Uncounted' \in SUBSET Ids /\ Known' \in SUBSET Ids
  BY CountTypes, CountTypesNext
<1>4. b = a
  OBVIOUS
<1> HIDE DEF a, b
<1>5. /\ Near(b + Cardinality(Uncounted'), Cardinality(Known'), harm + 1)
      /\ Cardinality(Uncounted' \ Known') <= harm + 1
  BY <1>1, <1>2, <1>3, <1>4, OneMoves
<1> QED BY <1>5 DEF CountInv, Near, b

\* The same while the AI's answer is not counted.
LEMMA AnswerLost ==
  ASSUME TypeOK, TypeOK', CountInv, NEW c \in Ids, harm' = harm + 1,
         commentCount' = commentCount, Answered = 1, Answered' = 0, Known' = Known,
         Uncounted' = Uncounted \/ (c \notin Uncounted /\ Uncounted' = Uncounted \cup {c})
  PROVE  CountInv'
<1> DEFINE a == commentCount + Answered
           b == commentCount' + Answered'
<1>1. harm \in Nat /\ a \in Int /\ b \in Int /\ b = a - 1
  BY DEF TypeOK
<1>2. Cardinality(Uncounted \ Known) <= harm /\ Near(a + Cardinality(Uncounted), Cardinality(Known), harm)
  BY DEF CountInv
<1>3. /\ Uncounted \in SUBSET Ids /\ Known \in SUBSET Ids
      /\ Uncounted' \in SUBSET Ids /\ Known' \in SUBSET Ids
  BY CountTypes, CountTypesNext
<1> HIDE DEF a, b
<1>5. /\ Near(b + Cardinality(Uncounted'), Cardinality(Known'), harm + 1)
      /\ Cardinality(Uncounted' \ Known') <= harm + 1
  BY <1>1, <1>2, <1>3, OneMoves
<1> QED BY <1>5 DEF CountInv, Near, b

\* The listener waits, and the handler neither publishes nor removed a reply.
LEMMA QuietCount ==
  ASSUME TypeInv, TypeOK', CountInv, NEW p \in Procs,
         \A q \in Procs \ {p} :
            pc'[q] = pc[q] /\ id'[q] = id[q] /\ parent'[q] = parent[q] /\ root'[q] = root[q],
         UNCHANGED <<queue, step, commentCount>>, harm' >= harm,
         \A c \in Ids : SameKind(c),
         pc[p] # "publishdelete", pc'[p] # "publishdelete",
         Publishing(p)' <=> Publishing(p), Publishing(p) => id'[p] = id[p]
  PROVE  CountInv'
<1>1. Uncounted' = Uncounted
  <2>1. \A c \in Ids : c \in Uncounted' <=> c \in Uncounted
    <3>1. \A c \in Ids : Publishing(p) /\ c = id[p] => c \in Uncounted
      BY DEF Publishing, Uncounted
    <3> QED BY <3>1, HandlerSets
  <2> QED BY <2>1, CountTypes, CountTypesNext
<1>2. Known' = Known
  <2>1. \A c \in Ids : c \in Gone' <=> c \in Gone
    BY HandlerSets
  <2>2. \A c \in Ids : c \in Known' <=> c \in Known
    BY <2>1 DEF Known, Present, SameKind
  <2> QED BY <2>2, CountTypes, CountTypesNext
<1>3. Answered' = Answered
  BY DEF Answered
<1> QED BY <1>1, <1>2, <1>3, CountStays DEF TypeInv

\* A handler's step that adds, removes or forgets the comment c.
LEMMA HandlerCount ==
  ASSUME TypeInv, TypeOK', CountInv, NEW p \in Procs, NEW c \in Ids, c = id[p], ~Idle(p),
         \A q \in Procs \ {p} :
            pc'[q] = pc[q] /\ id'[q] = id[q] /\ parent'[q] = parent[q] /\ root'[q] = root[q],
         UNCHANGED <<queue, step, commentCount>>, id'[p] \in {None, c},
         \A d \in Ids \ {c} : SameKind(d),
         \/ /\ pc[p] = "insert" /\ pc'[p] = "publish" /\ id'[p] = c
            /\ docs[c] = None /\ docs'[c] # None /\ harm' = harm
         \/ /\ pc[p] = "undoinsert" /\ pc'[p] \in {"idle", "undocount"}
            /\ docs[c] # None /\ docs'[c] = None /\ harm' = harm
         \/ /\ pc[p] = "remove" /\ pc'[p] = "publishdelete" /\ id'[p] = c
            /\ docs[c] # None /\ docs'[c] = None /\ harm' = harm
         \/ /\ Publishing(p) /\ pc'[p] \in {"idle", "undocount"}
            /\ SameKind(c) /\ harm' = harm + 1
         \/ /\ pc[p] = "publishdelete" /\ pc'[p] = "idle"
            /\ SameKind(c) /\ harm' = harm + 1
  PROVE  CountInv'
<1>1. ASSUME NEW q \in Procs, id[q] = c PROVE q = p
  BY <1>1, CommentsAssumption DEF TypeInv, HandlersOK
<1>2. \A i \in Events : queue[i] \in CommentEvent /\ EventOK(queue[i])
  BY DEF TypeInv, TypeOK, QueueOK, Events
<1>3. Creating(p) => c \notin Gone
  <2> SUFFICES ASSUME Creating(p), c \in Gone PROVE FALSE
    OBVIOUS
  <2>1. \A i \in Events : queue[i].id # c
    BY <1>2 DEF EventOK
  <2>2. PICK q \in Procs : pc[q] = "publishdelete" /\ id[q] = c
    BY <2>1 DEF Gone
  <2> QED BY <1>1, <2>2 DEF Creating
<1>4. pc[p] = "insert" => c \notin Uncounted
  <2> SUFFICES ASSUME pc[p] = "insert", c \in Uncounted PROVE FALSE
    OBVIOUS
  <2>1. \A i \in Events : queue[i].id # c
    BY <1>2 DEF EventOK, Creating
  <2>2. PICK q \in Procs : pc[q] \in {"publish", "undoinsert"} /\ id[q] = c
    BY <2>1 DEF Uncounted
  <2> QED BY <1>1, <2>2
<1>5. Publishing(p) => c \in Uncounted
  BY DEF Publishing, Uncounted
<1>6. /\ \A d \in Ids \ {c} : d \in Uncounted' <=> d \in Uncounted
      /\ \A d \in Ids \ {c} : d \in Gone' <=> d \in Gone
      /\ \A d \in Ids \ {c} : d \in Known' <=> d \in Known
      /\ Answered' = Answered
  <2>1. /\ \A d \in Ids \ {c} : d \in Uncounted' <=> d \in Uncounted
        /\ \A d \in Ids \ {c} : d \in Gone' <=> d \in Gone
        /\ Answered' = Answered
    BY HandlerSets, CommentsAssumption
  <2> QED BY <2>1 DEF Known, Present, SameKind
<1>7. /\ c \in Uncounted' <=> (c \in Uncounted /\ ~Publishing(p)) \/ (Publishing(p)' /\ c = id'[p])
      /\ c \in Gone' <=> (c \in Gone /\ pc[p] # "publishdelete")
                          \/ (pc'[p] = "publishdelete" /\ c = id'[p])
      /\ c \in Known <=> docs[c] # None \/ c \in Gone
      /\ c \in Known' <=> docs'[c] # None \/ c \in Gone'
  <2>1. c \in Uncounted' <=> (c \in Uncounted /\ ~Publishing(p)) \/ (Publishing(p)' /\ c = id'[p])
    BY HandlerSets
  <2>2. c \in Gone' <=> (c \in Gone /\ pc[p] # "publishdelete")
                        \/ (pc'[p] = "publishdelete" /\ c = id'[p])
    BY HandlerSets
  <2>3. /\ c \in Known <=> docs[c] # None \/ c \in Gone
        /\ c \in Known' <=> docs'[c] # None \/ c \in Gone'
    BY DEF Known, Present
  <2> QED BY <2>1, <2>2, <2>3
<1>8. /\ c \in Uncounted' => Uncounted' = Uncounted \cup {c}
      /\ c \notin Uncounted' => Uncounted' = Uncounted \ {c}
      /\ c \in Known' => Known' = Known \cup {c}
      /\ c \notin Known' => Known' = Known \ {c}
  BY <1>6, CountTypes, CountTypesNext
<1>9. CASE pc[p] = "insert" /\ pc'[p] = "publish" /\ id'[p] = c
           /\ docs[c] = None /\ docs'[c] # None /\ harm' = harm
  <2>1. c \notin Uncounted /\ c \in Uncounted' /\ c \notin Known /\ c \in Known'
    BY <1>3, <1>4, <1>7, <1>9 DEF Publishing, Creating
  <2> QED BY <1>6, <1>8, <1>9, <2>1, BothChange DEF TypeInv
<1>10. CASE pc[p] = "undoinsert" /\ pc'[p] \in {"idle", "undocount"}
            /\ docs[c] # None /\ docs'[c] = None /\ harm' = harm
  <2>1. c \in Uncounted /\ c \notin Uncounted' /\ c \in Known /\ c \notin Known'
    BY <1>3, <1>5, <1>7, <1>10 DEF Publishing, Creating
  <2> QED BY <1>6, <1>8, <1>10, <2>1, BothChange DEF TypeInv
<1>11. CASE pc[p] = "remove" /\ pc'[p] = "publishdelete" /\ id'[p] = c
            /\ docs[c] # None /\ docs'[c] = None /\ harm' = harm
  <2>1. (c \in Uncounted <=> c \in Uncounted') /\ c \in Known /\ c \in Known'
    BY <1>7, <1>11 DEF Publishing
  <2>2. Uncounted' = Uncounted /\ Known' = Known
    BY <2>1, <1>8
  <2>3. harm' >= harm /\ commentCount' + Answered' = commentCount + Answered
    BY <1>6, <1>11 DEF TypeInv, TypeOK
  <2> QED BY <2>2, <2>3, CountStays DEF TypeInv
<1>12. CASE /\ Publishing(p) /\ pc'[p] \in {"idle", "undocount"}
            /\ SameKind(c) /\ harm' = harm + 1
  <2>1. c \notin Uncounted' /\ (c \in Known <=> c \in Known')
    BY <1>7, <1>12 DEF Publishing, SameKind
  <2>2. Uncounted' = Uncounted \ {c} /\ Known' = Known
    BY <2>1, <1>8
  <2> QED BY <1>6, <1>12, <2>2, OneChanges DEF TypeInv
<1>13. CASE pc[p] = "publishdelete" /\ pc'[p] = "idle" /\ SameKind(c) /\ harm' = harm + 1
  <2>1. docs'[c] = None
    BY <1>13 DEF TypeInv, HandlersOK, HandlerOK, SameKind
  <2>2. (c \in Uncounted <=> c \in Uncounted') /\ c \notin Known'
    BY <1>7, <1>13, <2>1 DEF Publishing
  <2>3. Uncounted' = Uncounted /\ Known' = Known \ {c}
    BY <2>2, <1>8
  <2> QED BY <1>6, <1>13, <2>3, OneChanges DEF TypeInv
<1> QED BY <1>9, <1>10, <1>11, <1>12, <1>13

LEMMA SameDocsKind ==
  ASSUME docs' = docs
  PROVE  \A c \in Ids : SameKind(c)
BY DEF SameKind

\* Requests begin, read, count, or end.
LEMMA ReplyCount ==
  ASSUME TypeInv, TypeOK', CountInv, NEW p \in Procs, Reply(p), ~Idle(p), docs' = docs,
         UNCHANGED <<queue, step, commentCount>>,
         harm' = harm + 1 \/ (harm' = harm /\ ~Publishing(p) /\ pc[p] # "publishdelete")
  PROVE  CountInv'
<1>1. pc'[p] = "idle" /\ id'[p] = None /\ ~Publishing(p)'
      /\ \A q \in Procs \ {p} :
           pc'[q] = pc[q] /\ id'[q] = id[q] /\ parent'[q] = parent[q] /\ root'[q] = root[q]
  BY ReplyFacts DEF TypeInv, Publishing
<1>2. harm' >= harm
  BY DEF TypeInv, TypeOK
<1>3. id[p] \in Ids
  BY DEF TypeInv, TypeOK, HandlersOK, HandlerOK
<1>4. CASE ~Publishing(p) /\ pc[p] # "publishdelete"
  BY <1>1, <1>2, <1>4, SameDocsKind, QuietCount
<1>5. CASE Publishing(p)
  <2>1. harm' = harm + 1
    BY <1>5
  <2> QED BY <1>1, <1>3, <1>5, <2>1, SameDocsKind, HandlerCount
<1>6. CASE pc[p] = "publishdelete"
  <2>1. harm' = harm + 1
    BY <1>6
  <2> QED BY <1>1, <1>3, <1>6, <2>1, SameDocsKind, HandlerCount
<1> QED BY <1>4, <1>5, <1>6

LEMMA CreateCount ==
  ASSUME TypeInv, TypeOK', CountInv, NEW p \in Procs, CreateComment(p)
  PROVE  CountInv'
<1>1. HandlerOK(p) /\ id[p] \in Ids /\ ~Idle(p) /\ commentCount' = commentCount /\ step' = step
  BY DEF CreateComment, FindParent, ParentGone, IncrementRoot, InsertComment, PublishCreate, UndoInsert,
         UndoCount, TypeInv, TypeOK, HandlersOK, HandlerOK, Idle, storeVars, listenerVars
<1>2. harm \in Nat
  BY DEF TypeInv, TypeOK
<1>3. CASE FindParent(p)
  <2>1. /\ pc[p] = "parent" /\ pc'[p] = "increment" /\ docs' = docs /\ queue' = queue /\ harm' = harm
        /\ \A q \in Procs \ {p} :
             pc'[q] = pc[q] /\ id'[q] = id[q] /\ parent'[q] = parent[q] /\ root'[q] = root[q]
    BY <1>3 DEF FindParent, TypeInv, TypeOK, storeVars, listenerVars
  <2> QED BY <1>1, <1>2, <2>1, SameDocsKind, QuietCount DEF Publishing
<1>4. CASE ParentGone(p)
  BY <1>1, <1>4, ReplyCount DEF ParentGone, storeVars, listenerVars, Publishing
<1>5. CASE IncrementRoot(p)
  <2>1. root[p] \in Ids /\ docs[root[p]].replyCount + 1 \in Nat
    BY <1>1, <1>5 DEF HandlerOK, IncrementRoot, Firm, TypeInv, TypeOK, Doc
  <2>2. \A c \in Ids : SameKind(c)
    BY <2>1, <1>5, AddReplyFacts DEF IncrementRoot, TypeInv
  <2>3. /\ pc[p] = "increment" /\ pc'[p] = "insert" /\ queue' = queue /\ harm' = harm
        /\ \A q \in Procs \ {p} :
             pc'[q] = pc[q] /\ id'[q] = id[q] /\ parent'[q] = parent[q] /\ root'[q] = root[q]
    BY <1>5, GoToFacts DEF IncrementRoot, TypeInv, listenerVars
  <2> QED BY <1>1, <1>2, <2>2, <2>3, QuietCount DEF Publishing
<1>6. CASE InsertComment(p)
  <2>1. /\ pc[p] = "insert" /\ pc'[p] = "publish" /\ id'[p] = id[p] /\ queue' = queue /\ harm' = harm
        /\ \A q \in Procs \ {p} :
             pc'[q] = pc[q] /\ id'[q] = id[q] /\ parent'[q] = parent[q] /\ root'[q] = root[q]
    BY <1>6, GoToFacts DEF InsertComment, TypeInv, listenerVars
  <2>2. root[p] \in Ids \cup {None}
    BY DEF TypeInv, TypeOK
  <2>3. docs[id[p]] = None /\ docs'[id[p]] # None /\ \A d \in Ids \ {id[p]} : SameKind(d)
    BY <1>1, <1>6, <2>1, <2>2, NewDocFacts DEF InsertComment, HandlerOK, SameKind, TypeInv, TypeOK
  <2> QED BY <1>1, <2>1, <2>3, HandlerCount
<1>7. CASE PublishCreate(p)
  <2>1. docs' = docs /\ harm' = harm /\ pc[p] = "publish"
    BY <1>7 DEF PublishCreate, storeVars
  <2>2. CASE queue' = Append(queue, CreatedBy(p)) /\ Reply(p)
    <3> DEFINE e == CreatedBy(p)
    <3>1. e \in CommentEvent /\ e.id = id[p] /\ e.root = root[p] /\ e.type = "CREATE"
      BY <1>1 DEF CreatedBy, CommentEvent, Users, TypeInv, TypeOK
    <3> HIDE DEF e
    <3>2. queue' = Append(queue, e)
      BY <2>2 DEF e
    <3>3. Uncounted' = Uncounted /\ Gone' = Gone /\ Answered' = Answered
      BY <1>1, <2>1, <2>2, <3>1, <3>2, PublishSets
    <3>4. Known' = Known
      BY <2>1, <3>3 DEF Known, Present
    <3> QED BY <1>1, <1>2, <2>1, <3>3, <3>4, CountStays DEF TypeInv
  <2>3. CASE GoTo(p, "undoinsert") /\ UNCHANGED queue
    <3>1. /\ pc'[p] = "undoinsert" /\ id'[p] = id[p]
          /\ \A q \in Procs \ {p} :
               pc'[q] = pc[q] /\ id'[q] = id[q] /\ parent'[q] = parent[q] /\ root'[q] = root[q]
      BY <2>3, GoToFacts DEF TypeInv
    <3> QED BY <1>1, <1>2, <2>1, <2>3, <3>1, SameDocsKind, QuietCount DEF Publishing
  <2> QED BY <1>7, <2>2, <2>3 DEF PublishCreate
<1>8. CASE UndoInsert(p)
  <2>1. /\ pc[p] = "undoinsert" /\ pc'[p] \in {"idle", "undocount"} /\ id'[p] \in {None, id[p]}
        /\ queue' = queue
        /\ \A q \in Procs \ {p} :
             pc'[q] = pc[q] /\ id'[q] = id[q] /\ parent'[q] = parent[q] /\ root'[q] = root[q]
    <3>1. Reply(p) \/ GoTo(p, "undocount")
      BY <1>8 DEF UndoInsert
    <3>2. /\ pc'[p] \in {"idle", "undocount"} /\ id'[p] \in {None, id[p]}
          /\ \A q \in Procs \ {p} :
               pc'[q] = pc[q] /\ id'[q] = id[q] /\ parent'[q] = parent[q] /\ root'[q] = root[q]
      BY <3>1, GoToFacts, ReplyFacts DEF TypeInv
    <3> QED BY <1>8, <3>2 DEF UndoInsert, listenerVars
  <2>2. CASE docs' = [docs EXCEPT ![id[p]] = None] /\ UNCHANGED harm
    <3>1. docs[id[p]] # None /\ docs'[id[p]] = None /\ \A d \in Ids \ {id[p]} : SameKind(d)
      BY <1>1, <2>1, <2>2 DEF HandlerOK, SameKind, TypeInv, TypeOK
    <3> QED BY <1>1, <2>1, <2>2, <3>1, HandlerCount
  <2>3. CASE Fault("undo") /\ UNCHANGED docs
    <3>1. harm' = harm + 1 /\ Publishing(p)
      BY <2>1, <2>3 DEF Fault, Publishing
    <3> QED BY <1>1, <2>1, <2>3, <3>1, SameDocsKind, HandlerCount
  <2> QED BY <1>8, <2>2, <2>3 DEF UndoInsert
<1>9. CASE UndoCount(p)
  <2>1. pc[p] = "undocount" /\ Reply(p) /\ queue' = queue /\ harm' >= harm
    BY <1>2, <1>9 DEF UndoCount, listenerVars, Fault
  <2>2. root[p] \in Ids
    BY <1>1, <2>1 DEF HandlerOK, TypeInv, TypeOK
  <2>3. \A c \in Ids : SameKind(c)
    BY <1>9, <2>2, DropReplyFacts, SameDocsKind DEF UndoCount, TypeInv
  <2>4. /\ pc'[p] = "idle"
        /\ \A q \in Procs \ {p} :
             pc'[q] = pc[q] /\ id'[q] = id[q] /\ parent'[q] = parent[q] /\ root'[q] = root[q]
    BY <2>1, ReplyFacts DEF TypeInv
  <2> QED BY <1>1, <2>1, <2>3, <2>4, QuietCount DEF Publishing
<1> QED BY <1>3, <1>4, <1>5, <1>6, <1>7, <1>8, <1>9 DEF CreateComment

LEMMA DeleteCount ==
  ASSUME TypeInv, TypeOK', CountInv, NEW p \in Procs, DeleteComment(p)
  PROVE  CountInv'
<1>1. HandlerOK(p) /\ id[p] \in Ids /\ ~Idle(p) /\ commentCount' = commentCount /\ step' = step
  BY DEF DeleteComment, FindComment, RemoveComment, PublishDelete,
         TypeInv, TypeOK, HandlersOK, HandlerOK, Idle, storeVars, listenerVars
<1>2. harm \in Nat
  BY DEF TypeInv, TypeOK
<1>3. CASE FindComment(p)
  <2>1. pc[p] = "find" /\ docs' = docs /\ queue' = queue /\ harm' = harm
    BY <1>3 DEF FindComment, storeVars, listenerVars
  <2>2. CASE Reply(p)
    BY <1>1, <2>1, <2>2, ReplyCount DEF Publishing
  <2>3. CASE ~Reply(p)
    <3>1. /\ pc'[p] = "remove"
          /\ \A q \in Procs \ {p} :
               pc'[q] = pc[q] /\ id'[q] = id[q] /\ parent'[q] = parent[q] /\ root'[q] = root[q]
      BY <1>3, <2>3 DEF FindComment, TypeInv, TypeOK
    <3> QED BY <1>1, <1>2, <2>1, <3>1, SameDocsKind, QuietCount DEF Publishing
  <2> QED BY <2>2, <2>3
<1>4. CASE RemoveComment(p) /\ root[p] = None
  <2>1. /\ pc[p] = "remove" /\ Reply(p) /\ queue' = queue /\ harm' = harm
        /\ docs' = [docs EXCEPT ![id[p]].deleted = TRUE]
    BY <1>1, <1>4 DEF RemoveComment, listenerVars, HandlerOK
  <2>2. \A c \in Ids : SameKind(c)
    <3>1. docs[id[p]] # None
      BY <1>1, <2>1 DEF HandlerOK
    <3> QED BY <1>1, <2>1, <3>1, MarkFacts DEF TypeInv
  <2>3. /\ pc'[p] = "idle"
        /\ \A q \in Procs \ {p} :
             pc'[q] = pc[q] /\ id'[q] = id[q] /\ parent'[q] = parent[q] /\ root'[q] = root[q]
    BY <2>1, ReplyFacts DEF TypeInv
  <2> QED BY <1>1, <1>2, <2>1, <2>2, <2>3, QuietCount DEF Publishing
<1>5. CASE RemoveComment(p) /\ root[p] # None
  <2>1. /\ pc[p] = "remove" /\ GoTo(p, "publishdelete") /\ queue' = queue /\ harm' = harm
        /\ docs' = [docs EXCEPT ![id[p]] = None]
    BY <1>5 DEF RemoveComment, listenerVars
  <2>2. /\ pc'[p] = "publishdelete" /\ id'[p] = id[p]
        /\ \A q \in Procs \ {p} :
             pc'[q] = pc[q] /\ id'[q] = id[q] /\ parent'[q] = parent[q] /\ root'[q] = root[q]
    BY <2>1, GoToFacts DEF TypeInv
  <2>3. docs[id[p]] # None /\ docs'[id[p]] = None /\ \A d \in Ids \ {id[p]} : SameKind(d)
    BY <1>1, <2>1 DEF HandlerOK, SameKind, TypeInv, TypeOK
  <2> QED BY <1>1, <2>1, <2>2, <2>3, HandlerCount
<1>6. CASE PublishDelete(p)
  <2>1. pc[p] = "publishdelete" /\ Reply(p) /\ docs' = docs
    BY <1>6 DEF PublishDelete, storeVars
  <2>2. CASE queue' = Append(queue, DeletedBy(p)) /\ UNCHANGED harm
    <3> DEFINE e == DeletedBy(p)
    <3>1. e \in CommentEvent /\ e.id = id[p] /\ e.root = root[p] /\ e.type = "DELETE"
      BY <1>1 DEF DeletedBy, CommentEvent, TypeInv, TypeOK
    <3> HIDE DEF e
    <3>2. queue' = Append(queue, e)
      BY <2>2 DEF e
    <3>3. Uncounted' = Uncounted /\ Gone' = Gone /\ Answered' = Answered
      BY <1>1, <2>1, <3>1, <3>2, PublishSets
    <3>4. Known' = Known
      BY <2>1, <3>3 DEF Known, Present
    <3> QED BY <1>1, <1>2, <2>2, <3>3, <3>4, CountStays DEF TypeInv
  <2>3. CASE Fault("undeleted") /\ UNCHANGED queue
    BY <1>1, <2>1, <2>3, ReplyCount DEF Fault
  <2> QED BY <1>6, <2>2, <2>3 DEF PublishDelete
<1> QED BY <1>3, <1>4, <1>5, <1>6 DEF DeleteComment

LEMMA ListenerCount ==
  ASSUME TypeInv, TypeOK', CountInv, HandleCommentEvent \/ AnswerFails \/ Redeliver
  PROVE  CountInv'
<1>1. UNCHANGED handlerVars /\ harm \in Nat /\ commentCount \in Nat
  BY DEF HandleCommentEvent, CountComment, SendCommentNotification, NoAnswer, SaveAnswer, CountAnswer,
         CountAnswerReply, UncountComment, UncountReply, AnswerFails, Redeliver, TypeInv, TypeOK
<1>2. Present' = Present /\ Gone' = Gone => Known' = Known
  BY DEF Known
<1>3. (\A c \in Ids : SameKind(c)) => Present' = Present
  BY DEF SameKind, Present
<1>4. CASE CountComment
  <2>1. /\ queue # <<>> /\ queue' = queue /\ First.type = "CREATE" /\ step = "start" /\ step' = "notify"
        /\ docs' = docs /\ commentCount' = commentCount + 1 /\ harm' = harm
    BY <1>4 DEF CountComment, At
  <2>2. /\ First.id \in Uncounted /\ First.id \in Ids
        /\ Uncounted' = Uncounted \ {First.id} /\ Gone' = Gone
    <3>1. First.id \in Uncounted /\ First.id \in Ids
      BY <1>1, <2>1, ListenerSets, FirstFacts
    <3>2. \A c \in Ids : (c \in Uncounted' <=> c \in Uncounted /\ c # First.id)
                         /\ (c \in Gone' <=> c \in Gone)
      BY <1>1, <2>1, ListenerSets
    <3> QED BY <3>1, <3>2 DEF Uncounted, Gone
  <2>3. Known' = Known
    BY <1>2, <1>3, <2>1, <2>2, SameDocsKind
  <2>4. Cardinality(Uncounted') = Cardinality(Uncounted) - 1
    BY <2>2, CountTypes, OneElement
  <2>5. Uncounted' \ Known' \in SUBSET (Uncounted \ Known)
    BY <2>2, <2>3
  <2>6. Cardinality(Uncounted' \ Known') <= Cardinality(Uncounted \ Known)
    <3>1. IsFiniteSet(Uncounted \ Known)
      BY CountTypes, CountFacts
    <3> QED BY <2>5, <3>1, FS_Subset
  <2>7. Answered = 0 /\ Answered' = 0
    BY <2>1 DEF Answered
  <2>8. Near(commentCount' + Answered' + Cardinality(Uncounted'), Cardinality(Known'), harm')
    BY <1>1, <2>1, <2>3, <2>4, <2>7, CountTypes DEF CountInv, Near
  <2>9. Cardinality(Uncounted' \ Known') <= harm'
    BY <1>1, <2>1, <2>6, CountTypes, CountTypesNext DEF CountInv
  <2> QED BY <2>8, <2>9 DEF CountInv, Near
<1>5. CASE (SendCommentNotification /\ ~Acknowledge) \/ CountAnswer
  <2>1. /\ queue # <<>> /\ queue' = queue /\ First.type = "CREATE" /\ step # "start" /\ step' # "start"
        /\ docs' = docs /\ harm' = harm /\ commentCount' + Answered' = commentCount + Answered
    BY <1>1, <1>5 DEF SendCommentNotification, CountAnswer, At, storeVars, Answered
  <2>2. Uncounted' = Uncounted /\ Gone' = Gone
    <3>1. \A c \in Ids : (c \in Uncounted' <=> c \in Uncounted) /\ (c \in Gone' <=> c \in Gone)
      BY <1>1, <2>1, ListenerSets
    <3> QED BY <3>1 DEF Uncounted, Gone
  <2> QED BY <1>1, <1>2, <1>3, <2>1, <2>2, SameDocsKind, CountStays DEF TypeInv
<1>6. CASE (SendCommentNotification /\ Acknowledge) \/ NoAnswer \/ CountAnswerReply \/ UncountReply
  <2>1. Acknowledge /\ step # "start" /\ step # "countanswer" /\ commentCount' = commentCount /\ harm' = harm
    BY <1>6 DEF SendCommentNotification, NoAnswer, CountAnswerReply, UncountReply, At, storeVars
  <2>2. Uncounted' = Uncounted /\ Gone' = Gone /\ Answered' = 0 /\ Answered = 0
    BY <1>1, <2>1, AcknowledgeSets DEF Answered
  <2>3. \A c \in Ids : SameKind(c)
    <3>1. queue # <<>>
      BY <2>1 DEF TypeInv, QueueOK
    <3>2. CASE SendCommentNotification \/ NoAnswer
      BY <3>2, SameDocsKind DEF SendCommentNotification, NoAnswer, storeVars
    <3>3. CASE CountAnswerReply
      <4>1. First.type = "CREATE" /\ AddReply(AnswerRoot(First), 1)
        BY <3>3 DEF CountAnswerReply, At
      <4>2. AnswerRoot(First) \in Ids /\ Firm(AnswerRoot(First))
        BY <3>1, <4>1, FirstFacts
      <4>3. docs[AnswerRoot(First)].replyCount + 1 \in Nat
        BY <4>2 DEF Firm, TypeInv, TypeOK, Doc
      <4> QED BY <4>1, <4>2, <4>3, AddReplyFacts DEF TypeInv
    <3>4. CASE UncountReply
      <4>1. First.type = "DELETE" /\ DropReply(First.root)
        BY <3>4 DEF UncountReply, At
      <4> QED BY <3>1, <4>1, FirstFacts, DropReplyFacts DEF TypeInv
    <3> QED BY <1>6, <3>2, <3>3, <3>4
  <2> QED BY <1>1, <1>2, <1>3, <2>1, <2>2, <2>3, CountStays DEF TypeInv
<1>7. CASE SaveAnswer
  <2>1. PICK b \in Ids \ drawn : docs' = [docs EXCEPT ![b] = NewDoc(AnswerRoot(First))]
    BY <1>7 DEF SaveAnswer
  <2>2. /\ queue # <<>> /\ queue' = queue /\ First.type = "CREATE" /\ step = "answer"
        /\ step' = "countanswer" /\ harm' = harm /\ commentCount' = commentCount
    BY <1>7 DEF SaveAnswer, At
  <2>3. Uncounted' = Uncounted /\ Gone' = Gone
    <3>1. \A c \in Ids : (c \in Uncounted' <=> c \in Uncounted) /\ (c \in Gone' <=> c \in Gone)
      BY <1>1, <2>2, ListenerSets
    <3> QED BY <3>1 DEF Uncounted, Gone
  <2>4. NewDoc(AnswerRoot(First)) # None
    BY <2>2, FirstFacts, NewDocFacts
  <2>5. b \notin Known
    <3>1. b \notin Present
      BY DEF TypeInv, DocsOK
    <3>2. \A p \in Procs : pc[p] = "publishdelete" => id[p] # b
      BY DEF TypeInv, HandlersOK, HandlerOK, Idle
    <3>3. \A i \in Events : queue[i].id # b
      BY DEF TypeInv, QueueOK, EventOK
    <3> QED BY <3>1, <3>2, <3>3 DEF Known, Gone
  <2>6. Known' = Known \cup {b}
    <3>1. Present' = Present \cup {b}
      BY <2>1, <2>4 DEF Present, TypeInv, TypeOK
    <3> QED BY <2>3, <3>1 DEF Known
  <2>7. Cardinality(Known') = Cardinality(Known) + 1
    BY <2>5, <2>6, CountTypes, OneElement
  <2>8. Uncounted' \ Known' \in SUBSET (Uncounted \ Known)
    BY <2>3, <2>6
  <2>9. Cardinality(Uncounted' \ Known') <= Cardinality(Uncounted \ Known)
    <3>1. IsFiniteSet(Uncounted \ Known)
      BY CountTypes, CountFacts
    <3> QED BY <2>8, <3>1, FS_Subset
  <2>10. Answered = 0 /\ Answered' = 1
    BY <2>2 DEF Answered
  <2>11. Near(commentCount' + Answered' + Cardinality(Uncounted'), Cardinality(Known'), harm')
    BY <1>1, <2>2, <2>3, <2>7, <2>10, CountTypes DEF CountInv, Near
  <2>12. Cardinality(Uncounted' \ Known') <= harm'
    BY <1>1, <2>2, <2>9, CountTypes, CountTypesNext DEF CountInv
  <2> QED BY <2>11, <2>12 DEF CountInv, Near
<1>8. CASE AnswerFails
  <2>1. Acknowledge /\ step # "start" /\ docs' = docs /\ commentCount' = commentCount /\ harm' = harm + 1
    BY <1>8 DEF AnswerFails, storeVars, Fault
  <2>2. Uncounted' = Uncounted /\ Gone' = Gone /\ Answered' = 0
    BY <1>1, <2>1, AcknowledgeSets
  <2>3. Known' = Known
    BY <1>2, <1>3, <2>1, <2>2, SameDocsKind
  <2>4. First.id \in Ids
    <3>1. queue # <<>>
      BY <2>1 DEF TypeInv, QueueOK
    <3> QED BY <3>1, FirstFacts
  <2>5. CASE Answered = 0
    BY <1>1, <2>1, <2>2, <2>3, <2>5, CountStays DEF TypeInv
  <2>6. CASE Answered = 1
    BY <2>1, <2>2, <2>3, <2>4, <2>6, AnswerLost DEF TypeInv
  <2> QED BY <2>5, <2>6, CountTypes
<1>9. CASE UncountComment
  <2>1. /\ queue # <<>> /\ queue' = queue /\ First.type = "DELETE" /\ step = "start" /\ step' = "uncount"
        /\ docs' = docs /\ harm' = harm
        /\ commentCount' = IF commentCount > 0 THEN commentCount - 1 ELSE commentCount
    BY <1>9 DEF UncountComment, At
  <2>2. /\ First.id \in Gone /\ First.id \notin Uncounted /\ First.id \in Ids
        /\ Uncounted' = Uncounted /\ Gone' = Gone \ {First.id}
    <3>1. First.id \in Gone /\ First.id \notin Uncounted /\ First.id \in Ids
      BY <1>1, <2>1, ListenerSets, FirstFacts
    <3>2. \A c \in Ids : (c \in Uncounted' <=> c \in Uncounted)
                         /\ (c \in Gone' <=> c \in Gone /\ c # First.id)
      BY <1>1, <2>1, ListenerSets
    <3> QED BY <3>1, <3>2 DEF Uncounted, Gone
  <2>3. docs[First.id] = None
    BY <2>1, FirstFacts DEF EventOK
  <2>4. First.id \in Known /\ Known' = Known \ {First.id}
    BY <2>1, <2>2, <2>3 DEF Known, Present
  <2>5. Cardinality(Known') = Cardinality(Known) - 1
    BY <2>2, <2>4, CountTypes, OneElement
  <2>6. Uncounted' \ Known' = Uncounted \ Known
    BY <2>2, <2>4
  <2>7. Answered = 0 /\ Answered' = 0
    BY <2>1 DEF Answered
  <2>8. Cardinality(Uncounted) <= Cardinality(Known') + Cardinality(Uncounted \ Known')
    <3> DEFINE X == Uncounted \ Known'
    <3>1. IsFiniteSet(Known') /\ IsFiniteSet(X) /\ Uncounted \in SUBSET (Known' \cup X)
      BY CountTypes, CountTypesNext, CountFacts
    <3>2. IsFiniteSet(Known' \cup X)
          /\ Cardinality(Known' \cup X) = Cardinality(Known') + Cardinality(X) - Cardinality(Known' \cap X)
      BY <3>1, FS_Union
    <3>3. Cardinality(Known' \cap X) = 0
      <4>1. Known' \cap X = {}
        OBVIOUS
      <4> QED BY <4>1, FS_EmptySet
    <3>4. Cardinality(Uncounted) <= Cardinality(Known' \cup X)
      BY <3>1, <3>2, FS_Subset
    <3>5. Cardinality(Known' \cup X) = Cardinality(Known') + Cardinality(X)
      <4>1. Cardinality(Known') \in Nat /\ Cardinality(X) \in Nat
        BY <3>1, FS_CardinalityType
      <4> QED BY <3>2, <3>3, <4>1
    <3> QED BY <3>4, <3>5
  <2>9. Cardinality(Uncounted \ Known') <= harm
    BY <2>2, <2>6 DEF CountInv
  <2>10. Cardinality(Uncounted \ Known') \in Nat
    BY <2>2, <2>6, CountTypes
  <2>11. Near(commentCount + Cardinality(Uncounted), Cardinality(Known), harm)
    BY <1>1, <2>7, CountTypes DEF CountInv, Near
  <2>12. Near(commentCount' + Answered' + Cardinality(Uncounted'), Cardinality(Known'), harm')
    <3>1. CASE commentCount > 0
      BY <1>1, <2>1, <2>2, <2>5, <2>7, <2>11, <3>1, CountTypes, CountTypesNext DEF Near
    <3>2. CASE commentCount = 0
      <4>1. commentCount' = 0
        BY <2>1, <3>2
      <4>2. Cardinality(Uncounted) - Cardinality(Known') <= harm
        BY <1>1, <2>8, <2>9, <2>10, CountTypes, CountTypesNext
      <4>3. Cardinality(Uncounted) - Cardinality(Known') >= -harm
        BY <1>1, <2>5, <2>11, <3>2, CountTypes, CountTypesNext DEF Near
      <4> QED BY <1>1, <2>1, <2>2, <2>7, <4>1, <4>2, <4>3, CountTypes, CountTypesNext DEF Near
    <3> QED BY <1>1, <3>1, <3>2
  <2> QED BY <2>1, <2>2, <2>9, <2>12 DEF CountInv, Near
<1>10. CASE Redeliver
  <2>1. queue # <<>> /\ queue' = queue /\ step # "start" /\ step' = "start" /\ docs' = docs
        /\ commentCount' = commentCount /\ harm' = harm + 1
    BY <1>10 DEF Redeliver, TypeInv, QueueOK, storeVars, Fault
  <2>2. First.id \in Ids /\ (First.type = "CREATE" \/ First.type = "DELETE")
    BY <2>1, FirstFacts DEF CommentEvent
  <2>3. CASE First.type = "CREATE"
    <3>1. First.id \notin Uncounted /\ Uncounted' = Uncounted \cup {First.id} /\ Gone' = Gone
      <4>1. First.id \notin Uncounted
        BY <2>1, <2>3, <1>1, ListenerSets
      <4>2. \A c \in Ids : (c \in Uncounted' <=> c \in Uncounted \/ c = First.id)
                           /\ (c \in Gone' <=> c \in Gone)
        BY <1>1, <2>1, <2>3, ListenerSets
      <4> QED BY <2>2, <4>1, <4>2 DEF Uncounted, Gone
    <3>2. Known' = Known
      BY <1>2, <1>3, <2>1, <3>1, SameDocsKind
    <3>3. Answered' = 0
      BY <2>1 DEF Answered
    <3>4. CASE Answered = 0
      BY <2>1, <2>2, <3>1, <3>2, <3>3, <3>4, OneChanges DEF TypeInv
    <3>5. CASE Answered = 1
      BY <2>1, <2>2, <3>1, <3>2, <3>3, <3>5, AnswerLost DEF TypeInv
    <3> QED BY <3>4, <3>5, CountTypes
  <2>4. CASE First.type = "DELETE"
    <3>1. step = "uncount"
      BY <2>1, <2>4 DEF TypeInv, QueueOK, TypeOK, ListenerSteps
    <3>2. Uncounted' = Uncounted /\ Gone' = Gone \cup {First.id}
      <4>1. \A c \in Ids : (c \in Uncounted' <=> c \in Uncounted)
                           /\ (c \in Gone' <=> c \in Gone \/ c = First.id)
        BY <1>1, <2>1, <2>4, ListenerSets
      <4> QED BY <2>2, <4>1 DEF Uncounted, Gone
    <3>3. Known' = Known \cup {First.id}
      BY <2>1, <3>2 DEF Known, Present
    <3>4. commentCount' + Answered' = commentCount + Answered
      BY <2>1, <3>1 DEF Answered
    <3> QED BY <2>1, <2>2, <3>2, <3>3, <3>4, OneChanges DEF TypeInv
  <2> QED BY <2>2, <2>3, <2>4
<1> QED BY <1>4, <1>5, <1>6, <1>7, <1>8, <1>9, <1>10 DEF HandleCommentEvent

LEMMA InitCount == Init => CountInv
<1> SUFFICES ASSUME Init PROVE CountInv
  OBVIOUS
<1>1. Present = {}
  BY DEF Init, Present
<1>2. \A i : i \notin Events
  BY DEF Init, Events
<1>3. Uncounted = {} /\ Gone = {}
  BY <1>2 DEF Init, Uncounted, Gone
<1>4. Known = {} /\ Uncounted \ Known = {} /\ Answered = 0 /\ commentCount = 0 /\ harm = 0
  BY <1>1, <1>3 DEF Known, Answered, Init
<1> QED BY <1>3, <1>4, FS_EmptySet DEF CountInv, Near
-----------------------------------------------------------------------------
(* The counts of the roots. *)

LEMMA ProcFacts ==
  ASSUME NEW S \in SUBSET Procs, NEW p \in Procs
  PROVE  /\ Cardinality(S) \in Nat
         /\ p \in S => S \cup {p} = S /\ Cardinality(S \ {p}) = Cardinality(S) - 1
         /\ p \notin S => S \ {p} = S /\ Cardinality(S \cup {p}) = Cardinality(S) + 1
BY CardinalityFacts, CommentsAssumption

LEMMA RootTypes ==
  ASSUME NEW r
  PROVE  /\ Replies(r) \in SUBSET Ids /\ Ahead(r) \in SUBSET Procs
         /\ Cardinality(Replies(r)) \in Nat /\ Cardinality(Ahead(r)) \in Nat
<1>1. Replies(r) \in SUBSET Ids /\ Ahead(r) \in SUBSET Procs
  BY DEF Replies, SubList, Present, GoneFrom, Ahead
<1> QED BY <1>1, CountFacts, CardinalityFacts, CommentsAssumption

LEMMA RootTypesNext ==
  ASSUME NEW r
  PROVE  /\ Replies(r)' \in SUBSET Ids /\ Ahead(r)' \in SUBSET Procs
         /\ Cardinality(Replies(r)') \in Nat /\ Cardinality(Ahead(r)') \in Nat
<1>1. Replies(r)' \in SUBSET Ids /\ Ahead(r)' \in SUBSET Procs
  BY DEF Replies, SubList, Present, GoneFrom, Ahead
<1> QED BY <1>1, CountFacts, CardinalityFacts, CommentsAssumption

LEMMA ShownTypes ==
  ASSUME NEW r \in Ids, TypeOK, TypeOK', docs[r] # None, docs'[r] # None
  PROVE  /\ docs[r].replyCount \in Nat /\ docs'[r].replyCount \in Nat
         /\ Shown(r) \in Nat /\ Shown(r)' \in Nat /\ Total(r) \in Nat /\ Total(r)' \in Nat
         /\ harm \in Nat /\ harm' \in Nat
<1>1. docs[r] \in Doc /\ docs'[r] \in Doc
  BY DEF TypeOK
<1>2. docs[r].replyCount \in Nat /\ docs'[r].replyCount \in Nat
  BY <1>1 DEF Doc
<1>3. Shown(r) \in Nat /\ Shown(r)' \in Nat
  BY <1>2 DEF Shown
<1>4. Total(r) \in Nat /\ Total(r)' \in Nat
  BY RootTypes, RootTypesNext DEF Total
<1> QED BY <1>2, <1>3, <1>4 DEF TypeOK

\* Nothing the count is about changes, or everything by the same.
LEMMA RootStays ==
  ASSUME NEW r \in Ids, TypeOK, TypeOK', docs[r] # None, docs'[r] # None, RootCount(r),
         Shown(r)' - Total(r)' = Shown(r) - Total(r), harm' >= harm,
         Answering(r)' => Answering(r) /\ \A b \in Replies(r) : Author[b] = Bot => b \in Replies(r)'
  PROVE  RootCount(r)'
<1>1. Near(Shown(r)', Total(r)', harm')
  BY ShownTypes DEF RootCount, Near
<1>2. Answering(r)' => harm' > 0 \/ \E b \in Replies(r)' : Author[b] = Bot
  BY ShownTypes DEF RootCount
<1> QED BY <1>1, <1>2 DEF RootCount, Near

\* A fault.
LEMMA RootMoves ==
  ASSUME NEW r \in Ids, TypeOK, TypeOK', docs[r] # None, docs'[r] # None, RootCount(r),
         Shown(r)' - Total(r)' <= Shown(r) - Total(r) + 1,
         Shown(r)' - Total(r)' >= Shown(r) - Total(r) - 1, harm' = harm + 1
  PROVE  RootCount(r)'
<1>1. Near(Shown(r)', Total(r)', harm + 1)
  <2>1. Near(Shown(r), Total(r), harm)
    BY DEF RootCount
  <2> QED BY <2>1, ShownTypes, NearMoves
<1>2. harm' > 0
  BY ShownTypes
<1> QED BY <1>1, <1>2 DEF RootCount, Near

\* The replies of r after a handler's step, while the listener waits.
LEMMA HandlerReplies ==
  ASSUME TypeInv, NEW p \in Procs, NEW c \in Ids, c = id[p], ~Idle(p), NEW r \in Ids,
         \A q \in Procs \ {p} :
            pc'[q] = pc[q] /\ id'[q] = id[q] /\ parent'[q] = parent[q] /\ root'[q] = root[q],
         queue' = queue, step' = step, id'[p] \in {None, c},
         \A d \in Ids \ {c} : SameKind(d)
  PROVE  /\ Creating(p) => c \notin GoneFrom(r)
         /\ c \in Replies(r)' <=>
              \/ docs'[c] # None /\ docs'[c].root = r
              \/ c \in GoneFrom(r) /\ pc[p] # "publishdelete"
              \/ pc'[p] = "publishdelete" /\ id'[p] = c /\ root'[p] = r
         /\ c \in Replies(r) <=> (docs[c] # None /\ docs[c].root = r) \/ c \in GoneFrom(r)
         /\ c \in Replies(r)' => Replies(r)' = Replies(r) \cup {c}
         /\ c \notin Replies(r)' => Replies(r)' = Replies(r) \ {c}
         /\ p \in Ahead(r) <=> pc[p] \in {"insert", "undocount"} /\ root[p] = r
         /\ p \in Ahead(r)' <=> pc'[p] \in {"insert", "undocount"} /\ root'[p] = r
         /\ p \in Ahead(r)' => Ahead(r)' = Ahead(r) \cup {p}
         /\ p \notin Ahead(r)' => Ahead(r)' = Ahead(r) \ {p}
         /\ Answering(r)' = Answering(r)
<1>1. ASSUME NEW q \in Procs, id[q] = c PROVE q = p
  BY <1>1, CommentsAssumption DEF TypeInv, HandlersOK
<1>2. \A i \in Events : queue[i] \in CommentEvent /\ EventOK(queue[i])
  BY DEF TypeInv, TypeOK, QueueOK, Events
<1>3. Creating(p) => c \notin GoneFrom(r)
  <2> SUFFICES ASSUME Creating(p), c \in GoneFrom(r) PROVE FALSE
    OBVIOUS
  <2>1. \A i \in Events : queue[i].id # c
    BY <1>2 DEF EventOK
  <2>2. PICK q \in Procs : pc[q] = "publishdelete" /\ id[q] = c
    BY <2>1 DEF GoneFrom
  <2> QED BY <1>1, <2>2 DEF Creating
<1>4. /\ c \in GoneFrom(r)' <=> (c \in GoneFrom(r) /\ pc[p] # "publishdelete")
                                \/ (pc'[p] = "publishdelete" /\ c = id'[p] /\ root'[p] = r)
      /\ \A d \in Ids \ {c} : d \in GoneFrom(r)' <=> d \in GoneFrom(r)
      /\ \A q \in Procs \ {p} : q \in Ahead(r)' <=> q \in Ahead(r)
      /\ Answering(r)' = Answering(r)
  <2>1. \A d \in Ids : d \in GoneFrom(r)' <=>
              \/ d \in GoneFrom(r) /\ ~(pc[p] = "publishdelete" /\ d = id[p])
              \/ pc'[p] = "publishdelete" /\ d = id'[p] /\ root'[p] = r
    BY HandlerSets
  <2>2. \A d \in Ids \ {c} : d \in GoneFrom(r)' <=> d \in GoneFrom(r)
    BY <2>1, CommentsAssumption
  <2>3. /\ \A q \in Procs \ {p} : q \in Ahead(r)' <=> q \in Ahead(r)
        /\ Answering(r)' = Answering(r)
    BY HandlerSets
  <2> QED BY <2>1, <2>2, <2>3
<1>5. /\ c \in Replies(r)' <=> (docs'[c] # None /\ docs'[c].root = r) \/ c \in GoneFrom(r)'
      /\ c \in Replies(r) <=> (docs[c] # None /\ docs[c].root = r) \/ c \in GoneFrom(r)
  BY DEF Replies, SubList, Present
<1>6. \A d \in Ids \ {c} : d \in Replies(r)' <=> d \in Replies(r)
  BY <1>4 DEF Replies, SubList, Present, SameKind
<1>7. /\ c \in Replies(r)' => Replies(r)' = Replies(r) \cup {c}
      /\ c \notin Replies(r)' => Replies(r)' = Replies(r) \ {c}
  BY <1>6, RootTypes, RootTypesNext
<1>8. /\ p \in Ahead(r) <=> pc[p] \in {"insert", "undocount"} /\ root[p] = r
      /\ p \in Ahead(r)' <=> pc'[p] \in {"insert", "undocount"} /\ root'[p] = r
  BY DEF Ahead
<1>9. /\ p \in Ahead(r)' => Ahead(r)' = Ahead(r) \cup {p}
      /\ p \notin Ahead(r)' => Ahead(r)' = Ahead(r) \ {p}
  BY <1>4, RootTypes, RootTypesNext
<1> QED BY <1>3, <1>4, <1>5, <1>7, <1>8, <1>9

\* The handler neither counts nor removes.
LEMMA QuietRoot ==
  ASSUME TypeInv, TypeOK', NEW p \in Procs,
         \A q \in Procs \ {p} :
            pc'[q] = pc[q] /\ id'[q] = id[q] /\ parent'[q] = parent[q] /\ root'[q] = root[q],
         UNCHANGED <<queue, step>>, harm' >= harm, \A c \in Ids : SameKind(c),
         pc[p] \notin {"insert", "undocount", "publishdelete"},
         pc'[p] \notin {"insert", "undocount", "publishdelete"} \/ root'[p] = None,
         pc'[p] # "publishdelete",
         NEW r \in Ids, docs[r] # None, RootCount(r), docs'[r].replyCount = docs[r].replyCount
  PROVE  RootCount(r)'
<1>1. Replies(r)' = Replies(r)
  <2>1. \A c \in Ids : c \in GoneFrom(r)' <=> c \in GoneFrom(r)
    BY HandlerSets
  <2>2. \A c \in Ids : c \in Replies(r)' <=> c \in Replies(r)
    BY <2>1 DEF Replies, SubList, Present, SameKind
  <2> QED BY <2>2, RootTypes, RootTypesNext
<1>2. Ahead(r)' = Ahead(r)
  <2>1. p \notin Ahead(r) /\ p \notin Ahead(r)'
    BY CommentsAssumption DEF Ahead
  <2>2. \A q \in Procs : q \in Ahead(r)' <=> q \in Ahead(r)
    BY <2>1, HandlerSets
  <2> QED BY <2>2, RootTypes, RootTypesNext
<1>3. Answering(r)' = Answering(r)
  BY HandlerSets
<1>4. Shown(r)' = Shown(r) /\ Total(r)' = Total(r)
  BY <1>1, <1>2, <1>3 DEF Shown, Total
<1>5. docs'[r] # None
  BY DEF SameKind
<1> QED BY <1>1, <1>3, <1>4, <1>5, RootStays, ShownTypes DEF TypeInv

\* A request ends, or fails.
LEMMA ReplyRoot ==
  ASSUME TypeInv, TypeOK', RepliesInv, NEW p \in Procs, Reply(p), ~Idle(p), docs' = docs,
         UNCHANGED <<queue, step>>,
         harm' = harm + 1 \/ (harm' = harm /\ pc[p] \notin {"insert", "undocount", "publishdelete"})
  PROVE  RepliesInv'
<1>1. pc'[p] = "idle" /\ id'[p] = None
      /\ \A q \in Procs \ {p} :
           pc'[q] = pc[q] /\ id'[q] = id[q] /\ parent'[q] = parent[q] /\ root'[q] = root[q]
  BY ReplyFacts DEF TypeInv
<1>2. HandlerOK(p) /\ id[p] \in Ids /\ harm \in Nat
  BY DEF TypeInv, TypeOK, HandlersOK, HandlerOK
<1> SUFFICES ASSUME NEW r \in RootList PROVE RootCount(r)'
  BY DEF RepliesInv, RootList, Present
<1>3. r \in Ids /\ docs[r] # None /\ docs'[r] # None /\ RootCount(r)
  BY DEF RootList, Present, RepliesInv
<1>4. CASE pc[p] \notin {"insert", "undocount", "publishdelete"}
  BY <1>1, <1>2, <1>3, <1>4, QuietRoot, SameDocsKind
<1>5. CASE pc[p] \in {"insert", "undocount", "publishdelete"}
  <2> DEFINE c == id[p]
  <2>0. c = id[p] /\ c \in Ids
    BY <1>2
  <2> HIDE DEF c
  <2>1. \A d \in Ids : SameKind(d)
    BY SameDocsKind
  <2>2. /\ c \in Replies(r)' <=> (docs[c] # None /\ docs[c].root = r)
              \/ (c \in GoneFrom(r) /\ pc[p] # "publishdelete")
        /\ c \in Replies(r) <=> (docs[c] # None /\ docs[c].root = r) \/ c \in GoneFrom(r)
        /\ c \in Replies(r)' => Replies(r)' = Replies(r) \cup {c}
        /\ c \notin Replies(r)' => Replies(r)' = Replies(r) \ {c}
        /\ p \in Ahead(r) => pc[p] \in {"insert", "undocount"}
        /\ Ahead(r)' = Ahead(r) \ {p}
        /\ Answering(r)' = Answering(r)
    <3>1. p \notin Ahead(r)'
      BY <1>1 DEF Ahead
    <3> QED BY <1>1, <1>3, <2>0, <2>1, <3>1, HandlerReplies
  <2>3. Shown(r)' = Shown(r)
    BY <2>2 DEF Shown
  <2>4. Total(r)' <= Total(r) + 1 /\ Total(r)' >= Total(r) - 1
    <3>1. CASE pc[p] = "publishdelete"
      <4>1. Ahead(r)' = Ahead(r)
        BY <2>2, <3>1
      <4>2. c \notin Replies(r)'
        BY <1>2, <2>0, <2>2, <3>1 DEF HandlerOK
      <4>3. Cardinality(Replies(r)') = Cardinality(Replies(r))
            \/ Cardinality(Replies(r)') = Cardinality(Replies(r)) - 1
        <5>1. Replies(r)' = Replies(r) \ {c}
          BY <2>2, <4>2
        <5>2. CASE c \in Replies(r)
          <6>1. Cardinality(Replies(r) \ {c}) = Cardinality(Replies(r)) - 1
            BY <2>0, <5>2, RootTypes, OneElement
          <6> QED BY <5>1, <6>1
        <5>3. CASE c \notin Replies(r)
          <6>1. Replies(r) \ {c} = Replies(r)
            BY <5>3
          <6> QED BY <5>1, <6>1
        <5> QED BY <5>2, <5>3
      <4> QED BY <4>1, <4>3, RootTypes, RootTypesNext DEF Total
    <3>2. CASE pc[p] # "publishdelete"
      <4>1. Replies(r)' = Replies(r)
        BY <2>2, <3>2
      <4>2. Cardinality(Ahead(r)') = Cardinality(Ahead(r))
            \/ Cardinality(Ahead(r)') = Cardinality(Ahead(r)) - 1
        BY <2>2, RootTypes, ProcFacts
      <4> QED BY <4>1, <4>2, RootTypes, RootTypesNext DEF Total
    <3> QED BY <3>1, <3>2
  <2>5. harm' = harm + 1
    BY <1>5
  <2> QED BY <1>3, <2>3, <2>4, <2>5, RootMoves, ShownTypes DEF TypeInv
<1> QED BY <1>4, <1>5

LEMMA IncrementReplies ==
  ASSUME TypeInv, TypeOK', RepliesInv, NEW p \in Procs, IncrementRoot(p)
  PROVE  RepliesInv'
<1>1. HandlerOK(p) /\ id[p] \in Ids /\ ~Idle(p) /\ root[p] \in Ids /\ Firm(root[p])
      /\ pc[p] = "increment" /\ GoTo(p, "insert") /\ harm' = harm /\ harm \in Nat
      /\ UNCHANGED <<queue, step>>
  BY DEF TypeInv, TypeOK, HandlersOK, HandlerOK, IncrementRoot, Idle, listenerVars
<1>2. docs[root[p]].replyCount \in Nat
  BY <1>1 DEF Firm, TypeInv, TypeOK, Doc
<1>3. /\ \A c \in Ids : SameKind(c)
      /\ \A c \in Ids : c # root[p] => docs'[c] = docs[c]
      /\ docs'[root[p]].replyCount = docs[root[p]].replyCount + 1
  BY <1>1, <1>2, AddReplyFacts DEF IncrementRoot, TypeInv, Firm
<1>4. pc'[p] = "insert" /\ id'[p] = id[p] /\ root'[p] = root[p]
      /\ \A q \in Procs \ {p} :
           pc'[q] = pc[q] /\ id'[q] = id[q] /\ parent'[q] = parent[q] /\ root'[q] = root[q]
  BY <1>1, GoToFacts DEF TypeInv
<1> SUFFICES ASSUME NEW r \in RootList' PROVE RootCount(r)'
  BY DEF RepliesInv
<1>5. r \in Ids /\ docs[r] # None /\ docs'[r] # None /\ RootCount(r)
  BY <1>3 DEF RootList, Present, RepliesInv, SameKind
<1>6. /\ id[p] \in Replies(r)' <=> (docs'[id[p]] # None /\ docs'[id[p]].root = r) \/ id[p] \in GoneFrom(r)
      /\ id[p] \in Replies(r) <=> (docs[id[p]] # None /\ docs[id[p]].root = r) \/ id[p] \in GoneFrom(r)
      /\ id[p] \in Replies(r)' => Replies(r)' = Replies(r) \cup {id[p]}
      /\ id[p] \notin Replies(r)' => Replies(r)' = Replies(r) \ {id[p]}
      /\ p \notin Ahead(r)
      /\ p \in Ahead(r)' <=> root[p] = r
      /\ p \in Ahead(r)' => Ahead(r)' = Ahead(r) \cup {p}
      /\ p \notin Ahead(r)' => Ahead(r)' = Ahead(r) \ {p}
      /\ Answering(r)' = Answering(r)
  BY <1>1, <1>3, <1>4, <1>5, HandlerReplies
<1>7. Replies(r)' = Replies(r)
  BY <1>1, <1>3, <1>6 DEF SameKind
<1>8. CASE root[p] = r
  <2>1. Cardinality(Ahead(r)') = Cardinality(Ahead(r)) + 1
    BY <1>6, <1>8, RootTypes, ProcFacts
  <2>2. Total(r)' = Total(r) + 1
    BY <1>7, <2>1, RootTypes DEF Total
  <2>3. Shown(r)' = Shown(r) + 1
    BY <1>3, <1>6, <1>8, <1>2 DEF Shown
  <2> QED BY <1>1, <1>5, <1>6, <1>7, <2>2, <2>3, RootStays, ShownTypes DEF TypeInv
<1>9. CASE root[p] # r
  <2>1. Ahead(r)' = Ahead(r)
    BY <1>6, <1>9
  <2>2. Shown(r)' = Shown(r) /\ Total(r)' = Total(r)
    BY <1>3, <1>5, <1>6, <1>7, <1>9, <2>1 DEF Shown, Total
  <2> QED BY <1>1, <1>5, <1>6, <1>7, <2>2, RootStays, ShownTypes DEF TypeInv
<1> QED BY <1>8, <1>9

LEMMA InsertReplies ==
  ASSUME TypeInv, TypeOK', RepliesInv, NEW p \in Procs, InsertComment(p)
  PROVE  RepliesInv'
<1> DEFINE c == id[p]
<1>1. HandlerOK(p) /\ c \in Ids /\ ~Idle(p) /\ root[p] \in Ids \cup {None}
      /\ pc[p] = "insert" /\ GoTo(p, "publish") /\ harm' = harm /\ harm \in Nat /\ Creating(p)
      /\ docs[c] = None /\ docs' = [docs EXCEPT ![c] = NewDoc(root[p])] /\ UNCHANGED <<queue, step>>
  BY DEF TypeInv, TypeOK, HandlersOK, HandlerOK, InsertComment, Idle, listenerVars, Creating
<1>2. /\ \A d \in Ids \ {c} : docs'[d] = docs[d] /\ SameKind(d)
      /\ docs'[c] # None /\ docs'[c].root = root[p] /\ docs'[c].replyCount = 0
  BY <1>1, NewDocFacts DEF TypeInv, TypeOK, SameKind
<1>4. pc'[p] = "publish" /\ id'[p] = id[p] /\ root'[p] = root[p]
      /\ \A q \in Procs \ {p} :
           pc'[q] = pc[q] /\ id'[q] = id[q] /\ parent'[q] = parent[q] /\ root'[q] = root[q]
  BY <1>1, GoToFacts DEF TypeInv
<1> SUFFICES ASSUME NEW r \in RootList' PROVE RootCount(r)'
  BY DEF RepliesInv
<1>5. r \in Ids /\ docs'[r] # None /\ docs'[r].root = None
  BY DEF RootList, Present
<1>6. /\ c \notin GoneFrom(r)
      /\ c \in Replies(r)' <=> root[p] = r
      /\ c \notin Replies(r)
      /\ c \in Replies(r)' => Replies(r)' = Replies(r) \cup {c}
      /\ c \notin Replies(r)' => Replies(r)' = Replies(r) \ {c}
      /\ p \in Ahead(r) <=> root[p] = r
      /\ Ahead(r)' = Ahead(r) \ {p}
      /\ Answering(r)' = Answering(r)
  BY <1>1, <1>2, <1>4, <1>5, HandlerReplies
<1>7. CASE r = c
  <2>1. ~Firm(r)
    BY <1>1, <1>7 DEF Firm
  <2>2. SubList(r) = {}
    BY <2>1, <1>5, CommentsAssumption DEF TypeInv, DocsOK, SubList, Present
  <2>3. GoneFrom(r) = {}
    <3>1. \A i \in Events : queue[i].root # r
      BY <2>1, <1>5, CommentsAssumption DEF TypeInv, QueueOK, EventOK
    <3>2. \A q \in Procs : root[q] # r
      BY <2>1, <1>5, CommentsAssumption DEF TypeInv, HandlersOK, HandlerOK
    <3> QED BY <3>1, <3>2 DEF GoneFrom
  <2>4. Ahead(r) = {}
    BY <2>1, <1>5, CommentsAssumption DEF TypeInv, HandlersOK, HandlerOK, Ahead
  <2>5. ~Answering(r)
    BY <2>1, FirstFacts DEF Answering, TypeInv, QueueOK
  <2>6. root[p] # r
    BY <2>4, <1>6
  <2>7. Replies(r)' = {} /\ Ahead(r)' = {}
    BY <1>6, <2>2, <2>3, <2>4, <2>6 DEF Replies
  <2>8. Total(r)' = 0 /\ Shown(r)' = 0
    BY <1>2, <1>6, <1>7, <2>5, <2>7, FS_EmptySet DEF Total, Shown
  <2>9. Near(Shown(r)', Total(r)', harm')
    BY <1>1, <2>8 DEF Near
  <2> QED BY <1>6, <2>5, <2>9 DEF RootCount, Near
<1>8. CASE r # c
  <2>1. docs[r] # None /\ docs'[r] = docs[r] /\ RootCount(r)
    BY <1>2, <1>5, <1>8 DEF RepliesInv, RootList, Present
  <2>2. Shown(r)' = Shown(r)
    BY <1>6, <2>1 DEF Shown
  <2>3. Total(r)' = Total(r)
    <3>1. CASE root[p] = r
      <4>1. Cardinality(Replies(r)') = Cardinality(Replies(r)) + 1
        BY <1>1, <1>6, <3>1, RootTypes, OneElement
      <4>2. Cardinality(Ahead(r)') = Cardinality(Ahead(r)) - 1
        BY <1>6, <3>1, RootTypes, ProcFacts
      <4> QED BY <4>1, <4>2, RootTypes DEF Total
    <3>2. CASE root[p] # r
      <4>1. Replies(r)' = Replies(r) /\ Ahead(r)' = Ahead(r)
        BY <1>6, <3>2
      <4> QED BY <4>1 DEF Total
    <3> QED BY <3>1, <3>2
  <2>4. \A b \in Replies(r) : b \in Replies(r)'
    BY <1>6
  <2> QED BY <1>1, <1>5, <1>6, <2>1, <2>2, <2>3, <2>4, RootStays, ShownTypes DEF TypeInv
<1> QED BY <1>7, <1>8

LEMMA UndoReplies ==
  ASSUME TypeInv, TypeOK', RepliesInv, NEW p \in Procs, UndoInsert(p)
  PROVE  RepliesInv'
<1>1. HandlerOK(p) /\ id[p] \in Ids /\ ~Idle(p) /\ root[p] \in Ids \cup {None} /\ Creating(p)
      /\ pc[p] = "undoinsert" /\ UNCHANGED <<queue, step>> /\ harm \in Nat
      /\ docs[id[p]] # None /\ docs[id[p]].root = root[p] /\ Author[id[p]] # Bot
  BY DEF TypeInv, TypeOK, HandlersOK, HandlerOK, UndoInsert, Idle, listenerVars, Creating
<1>2. /\ id'[p] \in {None, id[p]} /\ pc'[p] \in {"idle", "undocount"}
      /\ pc'[p] = "undocount" <=> root[p] # None
      /\ pc'[p] = "undocount" => root'[p] = root[p]
      /\ \A q \in Procs \ {p} :
           pc'[q] = pc[q] /\ id'[q] = id[q] /\ parent'[q] = parent[q] /\ root'[q] = root[q]
  <2>1. CASE root[p] = None
    BY <1>1, <2>1, ReplyFacts DEF UndoInsert, TypeInv
  <2>2. CASE root[p] # None
    BY <1>1, <2>2, GoToFacts DEF UndoInsert, TypeInv
  <2> QED BY <2>1, <2>2
<1>3. \/ docs' = [docs EXCEPT ![id[p]] = None] /\ harm' = harm
      \/ docs' = docs /\ harm' = harm + 1
  BY DEF UndoInsert, Fault
<1>4. /\ \A d \in Ids \ {id[p]} : docs'[d] = docs[d] /\ SameKind(d)
      /\ docs'[id[p]] = docs[id[p]] \/ docs'[id[p]] = None
      /\ docs'[id[p]] = docs[id[p]] => harm' = harm + 1
      /\ docs'[id[p]] = None => harm' = harm
  BY <1>1, <1>3 DEF TypeInv, TypeOK, SameKind
<1> SUFFICES ASSUME NEW r \in RootList' PROVE RootCount(r)'
  BY DEF RepliesInv
<1>5. r \in Ids /\ docs'[r] # None /\ docs'[r] = docs[r] /\ RootCount(r) /\ r # None
  BY <1>1, <1>4, CommentsAssumption DEF RootList, Present, RepliesInv
<1>6. /\ id[p] \notin GoneFrom(r)
      /\ id[p] \in Replies(r)' <=> docs'[id[p]] # None /\ docs'[id[p]].root = r
      /\ id[p] \in Replies(r) <=> root[p] = r
      /\ id[p] \in Replies(r)' => Replies(r)' = Replies(r) \cup {id[p]}
      /\ id[p] \notin Replies(r)' => Replies(r)' = Replies(r) \ {id[p]}
      /\ p \notin Ahead(r)
      /\ p \in Ahead(r)' <=> root[p] = r
      /\ p \in Ahead(r)' => Ahead(r)' = Ahead(r) \cup {p}
      /\ p \notin Ahead(r)' => Ahead(r)' = Ahead(r) \ {p}
      /\ Answering(r)' = Answering(r)
  <2>1. pc'[p] # "publishdelete" /\ pc'[p] # "insert"
    BY <1>2
  <2>2. p \in Ahead(r)' <=> root[p] = r
    BY <1>2, <1>5, <2>1 DEF Ahead
  <2>3. p \notin Ahead(r)
    BY <1>1 DEF Ahead
  <2>4. /\ Creating(p) => id[p] \notin GoneFrom(r)
        /\ id[p] \in Replies(r)' <=>
             \/ docs'[id[p]] # None /\ docs'[id[p]].root = r
             \/ id[p] \in GoneFrom(r) /\ pc[p] # "publishdelete"
             \/ pc'[p] = "publishdelete" /\ id'[p] = id[p] /\ root'[p] = r
        /\ id[p] \in Replies(r) <=> (docs[id[p]] # None /\ docs[id[p]].root = r) \/ id[p] \in GoneFrom(r)
        /\ id[p] \in Replies(r)' => Replies(r)' = Replies(r) \cup {id[p]}
        /\ id[p] \notin Replies(r)' => Replies(r)' = Replies(r) \ {id[p]}
        /\ p \in Ahead(r)' => Ahead(r)' = Ahead(r) \cup {p}
        /\ p \notin Ahead(r)' => Ahead(r)' = Ahead(r) \ {p}
        /\ Answering(r)' = Answering(r)
    BY <1>1, <1>2, <1>4, <1>5, HandlerReplies
  <2>5. id[p] \notin GoneFrom(r)
    BY <1>1, <2>4
  <2>6. id[p] \in Replies(r)' <=> docs'[id[p]] # None /\ docs'[id[p]].root = r
    BY <2>1, <2>4, <2>5
  <2>7. id[p] \in Replies(r) <=> root[p] = r
    BY <1>1, <2>4, <2>5
  <2> QED BY <2>2, <2>3, <2>4, <2>5, <2>6, <2>7
<1>7. Shown(r)' = Shown(r)
  BY <1>5, <1>6 DEF Shown
<1>8. CASE root[p] # r
  <2>1. Replies(r)' = Replies(r) /\ Ahead(r)' = Ahead(r)
    BY <1>1, <1>4, <1>6, <1>8
  <2>2. Total(r)' = Total(r) /\ harm' >= harm
    BY <1>1, <1>3, <2>1 DEF Total
  <2> QED BY <1>5, <1>6, <1>7, <2>1, <2>2, RootStays, ShownTypes DEF TypeInv
<1>9. CASE root[p] = r
  <2>1. Cardinality(Ahead(r)') = Cardinality(Ahead(r)) + 1
    BY <1>6, <1>9, RootTypes, ProcFacts
  <2>2. CASE docs'[id[p]] = None
    <3>1. Cardinality(Replies(r)') = Cardinality(Replies(r)) - 1
      <4>1. Replies(r)' = Replies(r) \ {id[p]} /\ id[p] \in Replies(r)
        BY <1>6, <1>9, <2>2
      <4> QED BY <1>1, <4>1, RootTypes, OneElement
    <3>2. Total(r)' = Total(r)
      BY <2>1, <3>1, RootTypes, RootTypesNext DEF Total
    <3>3. \A b \in Replies(r) : Author[b] = Bot => b \in Replies(r)'
      BY <1>1, <1>6
    <3> QED BY <1>1, <1>4, <1>5, <1>6, <1>7, <2>2, <3>2, <3>3, RootStays, ShownTypes DEF TypeInv
  <2>3. CASE docs'[id[p]] # None
    <3>1. Replies(r)' = Replies(r)
      BY <1>1, <1>4, <1>6, <1>9, <2>3
    <3>2. Total(r)' = Total(r) + 1
      BY <2>1, <3>1, RootTypes, RootTypesNext DEF Total
    <3>3. harm' = harm + 1
      BY <1>4, <2>3
    <3> QED BY <1>5, <1>7, <3>2, <3>3, RootMoves, ShownTypes DEF TypeInv
  <2> QED BY <2>2, <2>3
<1> QED BY <1>8, <1>9

LEMMA UndoCountReplies ==
  ASSUME TypeInv, TypeOK', RepliesInv, NEW p \in Procs, UndoCount(p)
  PROVE  RepliesInv'
<1>1. HandlerOK(p) /\ id[p] \in Ids /\ ~Idle(p) /\ root[p] \in Ids /\ Firm(root[p])
      /\ pc[p] = "undocount" /\ Reply(p) /\ harm \in Nat
      /\ UNCHANGED <<queue, step>>
  BY DEF TypeInv, TypeOK, HandlersOK, HandlerOK, UndoCount, Idle, listenerVars
<1>2. CASE Fault("undo") /\ UNCHANGED docs
  BY <1>1, <1>2, ReplyRoot DEF Fault
<1>3. CASE DropReply(root[p]) /\ UNCHANGED harm
  <2>1. /\ \A c \in Ids : SameKind(c)
        /\ \A c \in Ids : c # root[p] => docs'[c] = docs[c]
        /\ docs'[root[p]].replyCount =
             IF docs[root[p]].replyCount > 0 THEN docs[root[p]].replyCount - 1 ELSE 0
    BY <1>1, <1>3, DropReplyFacts DEF TypeInv, Firm
  <2>2. pc'[p] = "idle" /\ id'[p] = None
        /\ \A q \in Procs \ {p} :
             pc'[q] = pc[q] /\ id'[q] = id[q] /\ parent'[q] = parent[q] /\ root'[q] = root[q]
    BY <1>1, ReplyFacts DEF TypeInv
  <2> SUFFICES ASSUME NEW r \in RootList' PROVE RootCount(r)'
    BY DEF RepliesInv
  <2>3. r \in Ids /\ docs[r] # None /\ docs'[r] # None /\ RootCount(r)
    BY <2>1 DEF RootList, Present, RepliesInv, SameKind
  <2>4. /\ p \in Ahead(r) <=> root[p] = r
        /\ p \notin Ahead(r)'
    BY <1>1, <2>2 DEF Ahead
  <2>5. /\ id[p] \in Replies(r)' <=> (docs'[id[p]] # None /\ docs'[id[p]].root = r) \/ id[p] \in GoneFrom(r)
        /\ id[p] \in Replies(r) <=> (docs[id[p]] # None /\ docs[id[p]].root = r) \/ id[p] \in GoneFrom(r)
        /\ id[p] \in Replies(r)' => Replies(r)' = Replies(r) \cup {id[p]}
        /\ id[p] \notin Replies(r)' => Replies(r)' = Replies(r) \ {id[p]}
        /\ Ahead(r)' = Ahead(r) \ {p}
        /\ Answering(r)' = Answering(r)
    BY <1>1, <2>1, <2>2, <2>3, <2>4, HandlerReplies
  <2>6. Replies(r)' = Replies(r)
    BY <1>1, <2>1, <2>5 DEF SameKind
  <2>7. CASE root[p] # r
    <3>1. Ahead(r)' = Ahead(r)
      BY <2>4, <2>5, <2>7
    <3>2. Shown(r)' = Shown(r) /\ Total(r)' = Total(r)
      BY <2>1, <2>3, <2>5, <2>6, <2>7, <3>1 DEF Shown, Total
    <3> QED BY <1>1, <1>3, <2>3, <2>5, <2>6, <3>2, RootStays, ShownTypes DEF TypeInv
  <2>8. CASE root[p] = r
    <3>1. Cardinality(Ahead(r)') = Cardinality(Ahead(r)) - 1
      BY <2>4, <2>5, <2>8, RootTypes, ProcFacts
    <3>2. Total(r)' = Total(r) - 1
      BY <2>6, <3>1, RootTypes, RootTypesNext DEF Total
    <3>3. docs[r].replyCount \in Nat /\ docs'[r].replyCount \in Nat
      BY <2>3, ShownTypes DEF TypeInv
    <3>4. CASE docs[r].replyCount > 0
      <4>1. Shown(r)' = Shown(r) - 1
        BY <2>1, <2>5, <2>8, <3>3, <3>4 DEF Shown
      <4> QED BY <1>1, <1>3, <2>3, <2>5, <2>6, <3>2, <4>1, RootStays, ShownTypes DEF TypeInv
    <3>5. CASE docs[r].replyCount = 0
      <4>1. docs'[r].replyCount = 0 /\ Shown(r)' = Shown(r) /\ Shown(r) \in {0, 1}
            /\ (Shown(r) = 1 => Answering(r))
        BY <2>1, <2>5, <2>8, <3>3, <3>5 DEF Shown
      <4>2. Answering(r) => harm > 0 \/ Cardinality(Replies(r)) # 0
        <5>1. Answering(r) => harm > 0 \/ Replies(r) # {}
          BY <2>3 DEF RootCount
        <5> QED BY <5>1, RootTypes, CountFacts
      <4>3. Shown(r)' - Total(r)' <= harm
        <5>1. Total(r)' = Cardinality(Replies(r)) + Cardinality(Ahead(r)')
              /\ Cardinality(Ahead(r)') \in Nat /\ Cardinality(Replies(r)) \in Nat
          BY <2>6, RootTypes, RootTypesNext DEF Total
        <5> QED BY <1>1, <4>1, <4>2, <5>1
      <4>4. Near(Shown(r)', Total(r)', harm')
        <5>1. Near(Shown(r), Total(r), harm)
          BY <2>3 DEF RootCount
        <5> QED BY <1>1, <1>3, <2>3, <3>2, <4>1, <4>3, <5>1, ShownTypes DEF Near, TypeInv
      <4> QED BY <1>3, <2>3, <2>5, <2>6, <4>4 DEF RootCount, Near
    <3> QED BY <3>3, <3>4, <3>5
  <2> QED BY <2>7, <2>8
<1> QED BY <1>2, <1>3 DEF UndoCount

LEMMA RemoveReplies ==
  ASSUME TypeInv, TypeOK', RepliesInv, NEW p \in Procs, RemoveComment(p)
  PROVE  RepliesInv'
<1>1. HandlerOK(p) /\ id[p] \in Ids /\ ~Idle(p) /\ root[p] \in Ids \cup {None}
      /\ pc[p] = "remove" /\ UNCHANGED <<queue, step, harm>> /\ harm \in Nat
      /\ docs[id[p]] # None /\ docs[id[p]].root = root[p]
  BY DEF TypeInv, TypeOK, HandlersOK, HandlerOK, RemoveComment, Idle, listenerVars
<1> SUFFICES ASSUME NEW r \in RootList' PROVE RootCount(r)'
  BY DEF RepliesInv
<1>2. CASE root[p] = None
  <2>1. Reply(p) /\ docs' = [docs EXCEPT ![id[p]].deleted = TRUE]
    BY <1>1, <1>2 DEF RemoveComment
  <2>2. /\ \A c \in Ids : SameKind(c)
        /\ \A c \in Ids : docs[c] # None => docs'[c].replyCount = docs[c].replyCount
    BY <1>1, <2>1, MarkFacts DEF TypeInv
  <2>3. /\ pc'[p] = "idle"
        /\ \A q \in Procs \ {p} :
             pc'[q] = pc[q] /\ id'[q] = id[q] /\ parent'[q] = parent[q] /\ root'[q] = root[q]
    BY <2>1, ReplyFacts DEF TypeInv
  <2>4. r \in Ids /\ docs[r] # None /\ RootCount(r)
    BY <2>2 DEF RootList, Present, RepliesInv, SameKind
  <2> QED BY <1>1, <2>2, <2>3, <2>4, QuietRoot
<1>3. CASE root[p] # None
  <2>1. GoTo(p, "publishdelete") /\ docs' = [docs EXCEPT ![id[p]] = None]
    BY <1>3 DEF RemoveComment
  <2>2. /\ pc'[p] = "publishdelete" /\ id'[p] = id[p] /\ root'[p] = root[p]
        /\ \A q \in Procs \ {p} :
             pc'[q] = pc[q] /\ id'[q] = id[q] /\ parent'[q] = parent[q] /\ root'[q] = root[q]
    BY <2>1, GoToFacts DEF TypeInv
  <2>3. docs'[id[p]] = None /\ \A d \in Ids \ {id[p]} : docs'[d] = docs[d] /\ SameKind(d)
    BY <1>1, <2>1 DEF SameKind, TypeInv, TypeOK
  <2>4. r \in Ids /\ docs'[r] # None /\ docs'[r] = docs[r] /\ RootCount(r) /\ r # None
    BY <2>3, CommentsAssumption DEF RootList, Present, RepliesInv
  <2>5. p \notin Ahead(r) /\ p \notin Ahead(r)'
    BY <1>1, <2>2 DEF Ahead
  <2>6. /\ id[p] \in Replies(r)' <=> id[p] \in GoneFrom(r) \/ root[p] = r
        /\ id[p] \in Replies(r) <=> root[p] = r \/ id[p] \in GoneFrom(r)
        /\ id[p] \in Replies(r)' => Replies(r)' = Replies(r) \cup {id[p]}
        /\ id[p] \notin Replies(r)' => Replies(r)' = Replies(r) \ {id[p]}
        /\ Ahead(r)' = Ahead(r) \ {p}
        /\ Answering(r)' = Answering(r)
    BY <1>1, <2>2, <2>3, <2>4, <2>5, HandlerReplies
  <2>7. Replies(r)' = Replies(r) /\ Ahead(r)' = Ahead(r)
    BY <2>5, <2>6
  <2>8. Shown(r)' = Shown(r) /\ Total(r)' = Total(r)
    BY <2>4, <2>6, <2>7 DEF Shown, Total
  <2> QED BY <1>1, <2>4, <2>6, <2>7, <2>8, RootStays, ShownTypes DEF TypeInv
<1> QED BY <1>2, <1>3

LEMMA CreateReplies ==
  ASSUME TypeInv, TypeOK', RepliesInv, NEW p \in Procs, CreateComment(p)
  PROVE  RepliesInv'
<1>1. HandlerOK(p) /\ id[p] \in Ids /\ ~Idle(p) /\ harm \in Nat
  BY DEF CreateComment, FindParent, ParentGone, IncrementRoot, InsertComment, PublishCreate, UndoInsert,
         UndoCount, TypeInv, TypeOK, HandlersOK, HandlerOK, Idle
<1>2. CASE FindParent(p)
  <2>1. /\ pc[p] = "parent" /\ pc'[p] = "increment" /\ docs' = docs /\ UNCHANGED <<queue, step, harm>>
        /\ \A q \in Procs \ {p} :
             pc'[q] = pc[q] /\ id'[q] = id[q] /\ parent'[q] = parent[q] /\ root'[q] = root[q]
    BY <1>2 DEF FindParent, TypeInv, TypeOK, storeVars, listenerVars
  <2> SUFFICES ASSUME NEW r \in RootList' PROVE RootCount(r)'
    BY DEF RepliesInv
  <2>2. r \in Ids /\ docs[r] # None /\ RootCount(r)
    BY <2>1 DEF RootList, Present, RepliesInv
  <2> QED BY <1>1, <2>1, <2>2, SameDocsKind, QuietRoot
<1>3. CASE ParentGone(p)
  BY <1>1, <1>3, ReplyRoot DEF ParentGone, storeVars, listenerVars
<1>4. CASE PublishCreate(p)
  <2>1. docs' = docs /\ harm' = harm /\ pc[p] = "publish" /\ step' = step
    BY <1>4 DEF PublishCreate, storeVars
  <2> SUFFICES ASSUME NEW r \in RootList' PROVE RootCount(r)'
    BY DEF RepliesInv
  <2>2. r \in Ids /\ docs[r] # None /\ RootCount(r)
    BY <2>1 DEF RootList, Present, RepliesInv
  <2>3. CASE queue' = Append(queue, CreatedBy(p)) /\ Reply(p)
    <3> DEFINE e == CreatedBy(p)
    <3>1. e \in CommentEvent /\ e.id = id[p] /\ e.root = root[p] /\ e.type = "CREATE"
      BY <1>1 DEF CreatedBy, CommentEvent, Users, TypeInv, TypeOK
    <3> HIDE DEF e
    <3>2. queue' = Append(queue, e)
      BY <2>3 DEF e
    <3>3. GoneFrom(r)' = GoneFrom(r) /\ Ahead(r)' = Ahead(r) /\ Answering(r)' = Answering(r)
      BY <1>1, <2>1, <2>2, <2>3, <3>1, <3>2, PublishSets
    <3>4. Replies(r)' = Replies(r)
      BY <2>1, <3>3 DEF Replies, SubList, Present
    <3>5. Shown(r)' = Shown(r) /\ Total(r)' = Total(r)
      BY <2>1, <3>3, <3>4 DEF Shown, Total
    <3> QED BY <1>1, <2>1, <2>2, <3>3, <3>4, <3>5, RootStays, ShownTypes DEF TypeInv
  <2>4. CASE GoTo(p, "undoinsert") /\ UNCHANGED queue
    <3>1. /\ pc'[p] = "undoinsert"
          /\ \A q \in Procs \ {p} :
               pc'[q] = pc[q] /\ id'[q] = id[q] /\ parent'[q] = parent[q] /\ root'[q] = root[q]
      BY <2>4, GoToFacts DEF TypeInv
    <3> QED BY <1>1, <2>1, <2>2, <2>4, <3>1, SameDocsKind, QuietRoot
  <2> QED BY <1>4, <2>3, <2>4 DEF PublishCreate
<1> QED
  BY <1>2, <1>3, <1>4, IncrementReplies, InsertReplies, UndoReplies, UndoCountReplies DEF CreateComment

LEMMA DeleteReplies ==
  ASSUME TypeInv, TypeOK', RepliesInv, NEW p \in Procs, DeleteComment(p)
  PROVE  RepliesInv'
<1>1. HandlerOK(p) /\ id[p] \in Ids /\ ~Idle(p) /\ harm \in Nat
  BY DEF DeleteComment, FindComment, RemoveComment, PublishDelete, TypeInv, TypeOK, HandlersOK,
         HandlerOK, Idle
<1>2. CASE FindComment(p)
  <2>1. /\ pc[p] = "find" /\ docs' = docs /\ UNCHANGED <<queue, step, harm>>
    BY <1>2 DEF FindComment, storeVars, listenerVars
  <2>2. CASE Reply(p)
    BY <1>1, <2>1, <2>2, ReplyRoot
  <2>3. CASE ~Reply(p)
    <3>1. /\ pc'[p] = "remove"
          /\ \A q \in Procs \ {p} :
               pc'[q] = pc[q] /\ id'[q] = id[q] /\ parent'[q] = parent[q] /\ root'[q] = root[q]
      BY <1>2, <2>3 DEF FindComment, TypeInv, TypeOK
    <3> SUFFICES ASSUME NEW r \in RootList' PROVE RootCount(r)'
      BY DEF RepliesInv
    <3>2. r \in Ids /\ docs[r] # None /\ RootCount(r)
      BY <2>1 DEF RootList, Present, RepliesInv
    <3> QED BY <1>1, <2>1, <3>1, <3>2, SameDocsKind, QuietRoot
  <2> QED BY <2>2, <2>3
<1>3. CASE PublishDelete(p)
  <2>1. docs' = docs /\ pc[p] = "publishdelete" /\ step' = step /\ Reply(p)
    BY <1>3 DEF PublishDelete, storeVars
  <2>2. CASE queue' = Append(queue, DeletedBy(p)) /\ UNCHANGED harm
    <3> SUFFICES ASSUME NEW r \in RootList' PROVE RootCount(r)'
      BY DEF RepliesInv
    <3> DEFINE e == DeletedBy(p)
    <3>1. e \in CommentEvent /\ e.id = id[p] /\ e.root = root[p] /\ e.type = "DELETE"
      BY <1>1 DEF DeletedBy, CommentEvent, TypeInv, TypeOK
    <3> HIDE DEF e
    <3>2. queue' = Append(queue, e)
      BY <2>2 DEF e
    <3>3. r \in Ids /\ docs[r] # None /\ RootCount(r)
      BY <2>1 DEF RootList, Present, RepliesInv
    <3>4. GoneFrom(r)' = GoneFrom(r) /\ Ahead(r)' = Ahead(r) /\ Answering(r)' = Answering(r)
      BY <1>1, <2>1, <3>1, <3>2, <3>3, PublishSets
    <3>5. Replies(r)' = Replies(r)
      BY <2>1, <3>4 DEF Replies, SubList, Present
    <3>6. Shown(r)' = Shown(r) /\ Total(r)' = Total(r)
      BY <2>1, <3>4, <3>5 DEF Shown, Total
    <3> QED BY <1>1, <2>1, <2>2, <3>3, <3>4, <3>5, <3>6, RootStays, ShownTypes DEF TypeInv
  <2>3. CASE Fault("undeleted") /\ UNCHANGED queue
    BY <1>1, <2>1, <2>3, ReplyRoot DEF Fault
  <2> QED BY <1>3, <2>2, <2>3 DEF PublishDelete
<1> QED BY <1>2, <1>3, RemoveReplies DEF DeleteComment

\* The listener's steps that leave the documents alone.
LEMMA ListenerWaits ==
  ASSUME TypeInv, TypeOK', RepliesInv, UNCHANGED handlerVars, docs' = docs, queue # <<>>,
         \/ queue' = queue /\ (step' \in {"countanswer", "countreply"} => step \in {"countanswer", "countreply"})
         \/ Acknowledge /\ step # "start" /\ First.type = "CREATE",
         \/ harm' = harm + 1
         \/ harm' = harm /\ (step' \in {"countanswer", "countreply"} <=> step \in {"countanswer", "countreply"})
  PROVE  RepliesInv'
<1> SUFFICES ASSUME NEW r \in RootList' PROVE RootCount(r)'
  BY DEF RepliesInv
<1>1. r \in Ids /\ docs[r] # None /\ docs'[r] # None /\ RootCount(r)
  BY DEF RootList, Present, RepliesInv
<1>2. GoneFrom(r)' = GoneFrom(r) /\ Ahead(r)' = Ahead(r)
  <2>1. CASE queue' = queue
    BY <1>1, <2>1, ListenerSets
  <2>2. CASE Acknowledge /\ step # "start" /\ First.type = "CREATE"
    <3>1. \A c \in Ids : c \in GoneFrom(r)' <=> c \in GoneFrom(r)
      BY <1>1, <2>2, AcknowledgeSets
    <3>2. Ahead(r)' = Ahead(r)
      BY <1>1, <2>2, AcknowledgeSets
    <3> QED BY <3>1, <3>2 DEF GoneFrom
  <2> QED BY <2>1, <2>2
<1>3. Replies(r)' = Replies(r)
  BY <1>2 DEF Replies, SubList, Present
<1>4. Total(r)' = Total(r)
  BY <1>2, <1>3 DEF Total
<1>5. /\ Answering(r)' => Answering(r)
      /\ harm' = harm => (Answering(r) => Answering(r)')
  <2>1. CASE queue' = queue
    <3>1. First' = First
      BY <2>1 DEF First
    <3>2. harm # harm + 1
      BY DEF TypeInv, TypeOK
    <3> QED BY <2>1, <3>1, <3>2 DEF Answering, AnswerRoot, Acknowledge
  <2>2. CASE Acknowledge /\ step # "start"
    <3>1. ~Answering(r)' /\ step' = "start"
      BY <1>1, <2>2, AcknowledgeSets DEF Acknowledge
    <3>2. harm # harm + 1
      BY DEF TypeInv, TypeOK
    <3> QED BY <3>1, <3>2 DEF Answering
  <2> QED BY <2>1, <2>2
<1>6. CASE harm' = harm
  <2>1. Shown(r)' = Shown(r)
    BY <1>5, <1>6 DEF Shown
  <2>2. harm' >= harm
    BY <1>6 DEF TypeInv, TypeOK
  <2> QED BY <1>1, <1>3, <1>4, <1>5, <2>1, <2>2, RootStays, ShownTypes DEF TypeInv
<1>7. CASE harm' = harm + 1
  <2>1. Shown(r)' = Shown(r) \/ Shown(r)' = Shown(r) - 1
    <3>1. docs[r].replyCount \in Nat /\ docs'[r].replyCount = docs[r].replyCount
      BY <1>1, ShownTypes DEF TypeInv
    <3> QED BY <1>5, <3>1 DEF Shown
  <2> QED BY <1>1, <1>4, <1>7, <2>1, RootMoves, ShownTypes DEF TypeInv
<1> QED BY <1>6, <1>7

LEMMA SaveReplies ==
  ASSUME TypeInv, TypeOK', RepliesInv, SaveAnswer
  PROVE  RepliesInv'
<1>1. PICK b \in Ids \ drawn : Author[b] = Bot /\ docs' = [docs EXCEPT ![b] = NewDoc(AnswerRoot(First))]
  BY DEF SaveAnswer
<1>2. /\ queue # <<>> /\ First.type = "CREATE" /\ step = "answer" /\ step' = "countanswer"
      /\ UNCHANGED <<queue, handlerVars, harm>> /\ harm \in Nat
  BY DEF SaveAnswer, At, TypeInv, TypeOK
<1>3. AnswerRoot(First) \in Ids /\ NewDoc(AnswerRoot(First)) # None
      /\ NewDoc(AnswerRoot(First)).root = AnswerRoot(First) /\ AnswerRoot(First) # None
  BY <1>2, FirstFacts, NewDocFacts, CommentsAssumption
<1>4. /\ docs'[b] # None /\ docs'[b].root = AnswerRoot(First) /\ docs[b] = None
      /\ \A d \in Ids \ {b} : docs'[d] = docs[d]
  BY <1>1, <1>3 DEF TypeInv, TypeOK, DocsOK, Present
<1> SUFFICES ASSUME NEW r \in RootList' PROVE RootCount(r)'
  BY DEF RepliesInv
<1>5. r \in Ids /\ docs[r] # None /\ docs'[r] = docs[r] /\ RootCount(r)
  BY <1>3, <1>4 DEF RootList, Present, RepliesInv
<1>6. GoneFrom(r)' = GoneFrom(r) /\ Ahead(r)' = Ahead(r) /\ First' = First
  BY <1>2, <1>5, ListenerSets
<1>7. ~Answering(r) /\ (Answering(r)' <=> AnswerRoot(First) = r)
  BY <1>2, <1>6 DEF Answering, AnswerRoot
<1>8. b \notin Replies(r)
  <2>1. \A p \in Procs : pc[p] = "publishdelete" => id[p] # b
    BY DEF TypeInv, HandlersOK, HandlerOK, Idle
  <2>2. \A i \in Events : queue[i].id # b
    BY DEF TypeInv, QueueOK, EventOK
  <2> QED BY <1>4, <2>1, <2>2 DEF Replies, SubList, Present, GoneFrom
<1>9. CASE AnswerRoot(First) = r
  <2>1. Replies(r)' = Replies(r) \cup {b}
    BY <1>4, <1>6, <1>9 DEF Replies, SubList, Present
  <2>2. Cardinality(Replies(r)') = Cardinality(Replies(r)) + 1
    BY <1>8, <2>1, RootTypes, OneElement
  <2>3. Total(r)' = Total(r) + 1
    BY <1>6, <2>2, RootTypes DEF Total
  <2>4. Shown(r)' = Shown(r) + 1
    <3>1. docs[r].replyCount \in Nat
      BY <1>5, ShownTypes DEF TypeInv
    <3> QED BY <1>5, <1>7, <1>9, <3>1 DEF Shown
  <2>5. Near(Shown(r)', Total(r)', harm')
    <3>1. Near(Shown(r), Total(r), harm)
      BY <1>5 DEF RootCount
    <3> QED BY <1>2, <1>5, <2>3, <2>4, <3>1, ShownTypes DEF Near, TypeInv
  <2>6. \E x \in Replies(r)' : Author[x] = Bot
    BY <1>1, <2>1
  <2> QED BY <2>5, <2>6 DEF RootCount, Near
<1>10. CASE AnswerRoot(First) # r
  <2>1. Replies(r)' = Replies(r)
    BY <1>4, <1>6, <1>8, <1>10 DEF Replies, SubList, Present
  <2>2. Shown(r)' = Shown(r) /\ Total(r)' = Total(r)
    BY <1>5, <1>6, <1>7, <1>10, <2>1 DEF Shown, Total
  <2> QED BY <1>2, <1>5, <1>7, <1>10, <2>1, <2>2, RootStays, ShownTypes DEF TypeInv
<1> QED BY <1>9, <1>10

LEMMA CountAnswerReplies ==
  ASSUME TypeInv, TypeOK', RepliesInv, CountAnswerReply
  PROVE  RepliesInv'
<1>1. /\ queue # <<>> /\ First.type = "CREATE" /\ step = "countreply" /\ Acknowledge
      /\ UNCHANGED <<handlerVars, harm>> /\ harm \in Nat /\ AddReply(AnswerRoot(First), 1)
  BY DEF CountAnswerReply, At, TypeInv, TypeOK
<1>2. AnswerRoot(First) \in Ids /\ docs[AnswerRoot(First)] # None
  BY <1>1, FirstFacts DEF Firm
<1>3. docs[AnswerRoot(First)].replyCount + 1 \in Nat
  BY <1>2 DEF TypeInv, TypeOK, Doc
<1>4. /\ \A c \in Ids : SameKind(c)
      /\ \A c \in Ids : c # AnswerRoot(First) => docs'[c] = docs[c]
      /\ docs'[AnswerRoot(First)].replyCount = docs[AnswerRoot(First)].replyCount + 1
  BY <1>1, <1>2, <1>3, AddReplyFacts DEF TypeInv
<1> SUFFICES ASSUME NEW r \in RootList' PROVE RootCount(r)'
  BY DEF RepliesInv
<1>5. r \in Ids /\ docs[r] # None /\ docs'[r] # None /\ RootCount(r)
  BY <1>4 DEF RootList, Present, RepliesInv, SameKind
<1>6. GoneFrom(r)' = GoneFrom(r) /\ Ahead(r)' = Ahead(r) /\ ~Answering(r)'
  <2>1. /\ \A c \in Ids : c \in GoneFrom(r)' <=> c \in GoneFrom(r)
        /\ Ahead(r)' = Ahead(r) /\ ~Answering(r)'
    BY <1>1, <1>5, AcknowledgeSets
  <2> QED BY <2>1 DEF GoneFrom
<1>7. Replies(r)' = Replies(r)
  BY <1>4, <1>6 DEF Replies, SubList, Present, SameKind
<1>8. Total(r)' = Total(r)
  BY <1>6, <1>7 DEF Total
<1>9. Answering(r) <=> AnswerRoot(First) = r
  BY <1>1 DEF Answering
<1>10. Shown(r)' = Shown(r)
  <2>1. docs[r].replyCount \in Nat
    BY <1>5, ShownTypes DEF TypeInv
  <2> QED BY <1>4, <1>5, <1>6, <1>9, <2>1 DEF Shown
<1> QED BY <1>1, <1>5, <1>6, <1>8, <1>10, RootStays, ShownTypes DEF TypeInv

LEMMA UncountReplies ==
  ASSUME TypeInv, TypeOK', RepliesInv, UncountReply
  PROVE  RepliesInv'
<1>1. /\ queue # <<>> /\ First.type = "DELETE" /\ step = "uncount" /\ Acknowledge
      /\ UNCHANGED <<handlerVars, harm>> /\ harm \in Nat /\ DropReply(First.root)
  BY DEF UncountReply, At, TypeInv, TypeOK
<1>2. First.root \in Ids /\ docs[First.root] # None /\ First.id \in Ids /\ docs[First.id] = None
  BY <1>1, FirstFacts DEF Firm, EventOK
<1>3. docs[First.root].replyCount \in Nat
  BY <1>2 DEF TypeInv, TypeOK, Doc
<1>4. /\ \A c \in Ids : SameKind(c)
      /\ \A c \in Ids : c # First.root => docs'[c] = docs[c]
      /\ docs'[First.root].replyCount =
             IF docs[First.root].replyCount > 0 THEN docs[First.root].replyCount - 1 ELSE 0
  <2>1. ASSUME NEW x \in Ids, DropReply(x), docs[x] # None
        PROVE  /\ \A c \in Ids : SameKind(c)
               /\ \A c \in Ids : c # x => docs'[c] = docs[c]
               /\ docs'[x].replyCount = IF docs[x].replyCount > 0 THEN docs[x].replyCount - 1 ELSE 0
    BY <2>1, DropReplyFacts DEF TypeInv
  <2> QED BY <1>1, <1>2, <2>1
<1> SUFFICES ASSUME NEW r \in RootList' PROVE RootCount(r)'
  BY DEF RepliesInv
<1>5. r \in Ids /\ docs[r] # None /\ docs'[r] # None /\ RootCount(r)
  BY <1>4 DEF RootList, Present, RepliesInv, SameKind
<1>6. /\ \A c \in Ids : c \in GoneFrom(r)' <=> c \in GoneFrom(r) /\ ~(First.root = r /\ First.id = c)
      /\ Ahead(r)' = Ahead(r) /\ ~Answering(r)' /\ ~Answering(r)
  BY <1>1, <1>5, AcknowledgeSets DEF Answering
<1>7. CASE First.root # r
  <2>1. GoneFrom(r)' = GoneFrom(r)
    BY <1>6, <1>7 DEF GoneFrom
  <2>2. Replies(r)' = Replies(r)
    BY <1>4, <2>1 DEF Replies, SubList, Present, SameKind
  <2>3. Shown(r)' = Shown(r) /\ Total(r)' = Total(r)
    BY <1>4, <1>5, <1>6, <1>7, <2>2 DEF Shown, Total
  <2> QED BY <1>1, <1>5, <1>6, <2>3, RootStays, ShownTypes DEF TypeInv
<1>8. CASE First.root = r
  <2>1. First.id \in Replies(r)
    <3>1. 1 \in Events /\ First = queue[1]
      BY <1>1, FirstFacts
    <3> QED BY <1>1, <1>2, <1>8, <3>1 DEF Replies, GoneFrom
  <2>2. Replies(r)' = Replies(r) \ {First.id}
    <3>1. \A c \in Ids : c \in Replies(r)' <=> c \in Replies(r) /\ c # First.id
      BY <1>2, <1>4, <1>6, <1>8 DEF Replies, SubList, Present, SameKind
    <3> QED BY <3>1, RootTypes, RootTypesNext
  <2>3. Cardinality(Replies(r)') = Cardinality(Replies(r)) - 1
    BY <1>2, <2>1, <2>2, RootTypes, OneElement
  <2>4. Total(r)' = Total(r) - 1
    BY <1>6, <2>3, RootTypes, RootTypesNext DEF Total
  <2>5. docs[r].replyCount \in Nat /\ Shown(r) = docs[r].replyCount /\ Shown(r)' = docs'[r].replyCount
    BY <1>3, <1>6, <1>8, <1>5, ShownTypes DEF Shown, TypeInv
  <2>6. Near(Shown(r)', Total(r)', harm')
    <3>1. Near(Shown(r), Total(r), harm)
      BY <1>5 DEF RootCount
    <3>2. CASE docs[r].replyCount > 0
      <4>1. Shown(r)' = Shown(r) - 1
        BY <1>4, <1>8, <2>5, <3>2
      <4> QED BY <1>1, <1>5, <2>4, <3>1, <4>1, ShownTypes DEF Near, TypeInv
    <3>3. CASE docs[r].replyCount = 0
      <4>1. Shown(r)' = 0 /\ Shown(r) = 0
        BY <1>4, <1>8, <2>5, <3>3
      <4> QED BY <1>1, <1>5, <2>4, <3>1, <4>1, ShownTypes DEF Near, TypeInv
    <3> QED BY <2>5, <3>2, <3>3
  <2> QED BY <1>6, <2>6 DEF RootCount, Near
<1> QED BY <1>7, <1>8
-----------------------------------------------------------------------------
(* What the theorems follow from. *)

Inv == TypeInv /\ CountInv /\ RepliesInv

\* A request begins.
LEMMA BeginInv ==
  ASSUME TypeInv, TypeInv', CountInv, RepliesInv, NEW p \in Procs, Idle(p),
         \A q \in Procs \ {p} :
            pc'[q] = pc[q] /\ id'[q] = id[q] /\ parent'[q] = parent[q] /\ root'[q] = root[q],
         pc'[p] \in {"insert", "parent", "find"}, root'[p] = None,
         UNCHANGED <<docs, queue, step, commentCount, harm>>
  PROVE  CountInv' /\ RepliesInv'
<1>1. pc[p] = "idle" /\ harm' >= harm
  BY DEF Idle, TypeInv, TypeOK
<1>2. CountInv'
  BY <1>1, SameDocsKind, QuietCount DEF Publishing, TypeInv
<1>3. ASSUME NEW r \in RootList' PROVE RootCount(r)'
  <2>1. r \in Ids /\ docs[r] # None /\ RootCount(r)
    BY DEF RootList, Present, RepliesInv
  <2> QED BY <1>1, <2>1, SameDocsKind, QuietRoot DEF TypeInv
<1> QED BY <1>2, <1>3 DEF RepliesInv

LEMMA ListenerReplies ==
  ASSUME TypeInv, TypeOK', RepliesInv, HandleCommentEvent \/ AnswerFails \/ Redeliver
  PROVE  RepliesInv'
<1>1. CASE CountComment \/ CountAnswer \/ UncountComment
  <2>1. /\ queue # <<>> /\ queue' = queue /\ docs' = docs /\ harm' = harm /\ UNCHANGED handlerVars
        /\ step' \in {"countanswer", "countreply"} <=> step \in {"countanswer", "countreply"}
    BY <1>1 DEF CountComment, CountAnswer, UncountComment, At
  <2> QED BY <2>1, ListenerWaits
<1>2. CASE SendCommentNotification \/ NoAnswer
  <2>1. /\ queue # <<>> /\ docs' = docs /\ harm' = harm /\ UNCHANGED handlerVars
        /\ step \in {"notify", "answer"} /\ First.type = "CREATE"
        /\ (queue' = queue /\ step' = "answer") \/ (Acknowledge /\ step' = "start")
    BY <1>2 DEF SendCommentNotification, NoAnswer, At, storeVars, Acknowledge
  <2> QED BY <2>1, ListenerWaits
<1>3. CASE AnswerFails
  <2>1. /\ queue # <<>> /\ docs' = docs /\ harm' = harm + 1 /\ UNCHANGED handlerVars
        /\ step # "start" /\ First.type = "CREATE" /\ Acknowledge
    BY <1>3 DEF AnswerFails, storeVars, Fault, TypeInv, QueueOK
  <2> QED BY <2>1, ListenerWaits
<1>4. CASE Redeliver
  <2>1. /\ queue # <<>> /\ queue' = queue /\ docs' = docs /\ harm' = harm + 1 /\ UNCHANGED handlerVars
        /\ step' = "start"
    BY <1>4 DEF Redeliver, storeVars, Fault, TypeInv, QueueOK
  <2> QED BY <2>1, ListenerWaits
<1> QED
  BY <1>1, <1>2, <1>3, <1>4, SaveReplies, CountAnswerReplies, UncountReplies DEF HandleCommentEvent

LEMMA InitReplies == Init => RepliesInv
BY DEF Init, RepliesInv, RootList, Present

LEMMA Stutters ==
  ASSUME CountInv, RepliesInv, UNCHANGED vars
  PROVE  CountInv' /\ RepliesInv'
<1>1. /\ docs' = docs /\ commentCount' = commentCount /\ queue' = queue /\ step' = step
      /\ pc' = pc /\ id' = id /\ root' = root /\ harm' = harm
  BY DEF vars, storeVars, listenerVars, handlerVars
<1>2. Uncounted' = Uncounted /\ Known' = Known /\ Answered' = Answered
  BY <1>1 DEF Uncounted, Known, Present, Gone, Events, Answered
<1>3. CountInv'
  BY <1>1, <1>2 DEF CountInv, Near
<1>4. RootList' = RootList
  BY <1>1 DEF RootList, Present
<1>5. ASSUME NEW r \in RootList' PROVE RootCount(r)'
  <2>1. Replies(r)' = Replies(r) /\ Ahead(r)' = Ahead(r) /\ (Answering(r)' <=> Answering(r))
    BY <1>1 DEF Replies, SubList, Present, GoneFrom, Events, Ahead, Answering, AnswerRoot, First
  <2>2. Shown(r)' = Shown(r) /\ Total(r)' = Total(r)
    BY <1>1, <2>1 DEF Shown, Total
  <2> QED BY <1>1, <1>4, <2>1, <2>2 DEF RepliesInv, RootCount, Near
<1> QED BY <1>3, <1>5 DEF RepliesInv

LEMMA Invariance ==
  ASSUME Overlap = FALSE
  PROVE  Spec => []Inv
<1>1. Init => Inv
  BY InitTypeInv, InitCount, InitReplies DEF Inv
<1>2. Inv /\ TypeInv' /\ [Next]_vars => Inv'
  <2> SUFFICES ASSUME TypeInv, CountInv, RepliesInv, TypeInv', [Next]_vars PROVE CountInv' /\ RepliesInv'
    BY DEF Inv
  <2>0. TypeOK'
    BY DEF TypeInv
  <2>1. ASSUME NEW p \in Procs, NEW c \in Ids, NEW t \in Ids \cup {None}, BeginCreate(p, c, t)
        PROVE  CountInv' /\ RepliesInv'
    <3>1. /\ Idle(p) /\ root[p] = None
          /\ \A q \in Procs \ {p} :
               pc'[q] = pc[q] /\ id'[q] = id[q] /\ parent'[q] = parent[q] /\ root'[q] = root[q]
          /\ pc'[p] \in {"insert", "parent"} /\ root' = root /\ root'[p] = None
          /\ UNCHANGED <<docs, queue, step, commentCount, harm>>
      BY <2>1 DEF BeginCreate, TypeInv, TypeOK, HandlersOK, HandlerOK, listenerVars
    <3> QED BY <3>1, BeginInv
  <2>2. ASSUME NEW p \in Procs, NEW c \in Ids, BeginDelete(p, c) PROVE CountInv' /\ RepliesInv'
    <3>1. /\ Idle(p) /\ root[p] = None
          /\ \A q \in Procs \ {p} :
               pc'[q] = pc[q] /\ id'[q] = id[q] /\ parent'[q] = parent[q] /\ root'[q] = root[q]
          /\ pc'[p] = "find" /\ root' = root /\ root'[p] = None
          /\ UNCHANGED <<docs, queue, step, commentCount, harm>>
      BY <2>2 DEF BeginDelete, TypeInv, TypeOK, HandlersOK, HandlerOK, listenerVars, storeVars
    <3> QED BY <3>1, BeginInv
  <2>3. ASSUME NEW p \in Procs, CreateComment(p) PROVE CountInv' /\ RepliesInv'
    BY <2>0, <2>3, CreateCount, CreateReplies
  <2>4. ASSUME NEW p \in Procs, DeleteComment(p) PROVE CountInv' /\ RepliesInv'
    BY <2>0, <2>4, DeleteCount, DeleteReplies
  <2>5. ASSUME NEW p \in Procs, RequestFails(p) \/ HandlerDies(p) PROVE CountInv' /\ RepliesInv'
    <3>1. /\ ~Idle(p) /\ Reply(p) /\ harm' = harm + 1 /\ docs' = docs
          /\ UNCHANGED <<queue, step, commentCount>>
      BY <2>5 DEF RequestFails, HandlerDies, Fault, Idle, storeVars, listenerVars
    <3> QED BY <2>0, <3>1, ReplyCount, ReplyRoot
  <2>6. CASE HandleCommentEvent \/ AnswerFails \/ Redeliver
    BY <2>0, <2>6, ListenerCount, ListenerReplies
  <2>7. CASE UNCHANGED vars
    BY <2>7, Stutters
  <2> QED BY <2>1, <2>2, <2>3, <2>4, <2>5, <2>6, <2>7 DEF Next
<1>3. Spec => []TypeInv
  BY TypeInvHolds
<1> QED BY <1>1, <1>2, <1>3, PTL DEF Spec

\* When nothing is in flight nothing is on its way.
LEMMA SettledSets ==
  ASSUME TypeInv, Settled
  PROVE  /\ Uncounted = {} /\ Gone = {} /\ Answered = 0
         /\ \A r : GoneFrom(r) = {} /\ Ahead(r) = {} /\ ~Answering(r)
<1>1. \A i : i \notin Events
  BY DEF Settled, Events
<1>2. \A p \in Procs : pc[p] = "idle"
  BY DEF Settled, Idle
<1>3. step = "start"
  BY DEF Settled, TypeInv, QueueOK
<1> QED BY <1>1, <1>2, <1>3 DEF Uncounted, Gone, Answered, GoneFrom, Ahead, Answering

\* However requests, the listener's steps and faults interleave, commentCount is off
\* by one per fault at most once everything came to rest, as long as no two requests
\* work on one comment.
THEOREM CountFollows ==
  ASSUME Overlap = FALSE
  PROVE  Spec => []CountFollowsComments
<1>1. Inv => CountFollowsComments
  <2> SUFFICES ASSUME Inv, Settled PROVE Near(commentCount, Cardinality(Present), harm)
    BY DEF CountFollowsComments
  <2>1. Cardinality(Uncounted) = 0 /\ Answered = 0 /\ Known = Present
    BY SettledSets, FS_EmptySet DEF Inv, Known
  <2>2. commentCount \in Nat
    BY DEF Inv, TypeInv, TypeOK
  <2>3. commentCount + Answered + Cardinality(Uncounted) = commentCount
    BY <2>1, <2>2
  <2> QED BY <2>1, <2>3 DEF Inv, CountInv
<1> QED BY <1>1, Invariance, PTL

\* The same for the count of replies at each root, also when the rollback, the AI's
\* answer and the deletion of a reply meet there.
THEOREM RepliesFollow ==
  ASSUME Overlap = FALSE
  PROVE  Spec => []RepliesCounted
<1>1. Inv => RepliesCounted
  <2> SUFFICES ASSUME Inv, Settled, NEW r \in RootList
               PROVE Near(docs[r].replyCount, Cardinality(SubList(r)), harm)
    BY DEF RepliesCounted, RootList
  <2>1. Near(Shown(r), Total(r), harm)
    BY DEF Inv, RepliesInv, RootCount
  <2>2. Replies(r) = SubList(r) /\ Cardinality(Ahead(r)) = 0 /\ ~Answering(r)
    BY SettledSets, FS_EmptySet DEF Inv, Replies
  <2>3. docs[r].replyCount \in Nat
    BY DEF RootList, Present, Inv, TypeInv, TypeOK, Doc
  <2>4. Shown(r) = docs[r].replyCount /\ Total(r) = Cardinality(SubList(r))
    BY <2>2, <2>3, RootTypes DEF Shown, Total
  <2> QED BY <2>1, <2>4
<1> QED BY <1>1, Invariance, PTL

\* Roots stay as long as they have replies, so no reply is ever without its list;
\* and a root never hides the replies it has.
THEOREM CommentsListed ==
  ASSUME Overlap = FALSE
  PROVE  Spec => []EveryCommentListed
<1>1. Inv => EveryCommentListed
  <2> SUFFICES ASSUME Inv PROVE EveryCommentListed
    OBVIOUS
  <2>1. ASSUME NEW c \in Present
        PROVE  Cardinality({r \in RootList : c \in SubList(r)}) = IF c \in RootList THEN 0 ELSE 1
    <3>1. c \in Ids /\ docs[c] # None
      BY DEF Present
    <3>2. CASE c \in RootList
      <4>1. {r \in RootList : c \in SubList(r)} = {}
        BY <3>2, CommentsAssumption DEF RootList, SubList, Present
      <4> QED BY <3>2, <4>1, FS_EmptySet
    <3>3. CASE c \notin RootList
      <4>1. docs[c].root # None /\ docs[c].root \in Ids /\ Firm(docs[c].root)
        BY <3>1, <3>3 DEF RootList, Inv, TypeInv, TypeOK, Doc, DocsOK
      <4>2. {r \in RootList : c \in SubList(r)} = {docs[c].root}
        BY <4>1 DEF RootList, SubList, Present, Firm
      <4> QED BY <3>3, <4>2, FS_Singleton
    <3> QED BY <3>2, <3>3
  <2>2. ASSUME Settled, harm = 0, NEW r \in RootList, NEW s \in Previews(r)
        PROVE  s = {} <=> SubList(r) = {}
    <3>1. docs[r].replyCount \in Nat /\ r \in Ids
      BY DEF RootList, Present, Inv, TypeInv, TypeOK, Doc
    <3>2. Replies(r) = SubList(r) /\ Cardinality(Ahead(r)) = 0 /\ ~Answering(r)
      BY <2>2, SettledSets, FS_EmptySet DEF Inv, Replies
    <3>3. SubList(r) \in SUBSET Ids
      BY DEF SubList, Present
    <3>4. IsFiniteSet(SubList(r)) /\ Cardinality(SubList(r)) \in Nat
          /\ (Cardinality(SubList(r)) = 0 <=> SubList(r) = {})
      BY <3>3, CountFacts
    <3>5. docs[r].replyCount = Cardinality(SubList(r))
      <4>1. Near(Shown(r), Total(r), 0)
        BY <2>2 DEF Inv, RepliesInv, RootCount
      <4>2. Shown(r) = docs[r].replyCount /\ Total(r) = Cardinality(SubList(r))
        BY <3>1, <3>2, <3>4 DEF Shown, Total
      <4> QED BY <3>1, <3>4, <4>1, <4>2 DEF Near
    <3>6. CASE docs[r].replyCount = 0
      BY <3>4, <3>5, <3>6 DEF Previews
    <3>7. CASE docs[r].replyCount # 0
      <4>1. s \in SUBSET SubList(r) /\ Cardinality(s) = Min({3, Cardinality(SubList(r))})
        BY <3>7 DEF Previews
      <4>2. ASSUME NEW n \in Nat, n # 0 PROVE Min({3, n}) # 0
        <5>1. CASE n <= 3
          <6>1. Min({3, n}) = n
            BY <4>2, <5>1 DEF Min
          <6> QED BY <4>2, <6>1
        <5>2. CASE n > 3
          <6>1. Min({3, n}) = 3
            BY <4>2, <5>2 DEF Min
          <6> QED BY <6>1
        <5> QED BY <4>2, <5>1, <5>2
      <4>3. Cardinality(s) # 0
        BY <3>4, <3>5, <3>7, <4>1, <4>2
      <4>4. s # {}
        BY <4>3, FS_EmptySet
      <4> QED BY <3>4, <3>5, <3>7, <4>4
    <3> QED BY <3>6, <3>7
  <2> QED BY <2>1, <2>2 DEF EveryCommentListed
<1> QED BY <1>1, Invariance, PTL
=============================================================================
