------------------------------ MODULE Comments ------------------------------
(***************************************************************************)
(* The comments of one post: comment-rpc, which writes them to MongoDB, and *)
(* the comment listener of platform-java, which counts them, notifies and   *)
(* lets the AI answer.                                                      *)
(*                                                                         *)
(* Comments form two levels: a root and its replies; a reply to a reply     *)
(* hangs under the same root.  A root that is deleted keeps its document    *)
(* with another text, a reply is removed.  The root counts its replies      *)
(* (replyCount), the post all comments (commentCount).                      *)
(*                                                                         *)
(* One action is one command to MongoDB or RabbitMQ.  Who may delete what,  *)
(* likes of comments and the text are left out; the post's document never   *)
(* goes away, also when the post is deleted, so looking it up is no step.   *)
(***************************************************************************)
EXTENDS Integers, FiniteSets, FiniteSetsExt, Sequences

CONSTANTS
    Ids,         \* identities of comments, drawn at random, never twice
    Author,      \* Author[c]: who writes the comment that draws c
    Bot,         \* the AI's user
    PostAuthor,  \* who wrote the post
    Zero,        \* user id 0
    Mentions,    \* comments whose text names the AI
    Procs,       \* request handlers of comment-rpc
    None,        \* no value
    Overlap,     \* whether requests may name a comment another one works on
    Faults,      \* which faults happen
    MaxHarm,     \* bound: how many of them
    MaxRefused   \* bound: events RabbitMQ refuses while a comment is created

FaultNames == {"error", "crash", "undo", "undeleted", "redeliver", "answer"}
Users == {Author[c] : c \in Ids} \cup {PostAuthor}

\* A comment: its root (None for a root), its count of replies, and whether its
\* text says that it was deleted.
Doc == [root : Ids \cup {None}, replyCount : Nat, deleted : BOOLEAN]

ASSUME CommentsAssumption ==
    /\ IsFiniteSet(Ids) /\ IsFiniteSet(Procs)
    /\ None \notin Ids \cup Doc \cup {"create", "delete"}
    /\ Mentions \subseteq Ids
    /\ Overlap \in BOOLEAN
    /\ Faults \subseteq FaultNames
    /\ {MaxHarm, MaxRefused} \subseteq Nat

CommentEvent == [type : {"CREATE", "DELETE"}, id : Ids, root : Ids \cup {None},
                 replyTo : Users \cup {Zero}]

CreateSteps == {"parent", "increment", "insert", "publish", "undoinsert", "undocount"}
DeleteSteps == {"find", "remove", "publishdelete"}
ListenerSteps == {"start", "notify", "answer", "countanswer", "countreply", "uncount"}

VARIABLES
    docs,          \* docs[c]: the document of c in MongoDB, None: there is none
    drawn,         \* identities that were drawn
    commentCount,  \* the post's count
    queue,         \* platform.comment.queue
    step,          \* the listener's next step for the first event of the queue
    notified,      \* <<comment, receiver>> of the notifications sent (history)
    pc,            \* pc[p]: the next command of handler p
    op,            \* op[p]: the request p serves
    id,            \* id[p]: the comment it creates or deletes
    parent,        \* parent[p]: the comment it answers
    root,          \* root[p]: the root p has read
    harm,          \* faults so far
    refused        \* events of new comments refused so far

storeVars    == <<docs, drawn, commentCount>>
listenerVars == <<queue, step, notified>>
handlerVars  == <<pc, op, id, parent, root>>
vars == <<storeVars, listenerVars, handlerVars, harm, refused>>

TypeOK ==
    /\ docs \in [Ids -> Doc \cup {None}]
    /\ drawn \subseteq Ids
    /\ commentCount \in Nat
    /\ queue \in Seq(CommentEvent)
    /\ step \in ListenerSteps
    /\ notified \subseteq Ids \X (Users \cup {Zero})
    /\ pc \in [Procs -> {"idle"} \cup CreateSteps \cup DeleteSteps]
    /\ op \in [Procs -> {"create", "delete", None}]
    /\ id \in [Procs -> Ids \cup {None}]
    /\ parent \in [Procs -> Ids \cup {None}]
    /\ root \in [Procs -> Ids \cup {None}]
    /\ harm \in Nat /\ refused \in Nat

Present == {c \in Ids : docs[c] # None}
Idle(p) == pc[p] = "idle"
Settled == queue = <<>> /\ \A p \in Procs : Idle(p)

Fault(f) ==
    /\ f \in Faults
    /\ harm < MaxHarm
    /\ harm' = harm + 1

GoTo(p, s) == pc' = [pc EXCEPT ![p] = s] /\ UNCHANGED <<op, id, parent, root>>

Reply(p) ==
    /\ pc' = [pc EXCEPT ![p] = "idle"]
    /\ op' = [op EXCEPT ![p] = None]
    /\ id' = [id EXCEPT ![p] = None]
    /\ parent' = [parent EXCEPT ![p] = None]
    /\ root' = [root EXCEPT ![p] = None]

\* UpdateOne with $inc: nothing happens to a document that is gone.
AddReply(r, n) ==
    IF docs[r] = None THEN UNCHANGED docs
    ELSE docs' = [docs EXCEPT ![r].replyCount = @ + n]

\* The same with a filter on the count.
DropReply(r) ==
    IF docs[r] # None /\ docs[r].replyCount > 0 THEN AddReply(r, -1) ELSE UNCHANGED docs

NewDoc(r) == [root |-> r, replyCount |-> 0, deleted |-> FALSE]

Init ==
    /\ docs = [c \in Ids |-> None] /\ drawn = {}
    /\ commentCount = 0
    /\ queue = <<>> /\ step = "start" /\ notified = {}
    /\ pc = [p \in Procs |-> "idle"]
    /\ op = [p \in Procs |-> None]
    /\ id = [p \in Procs |-> None]
    /\ parent = [p \in Procs |-> None]
    /\ root = [p \in Procs |-> None]
    /\ harm = 0 /\ refused = 0
-----------------------------------------------------------------------------
(* CreateComment. *)

\* A client names a comment it has seen, which may be gone by now.  Unless requests
\* overlap, that is one whose creation was answered and that nobody else deletes.
Nameable(c) ==
    /\ c \in drawn
    /\ \A q \in Procs : id[q] = c => Overlap /\ docs[c] # None

BeginCreate(p, c, t) ==
    /\ Idle(p)
    /\ c \in Ids \ drawn /\ Author[c] # Bot
    /\ t # None => Nameable(t)
    /\ drawn' = drawn \cup {c}
    /\ pc' = [pc EXCEPT ![p] = IF t = None THEN "insert" ELSE "parent"]
    /\ op' = [op EXCEPT ![p] = "create"]
    /\ id' = [id EXCEPT ![p] = c]
    /\ parent' = [parent EXCEPT ![p] = t]
    /\ UNCHANGED <<docs, commentCount, listenerVars, root, harm, refused>>

\* Mutant: a reply to a reply hangs under that reply.
FindParentItself(p) ==
    /\ pc[p] = "parent"
    /\ docs[parent[p]] # None
    /\ root' = [root EXCEPT ![p] = parent[p]]
    /\ pc' = [pc EXCEPT ![p] = "increment"]
    /\ UNCHANGED <<storeVars, listenerVars, op, id, parent, harm, refused>>

\* The parent's root, or the parent if it is one.
FindParent(p) ==
    /\ pc[p] = "parent"
    /\ docs[parent[p]] # None
    /\ root' = [root EXCEPT ![p] = IF docs[parent[p]].root = None THEN parent[p]
                                   ELSE docs[parent[p]].root]
    /\ pc' = [pc EXCEPT ![p] = "increment"]
    /\ UNCHANGED <<storeVars, listenerVars, op, id, parent, harm, refused>>

ParentGone(p) ==
    /\ pc[p] = "parent"
    /\ docs[parent[p]] = None
    /\ Reply(p)
    /\ UNCHANGED <<storeVars, listenerVars, harm, refused>>

IncrementRoot(p) ==
    /\ pc[p] = "increment"
    /\ AddReply(root[p], 1)
    /\ GoTo(p, "insert")
    /\ UNCHANGED <<drawn, commentCount, listenerVars, harm, refused>>

InsertComment(p) ==
    /\ pc[p] = "insert"
    /\ docs' = [docs EXCEPT ![id[p]] = NewDoc(root[p])]
    /\ GoTo(p, "publish")
    /\ UNCHANGED <<drawn, commentCount, listenerVars, harm, refused>>

\* A root answers nobody; JSON carries that as user id 0.
CreatedBy(p) == [type |-> "CREATE", id |-> id[p], root |-> root[p],
                 replyTo |-> IF parent[p] = None THEN Zero ELSE Author[parent[p]]]

PublishCreate(p) ==
    /\ pc[p] = "publish"
    /\ \/ /\ queue' = Append(queue, CreatedBy(p))
          /\ Reply(p)
          /\ UNCHANGED refused
       \/ /\ refused < MaxRefused
          /\ refused' = refused + 1
          /\ GoTo(p, "undoinsert")
          /\ UNCHANGED queue
    /\ UNCHANGED <<storeVars, step, notified, harm>>

\* The rollback: an error of its commands is logged and the next one runs.
UndoInsert(p) ==
    /\ pc[p] = "undoinsert"
    /\ \/ docs' = [docs EXCEPT ![id[p]] = None] /\ UNCHANGED harm
       \/ Fault("undo") /\ UNCHANGED docs
    /\ IF root[p] = None THEN Reply(p) ELSE GoTo(p, "undocount")
    /\ UNCHANGED <<drawn, commentCount, listenerVars, refused>>

\* Mutant: the rollback forgets the root's count.
UndoNothing(p) ==
    /\ pc[p] = "undocount"
    /\ Reply(p)
    /\ UNCHANGED <<storeVars, listenerVars, harm, refused>>

UndoCount(p) ==
    /\ pc[p] = "undocount"
    /\ \/ DropReply(root[p]) /\ UNCHANGED harm
       \/ Fault("undo") /\ UNCHANGED docs
    /\ Reply(p)
    /\ UNCHANGED <<drawn, commentCount, listenerVars, refused>>
-----------------------------------------------------------------------------
(* DeleteComment. *)

BeginDelete(p, c) ==
    /\ Idle(p)
    /\ Nameable(c)
    /\ ~Overlap => \A q \in Procs : parent[q] # c
    /\ pc' = [pc EXCEPT ![p] = "find"]
    /\ op' = [op EXCEPT ![p] = "delete"]
    /\ id' = [id EXCEPT ![p] = c]
    /\ UNCHANGED <<storeVars, listenerVars, parent, root, harm, refused>>

FindComment(p) ==
    /\ pc[p] = "find"
    /\ IF docs[id[p]] = None
       THEN Reply(p)
       ELSE /\ root' = [root EXCEPT ![p] = docs[id[p]].root]
            /\ pc' = [pc EXCEPT ![p] = "remove"]
            /\ UNCHANGED <<op, id, parent>>
    /\ UNCHANGED <<storeVars, listenerVars, harm, refused>>

\* Mutant: a root is removed like a reply.
RemoveAny(p) ==
    /\ pc[p] = "remove"
    /\ docs' = [docs EXCEPT ![id[p]] = None]
    /\ IF root[p] = None THEN Reply(p) ELSE GoTo(p, "publishdelete")
    /\ UNCHANGED <<drawn, commentCount, listenerVars, harm, refused>>

\* A root keeps its document; whether a reply was still there is not looked at.
RemoveComment(p) ==
    /\ pc[p] = "remove"
    /\ IF root[p] = None
       THEN /\ IF docs[id[p]] = None THEN UNCHANGED docs
               ELSE docs' = [docs EXCEPT ![id[p]].deleted = TRUE]
            /\ Reply(p)
       ELSE /\ docs' = [docs EXCEPT ![id[p]] = None]
            /\ GoTo(p, "publishdelete")
    /\ UNCHANGED <<drawn, commentCount, listenerVars, harm, refused>>

DeletedBy(p) == [type |-> "DELETE", id |-> id[p], root |-> root[p], replyTo |-> Zero]

\* When RabbitMQ refuses the event the comment stays removed.
PublishDelete(p) ==
    /\ pc[p] = "publishdelete"
    /\ \/ queue' = Append(queue, DeletedBy(p)) /\ UNCHANGED harm
       \/ Fault("undeleted") /\ UNCHANGED queue
    /\ Reply(p)
    /\ UNCHANGED <<storeVars, step, notified, refused>>
-----------------------------------------------------------------------------
(* A request ends early. *)

\* A command of MongoDB returns an error; the commands before it stay done.
RequestFails(p) ==
    /\ pc[p] \in {"parent", "increment", "insert", "find", "remove"}
    /\ Fault("error")
    /\ Reply(p)
    /\ UNCHANGED <<storeVars, listenerVars, refused>>

HandlerDies(p) ==
    /\ ~Idle(p)
    /\ Fault("crash")
    /\ Reply(p)
    /\ UNCHANGED <<storeVars, listenerVars, refused>>
-----------------------------------------------------------------------------
(* CommentEventListener: one event at a time, in the order of the queue. *)

First == Head(queue)
At(type, s) == queue # <<>> /\ First.type = type /\ step = s
Acknowledge == queue' = Tail(queue) /\ step' = "start"

CountComment ==
    /\ At("CREATE", "start")
    /\ commentCount' = commentCount + 1
    /\ step' = "notify"
    /\ UNCHANGED <<docs, drawn, queue, notified, handlerVars, harm, refused>>

\* replyToUserId is never null, so the post's author is no receiver.
Receivers(e) == {u \in {e.replyTo} : u # Author[e.id]}

\* The AI is asked by its name or by a reply to it.
AsksBot(e) == e.id \in Mentions \/ e.replyTo = Bot

SendCommentNotification ==
    /\ At("CREATE", "notify")
    /\ notified' = notified \cup ({First.id} \X Receivers(First))
    /\ IF AsksBot(First) THEN step' = "answer" /\ UNCHANGED queue ELSE Acknowledge
    /\ UNCHANGED <<storeVars, handlerVars, harm, refused>>

AnswerRoot(e) == IF e.root = None THEN e.id ELSE e.root

\* The AI has nothing to say, or its service fails.
NoAnswer ==
    /\ At("CREATE", "answer")
    /\ Acknowledge
    /\ UNCHANGED <<storeVars, notified, handlerVars, harm, refused>>

\* saveAiComment: no event is published for the AI's comment.
SaveAnswer ==
    /\ At("CREATE", "answer")
    /\ \E b \in Ids \ drawn :
         /\ Author[b] = Bot
         /\ drawn' = drawn \cup {b}
         /\ docs' = [docs EXCEPT ![b] = NewDoc(AnswerRoot(First))]
    /\ step' = "countanswer"
    /\ UNCHANGED <<commentCount, queue, notified, handlerVars, harm, refused>>

CountAnswer ==
    /\ At("CREATE", "countanswer")
    /\ commentCount' = commentCount + 1
    /\ step' = "countreply"
    /\ UNCHANGED <<docs, drawn, queue, notified, handlerVars, harm, refused>>

CountAnswerReply ==
    /\ At("CREATE", "countreply")
    /\ AddReply(AnswerRoot(First), 1)
    /\ Acknowledge
    /\ UNCHANGED <<drawn, commentCount, notified, handlerVars, harm, refused>>

\* An exception while the AI answers is caught.
AnswerFails ==
    /\ step \in {"countanswer", "countreply"}
    /\ Fault("answer")
    /\ Acknowledge
    /\ UNCHANGED <<storeVars, notified, handlerVars, refused>>

UncountComment ==
    /\ At("DELETE", "start")
    /\ commentCount' = IF commentCount > 0 THEN commentCount - 1 ELSE commentCount
    /\ step' = "uncount"
    /\ UNCHANGED <<docs, drawn, queue, notified, handlerVars, harm, refused>>

UncountReply ==
    /\ At("DELETE", "uncount")
    /\ DropReply(First.root)
    /\ Acknowledge
    /\ UNCHANGED <<drawn, commentCount, notified, handlerVars, harm, refused>>

\* An exception leaves the listener, or its process dies: RabbitMQ delivers the
\* event again and it is handled from the start.
Redeliver ==
    /\ step # "start"
    /\ Fault("redeliver")
    /\ step' = "start"
    /\ UNCHANGED <<storeVars, queue, notified, handlerVars, refused>>
-----------------------------------------------------------------------------
(* The lists of comments.  Pages and the reader's likes are left out.          *)

\* ListRootComments asks for comments without a root, ListSubComments for those
\* with a given one.
RootList   == {c \in Present : docs[c].root = None}
SubList(r) == {c \in Present : docs[c].root = r}

\* Below a root that counts replies the list shows the three with most likes.
Previews(r) ==
    IF docs[r].replyCount = 0 THEN {{}}
    ELSE {s \in SUBSET SubList(r) : Cardinality(s) = Min({3, Cardinality(SubList(r))})}
-----------------------------------------------------------------------------
CreateComment(p) ==
    \/ FindParent(p) \/ ParentGone(p) \/ IncrementRoot(p) \/ InsertComment(p)
    \/ PublishCreate(p) \/ UndoInsert(p) \/ UndoCount(p)

DeleteComment(p) == FindComment(p) \/ RemoveComment(p) \/ PublishDelete(p)

HandleCommentEvent ==
    \/ CountComment \/ SendCommentNotification
    \/ NoAnswer \/ SaveAnswer \/ CountAnswer \/ CountAnswerReply
    \/ UncountComment \/ UncountReply

Next ==
    \/ \E p \in Procs, c \in Ids, t \in Ids \cup {None} : BeginCreate(p, c, t)
    \/ \E p \in Procs, c \in Ids : BeginDelete(p, c)
    \/ \E p \in Procs : CreateComment(p) \/ DeleteComment(p)
    \/ \E p \in Procs : RequestFails(p) \/ HandlerDies(p)
    \/ HandleCommentEvent \/ AnswerFails \/ Redeliver

Spec == Init /\ [][Next]_vars
-----------------------------------------------------------------------------
(* Properties. *)

\* n is at most d away from m.
Near(n, m, d) == n - m \in -d..d

\* When nothing is in flight the post's count is the number of its comments,
\* and each failure moves it by one at most.  A refused event costs nothing:
\* CreateComment rolls everything back.  Stated for requests that do not name a
\* comment another request works on.
CountFollowsComments == Settled => Near(commentCount, Cardinality(Present), harm)

\* The same for a root's count of its replies.
RepliesCounted ==
    Settled => \A r \in Present :
        docs[r].root = None => Near(docs[r].replyCount, Cardinality(SubList(r)), harm)

\* Every comment is in the list of roots or in the list of replies of one of them,
\* and in one list only; and when nothing is in flight and nothing failed, whoever
\* has replies shows some of them below it.
EveryCommentListed ==
    /\ \A c \in Present :
         Cardinality({r \in RootList : c \in SubList(r)}) = IF c \in RootList THEN 0 ELSE 1
    /\ Settled /\ harm = 0 =>
         \A r \in RootList : \A s \in Previews(r) : s = {} <=> SubList(r) = {}
=============================================================================
