------------------------------ MODULE PostIndex ------------------------------
(***************************************************************************)
(* The life of one post: platform-java, which keeps it in MongoDB, and      *)
(* sync-sidecar, which keeps the search index in Elasticsearch.             *)
(*                                                                         *)
(* A request reads the post, saves it as a whole and publishes an event.    *)
(* Workers of the sidecar take events from one queue and finish them in any *)
(* order: a new post is indexed as the event says, after every other change *)
(* MongoDB is asked what the post is like now.  A reindex clears the index  *)
(* and fills it from MongoDB.  With auditing a post is shown only after an  *)
(* administrator has passed it.                                            *)
(*                                                                         *)
(* One action is one command to MongoDB, Elasticsearch or RabbitMQ.  Posts  *)
(* do not affect each other, so there is one; a text stands for all that an *)
(* author can change.  Notifications and audit logs are left out.           *)
(***************************************************************************)
EXTENDS Integers, FiniteSets, Sequences

CONSTANTS
    Procs,         \* request handlers of platform-java
    Workers,       \* workers of the sidecar
    None,          \* no value
    AuditModes,    \* values of POST_AUDIT_ENABLE, which both services read
    Overlap,       \* whether requests overlap each other and the listener
    PendingOnly,   \* whether only posts that wait for it are audited
    QuietReindex,  \* whether a reindex runs only while nothing else does
    Faults,        \* which faults happen
    MaxFaults,     \* bound: how many of them
    MaxText,       \* bound: texts the author writes
    MaxBacklog     \* bound: events not handled plus requests in flight

FaultNames == {"publish", "mongo", "retry", "elastic", "sidecar", "reindex", "listener"}
OpNames == {"create", "update", "delete", "audit"}

\* status: 0 waits for the audit, 1 is published, 2 rejected.
PostDoc == [text : Nat, status : {0, 1, 2}, deleted : BOOLEAN, commentCount : Nat]

\* Only the event of a new post is indexed from its own content.
Event == [type : {"create", "update", "delete", "pass"}, text : Nat]

ASSUME PostAssumption ==
    /\ IsFiniteSet(Workers)
    /\ None \notin Nat \cup OpNames \cup PostDoc \cup Event
    /\ AuditModes \subseteq BOOLEAN
    /\ {Overlap, PendingOnly, QuietReindex} \subseteq BOOLEAN
    /\ Faults \subseteq FaultNames
    /\ {MaxFaults, MaxText, MaxBacklog} \subseteq Nat

VARIABLES
    audit,      \* whether posts are audited
    post,       \* the post in MongoDB, or None
    comments,   \* comments of the post in MongoDB
    es,         \* text of the post's document in Elasticsearch, or None
    queue,      \* platform.es.sync.queue
    at,         \* at[w]: what worker w does next
    ev,         \* ev[w]: the event it has taken
    doc,        \* doc[w]: the text it is about to index
    pc,         \* pc[p]: the next command of handler p
    op,         \* op[p]: the request p serves
    read,       \* read[p]: the post as p knows it
    postQueue,  \* platform.post.queue: events the listener acts on
    step,       \* what the listener does next with the first of them
    scan,       \* where the reindex stands
    page,       \* the text the reindex is about to index
    lastText,   \* texts written so far
    shown,      \* texts that were published at some time (history)
    broken,     \* whether the index has missed a change (history)
    slips,      \* faults that touched the comments (history)
    spent       \* faults so far

mongoVars    == <<post, comments, shown>>
requestVars  == <<pc, op, read, lastText>>
sidecarVars  == <<queue, at, ev, doc>>
reindexVars  == <<scan, page>>
listenerVars == <<postQueue, step, slips>>
vars == <<audit, mongoVars, es, requestVars, sidecarVars, reindexVars,
          listenerVars, broken, spent>>

TypeOK ==
    /\ audit \in BOOLEAN
    /\ post \in PostDoc \cup {None}
    /\ comments \in Nat
    /\ es \in Nat \cup {None}
    /\ queue \in Seq(Event)
    /\ at \in [Workers -> {"idle", "find", "index", "remove"}]
    /\ ev \in [Workers -> Event \cup {None}]
    /\ doc \in [Workers -> Nat \cup {None}]
    /\ pc \in [Procs -> {"idle", "find", "save", "publish"}]
    /\ op \in [Procs -> OpNames \cup {None}]
    /\ read \in [Procs -> PostDoc \cup {None}]
    /\ postQueue \in Seq({"create", "delete"})
    /\ step \in {"start", "count"}
    /\ scan \in {"idle", "clear", "scan", "write"}
    /\ page \in Nat \cup {None}
    /\ lastText \in Nat
    /\ shown \subseteq Nat
    /\ broken \in BOOLEAN
    /\ slips \in Nat /\ spent \in Nat

Idle(p) == pc[p] = "idle"
Free(w) == at[w] = "idle"
Published(d) == d # None /\ d.status = 1 /\ ~d.deleted

\* What the index should say.
Visible(d) == IF Published(d) THEN d.text ELSE None

IndexSettled == queue = <<>> /\ \A w \in Workers : Free(w)
CommentsSettled == postQueue = <<>>
Settled == (\A p \in Procs : Idle(p)) /\ IndexSettled /\ CommentsSettled /\ scan = "idle"

Fault(f) ==
    /\ f \in Faults
    /\ spent < MaxFaults
    /\ spent' = spent + 1

Reply(p) ==
    /\ pc' = [pc EXCEPT ![p] = "idle"]
    /\ op' = [op EXCEPT ![p] = None]
    /\ read' = [read EXCEPT ![p] = None]

Init ==
    /\ audit \in AuditModes
    /\ post = None /\ comments = 0 /\ es = None
    /\ queue = <<>> /\ postQueue = <<>> /\ step = "start"
    /\ at = [w \in Workers |-> "idle"]
    /\ ev = [w \in Workers |-> None]
    /\ doc = [w \in Workers |-> None]
    /\ pc = [p \in Procs |-> "idle"]
    /\ op = [p \in Procs |-> None]
    /\ read = [p \in Procs |-> None]
    /\ scan = "idle" /\ page = None
    /\ lastText = 0 /\ shown = {} /\ broken = FALSE
    /\ slips = 0 /\ spent = 0
-----------------------------------------------------------------------------
(* Requests to platform-java. *)

Begin(p, o) ==
    /\ Idle(p)
    /\ IF o = "create" THEN post = None /\ \A q \in Procs : op[q] # o ELSE post # None
    /\ o = "audit" /\ PendingOnly => post.status = 0
    /\ ~Overlap => (\A q \in Procs : Idle(q)) /\ CommentsSettled
    /\ QuietReindex => scan = "idle"
    /\ Len(queue) + Len(postQueue) + Cardinality({w \in Workers : ~Free(w)})
         + Cardinality({q \in Procs : ~Idle(q)}) < MaxBacklog
    /\ pc' = [pc EXCEPT ![p] = IF o = "create" THEN "save" ELSE "find"]
    /\ op' = [op EXCEPT ![p] = o]
    /\ UNCHANGED <<audit, mongoVars, es, read, lastText, sidecarVars, reindexVars,
                   listenerVars, broken, spent>>

\* An audit does not ask whether the post was deleted.
FindPost(p) ==
    /\ pc[p] = "find"
    /\ op[p] # "audit" => ~post.deleted
    /\ read' = [read EXCEPT ![p] = post]
    /\ pc' = [pc EXCEPT ![p] = "save"]
    /\ UNCHANGED <<audit, mongoVars, es, op, lastText, sidecarVars, reindexVars,
                   listenerVars, broken, spent>>

\* The post in MongoDB becomes d.
Store(d) ==
    /\ post' = d
    /\ shown' = IF Published(d) THEN shown \cup {d.text} ELSE shown

\* The whole document is written, the columns the request did not mean included.
Save(p, d) ==
    /\ Store(d)
    /\ read' = [read EXCEPT ![p] = d]

GoPublish(p) == pc' = [pc EXCEPT ![p] = "publish"] /\ UNCHANGED op

\* The status of a text nobody has looked at.
FirstStatus == IF audit THEN 0 ELSE 1

CreatePost(p) ==
    /\ pc[p] = "save" /\ op[p] = "create"
    /\ lastText < MaxText
    /\ lastText' = lastText + 1
    /\ Save(p, [text |-> lastText + 1, status |-> FirstStatus, deleted |-> FALSE,
                commentCount |-> 0])
    /\ GoPublish(p)
    /\ UNCHANGED <<audit, comments, es, sidecarVars, reindexVars, listenerVars, broken,
                   spent>>

UpdatePost(p) ==
    /\ pc[p] = "save" /\ op[p] = "update"
    /\ lastText < MaxText
    /\ lastText' = lastText + 1
    /\ Save(p, [read[p] EXCEPT !.text = lastText + 1, !.status = FirstStatus])
    /\ GoPublish(p)
    /\ UNCHANGED <<audit, comments, es, sidecarVars, reindexVars, listenerVars, broken,
                   spent>>

\* An update that changes nothing is saved, too, and not published.
TouchPost(p) ==
    /\ pc[p] = "save" /\ op[p] = "update"
    /\ Store(read[p])
    /\ Reply(p)
    /\ UNCHANGED <<audit, comments, es, lastText, sidecarVars, reindexVars,
                   listenerVars, broken, spent>>

DeletePost(p) ==
    /\ pc[p] = "save" /\ op[p] = "delete"
    /\ Save(p, [read[p] EXCEPT !.deleted = TRUE])
    /\ GoPublish(p)
    /\ UNCHANGED <<audit, comments, es, lastText, sidecarVars, reindexVars,
                   listenerVars, broken, spent>>

Verdicts == {1, 2}

\* auditPost sets the status of whatever the post is by now.  The event of a
\* rejection is ignored by the sidecar, that of a pass is not.
AuditPost(p) ==
    /\ pc[p] = "save" /\ op[p] = "audit"
    /\ \E s \in Verdicts :
         /\ Store([post EXCEPT !.status = s])
         /\ IF s = 1 THEN GoPublish(p) /\ UNCHANGED read ELSE Reply(p)
    /\ UNCHANGED <<audit, comments, es, lastText, sidecarVars, reindexVars,
                   listenerVars, broken, spent>>

EventOf(p) == [type |-> IF op[p] = "audit" THEN "pass" ELSE op[p], text |-> read[p].text]

\* The exchange routes to the sidecar's queue and to the listener's.
Publish(p) ==
    /\ pc[p] = "publish"
    /\ queue' = Append(queue, EventOf(p))
    /\ postQueue' = IF op[p] \in {"create", "delete"} THEN Append(postQueue, op[p])
                    ELSE postQueue
    /\ Reply(p)
    /\ UNCHANGED <<audit, mongoVars, es, lastText, at, ev, doc, reindexVars, step, slips,
                   broken, spent>>

\* A check or a command of MongoDB fails, nothing was saved.
Refuse(p) ==
    /\ pc[p] \in {"find", "save"}
    /\ Reply(p)
    /\ UNCHANGED <<audit, mongoVars, es, lastText, sidecarVars, reindexVars,
                   listenerVars, broken, spent>>

\* RabbitMQ refuses the event or the process dies: the post stays saved.
PublishFails(p) ==
    /\ pc[p] = "publish"
    /\ Fault("publish")
    /\ Reply(p)
    /\ broken' = TRUE
    /\ slips' = slips + 1
    /\ UNCHANGED <<audit, mongoVars, es, lastText, sidecarVars, reindexVars, postQueue,
                   step>>
-----------------------------------------------------------------------------
(* SyncHandler: what a worker does with an event. *)

\* Mutant: with auditing a deletion is skipped like a creation.
RouteSkipsDelete(e) == CASE e.type \in {"create", "delete"} -> IF audit THEN "idle" ELSE "index"
                         [] e.type = "pass" -> IF audit THEN "find" ELSE "idle"
                         [] OTHER -> "find"

\* The first command for an event; "idle": it is acknowledged at once.
Route(e) == CASE e.type = "create" -> IF audit THEN "idle" ELSE "index"
              [] e.type = "pass"   -> IF audit THEN "find" ELSE "idle"
              [] e.type = "delete" -> "remove"
              [] OTHER             -> "find"

Take(w) ==
    /\ Free(w) /\ queue # <<>>
    /\ LET e == Head(queue) IN
         /\ at' = [at EXCEPT ![w] = Route(e)]
         /\ ev' = [ev EXCEPT ![w] = IF Route(e) = "idle" THEN None ELSE e]
         /\ doc' = [doc EXCEPT ![w] = IF Route(e) = "index" THEN e.text ELSE None]
    /\ queue' = Tail(queue)
    /\ UNCHANGED <<audit, mongoVars, es, requestVars, reindexVars, listenerVars, broken,
                   spent>>

\* Mutant: whether the post was passed is not looked at.
LookUpUnaudited(w) ==
    /\ at[w] = "find"
    /\ IF post # None /\ ~post.deleted
       THEN /\ doc' = [doc EXCEPT ![w] = post.text]
            /\ at' = [at EXCEPT ![w] = "index"]
       ELSE /\ at' = [at EXCEPT ![w] = "remove"]
            /\ UNCHANGED doc
    /\ UNCHANGED <<audit, mongoVars, es, requestVars, queue, ev, reindexVars,
                   listenerVars, broken, spent>>

\* handleUpdate: MongoDB says whether and how the post is indexed.
LookUp(w) ==
    /\ at[w] = "find"
    /\ IF Published(post)
       THEN /\ doc' = [doc EXCEPT ![w] = post.text]
            /\ at' = [at EXCEPT ![w] = "index"]
       ELSE /\ at' = [at EXCEPT ![w] = "remove"]
            /\ UNCHANGED doc
    /\ UNCHANGED <<audit, mongoVars, es, requestVars, queue, ev, reindexVars,
                   listenerVars, broken, spent>>

\* An error of MongoDB leaves an empty document, whose status is 0.
LookUpFails(w) ==
    /\ at[w] = "find"
    /\ Fault("mongo")
    /\ at' = [at EXCEPT ![w] = "remove"]
    /\ broken' = TRUE
    /\ UNCHANGED <<audit, mongoVars, es, requestVars, queue, ev, doc, reindexVars,
                   listenerVars>>

Ack(w) ==
    /\ at' = [at EXCEPT ![w] = "idle"]
    /\ ev' = [ev EXCEPT ![w] = None]
    /\ doc' = [doc EXCEPT ![w] = None]

IndexEs(w) ==
    /\ at[w] = "index"
    /\ es' = doc[w]
    /\ Ack(w)
    /\ UNCHANGED <<audit, mongoVars, requestVars, queue, reindexVars, listenerVars,
                   broken, spent>>

\* Elasticsearch answers with an error, having indexed or not; the worker tries
\* again.
IndexAgain(w) ==
    /\ at[w] = "index"
    /\ Fault("retry")
    /\ es' \in {es, doc[w]}
    /\ UNCHANGED <<audit, mongoVars, requestVars, sidecarVars, reindexVars,
                   listenerVars, broken>>

DeleteEs(w) ==
    /\ at[w] = "remove"
    /\ es' = None
    /\ Ack(w)
    /\ UNCHANGED <<audit, mongoVars, requestVars, queue, reindexVars, listenerVars,
                   broken, spent>>

\* What commands of the reindex and of workers that are not answered yet make of
\* the document.
ReindexEffect == CASE scan = "clear" -> {None}
                   [] scan = "write" -> {page}
                   [] OTHER          -> {}
WorkerEffect(w) == CASE at[w] = "index"  -> {doc[w]}
                     [] at[w] = "remove" -> {None}
                     [] OTHER            -> {}

\* The worker gives up; the event goes to the dead letters, which nobody reads.
DeadLetter(w) ==
    /\ at[w] \in {"index", "remove"}
    /\ Fault("elastic")
    /\ es' \in {es} \cup WorkerEffect(w)
    /\ Ack(w)
    /\ broken' = TRUE
    /\ UNCHANGED <<audit, mongoVars, requestVars, queue, reindexVars, listenerVars>>

Busy == {w \in Workers : ~Free(w)}
Orders(S) == {s \in [1..Cardinality(S) -> S] : \A i, j \in DOMAIN s : s[i] = s[j] => i = j}

\* The sidecar's process stops: RabbitMQ delivers again what was not acknowledged,
\* before what waits.  The last command may have been executed.  A reindex ends
\* where it is.
SidecarStops ==
    /\ Fault("sidecar")
    /\ es' \in {es} \cup ReindexEffect \cup UNION {WorkerEffect(w) : w \in Workers}
    /\ \E s \in Orders(Busy) : queue' = [i \in DOMAIN s |-> ev[s[i]]] \o queue
    /\ at' = [w \in Workers |-> "idle"]
    /\ ev' = [w \in Workers |-> None]
    /\ doc' = [w \in Workers |-> None]
    /\ scan' = "idle" /\ page' = None
    /\ broken' = (broken \/ scan # "idle")
    /\ UNCHANGED <<audit, mongoVars, requestVars, listenerVars>>
-----------------------------------------------------------------------------
(* HandleReindexPosts: one at a time. *)

BeginReindex ==
    /\ scan = "idle"
    /\ QuietReindex => Settled
    /\ scan' = "clear"
    /\ UNCHANGED <<audit, mongoVars, es, requestVars, sidecarVars, page, listenerVars,
                   broken, spent>>

ClearEsIndex ==
    /\ scan = "clear"
    /\ es' = None
    /\ scan' = "scan"
    /\ UNCHANGED <<audit, mongoVars, requestVars, sidecarVars, page, listenerVars,
                   broken, spent>>

\* An index that was filled in a quiet moment has missed nothing.
FinishReindex ==
    /\ scan' = "idle" /\ page' = None
    /\ broken' = (broken /\ ~QuietReindex)

\* Mutant: deleted posts are found, too.
ScanDeleted ==
    /\ scan = "scan"
    /\ IF post # None /\ post.status = 1
       THEN scan' = "write" /\ page' = post.text /\ UNCHANGED broken
       ELSE FinishReindex
    /\ UNCHANGED <<audit, mongoVars, es, requestVars, sidecarVars, listenerVars, spent>>

\* The cursor returns the post if it is published.
ScanPosts ==
    /\ scan = "scan"
    /\ IF Published(post)
       THEN scan' = "write" /\ page' = post.text /\ UNCHANGED broken
       ELSE FinishReindex
    /\ UNCHANGED <<audit, mongoVars, es, requestVars, sidecarVars, listenerVars, spent>>

WritePage ==
    /\ scan = "write"
    /\ es' = page
    /\ FinishReindex
    /\ UNCHANGED <<audit, mongoVars, requestVars, sidecarVars, listenerVars, spent>>

\* An error or the time limit ends the reindex; nobody resumes it.
ReindexFails ==
    /\ scan # "idle"
    /\ Fault("reindex")
    /\ es' \in {es} \cup ReindexEffect
    /\ scan' = "idle" /\ page' = None
    /\ broken' = TRUE
    /\ UNCHANGED <<audit, mongoVars, requestVars, sidecarVars, listenerVars>>
-----------------------------------------------------------------------------
(* PostEventListener of platform-java: one event at a time.  Of the events it  *)
(* gets, only creation and deletion do something.                              *)

AtEvent(type, s) == postQueue # <<>> /\ Head(postQueue) = type /\ step = s
Handled == postQueue' = Tail(postQueue) /\ step' = "start"

\* handleAutoComment: the AI comments on the new post, or has nothing to say.
AutoComment ==
    /\ AtEvent("create", "start")
    /\ \/ comments' = comments + 1 /\ step' = "count" /\ UNCHANGED postQueue
       \/ Handled /\ UNCHANGED comments
    /\ UNCHANGED <<audit, post, shown, es, requestVars, sidecarVars, reindexVars, slips,
                   broken, spent>>

CountAutoComment ==
    /\ AtEvent("create", "count")
    /\ post' = [post EXCEPT !.commentCount = @ + 1]
    /\ Handled
    /\ UNCHANGED <<audit, comments, shown, es, requestVars, sidecarVars, reindexVars,
                   slips, broken, spent>>

\* Mutant: the comments of a deleted post stay.
KeepComments ==
    /\ AtEvent("delete", "start")
    /\ Handled
    /\ UNCHANGED <<audit, mongoVars, es, requestVars, sidecarVars, reindexVars, slips,
                   broken, spent>>

PurgeComments ==
    /\ AtEvent("delete", "start")
    /\ comments' = 0
    /\ Handled
    /\ UNCHANGED <<audit, post, shown, es, requestVars, sidecarVars, reindexVars, slips,
                   broken, spent>>

\* An exception is caught and the event acknowledged, or the process dies and the
\* event is delivered again.
ListenerFails ==
    /\ postQueue # <<>>
    /\ Fault("listener")
    /\ slips' = slips + 1
    /\ \/ Handled
       \/ step = "count" /\ step' = "start" /\ UNCHANGED postQueue
    /\ UNCHANGED <<audit, mongoVars, es, requestVars, sidecarVars, reindexVars, broken>>
-----------------------------------------------------------------------------
Request(p) ==
    \/ FindPost(p) \/ CreatePost(p) \/ UpdatePost(p) \/ TouchPost(p) \/ DeletePost(p)
    \/ AuditPost(p) \/ Publish(p) \/ Refuse(p)

Sync(w) == Take(w) \/ LookUp(w) \/ IndexEs(w) \/ DeleteEs(w)
SyncFault(w) == LookUpFails(w) \/ IndexAgain(w) \/ DeadLetter(w)
Reindex == ClearEsIndex \/ ScanPosts \/ WritePage
Listen == AutoComment \/ CountAutoComment \/ PurgeComments

Next ==
    \/ \E p \in Procs, o \in OpNames : Begin(p, o)
    \/ \E p \in Procs : Request(p) \/ PublishFails(p)
    \/ \E w \in Workers : Sync(w) \/ SyncFault(w)
    \/ SidecarStops
    \/ BeginReindex \/ Reindex \/ ReindexFails
    \/ Listen \/ ListenerFails

Spec == Init /\ [][Next]_vars

\* Threads that have work go on; nobody has to send a request or a reindex.
Fairness ==
    /\ \A p \in Procs : WF_vars(Request(p))
    /\ \A w \in Workers : WF_vars(Sync(w))
    /\ WF_vars(Reindex)

FairSpec == Spec /\ Fairness
-----------------------------------------------------------------------------
(* Properties. *)

\* The index shows a text only if it was published: no draft and no rejected text
\* gets in, whatever overlaps, is repeated, is reordered or fails.
OnlyPublishedTexts == es # None => es \in shown

\* When nothing is in flight and no event was lost or given up since the last quiet
\* reindex, the index shows the post exactly as MongoDB has it, if it is
\* published.
IndexFollowsPost == Settled /\ ~broken => es = Visible(post)

\* When nothing is in flight, a deleted post has no comments left, and any other
\* counts as many as there are, but for the faults that touched them.
CommentsCounted ==
    Settled /\ post # None =>
        IF post.deleted THEN slips = 0 => comments = 0
        ELSE post.commentCount - comments \in -slips..slips

\* A deleted post leaves the index, unless its event is lost or given up.
DeletedLeavesIndex ==
    (post # None /\ post.deleted /\ ~broken) ~> (es = None \/ broken)
=============================================================================
