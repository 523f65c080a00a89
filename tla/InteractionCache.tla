-------------------------- MODULE InteractionCache --------------------------
(***************************************************************************)
(* Likes of one post, collections of one post or likes of one comment,     *)
(* from the RPC that serves them to the listener that stores them.  The     *)
(* comments speak of likes; the three kinds differ in their keys, in what   *)
(* reads them and in what the listener counts.                             *)
(*                                                                         *)
(* interaction-rpc keeps the set of likers in a Redis set and answers from *)
(* it.  A set that is missing is first warmed from MongoDB, one request at *)
(* a time, under a lock that expires.  A set without likers holds a dummy  *)
(* member, because Redis drops an empty set.  Every change is published to *)
(* RabbitMQ; platform-java's only consumer of the queue applies it to      *)
(* MongoDB later (write-behind).                                           *)
(*                                                                         *)
(* One action is one Redis, MongoDB or RabbitMQ command, so requests       *)
(* interleave between any two commands.                                    *)
(***************************************************************************)
EXTENDS Integers, Sequences, FiniteSets

CONSTANTS
    Kind,            \* what is kept: likes, collections or likes of a comment
    Users,           \* everybody who may like the target
    Residents,       \* likers stored before the run, who send no request
    Dummy,           \* the placeholder member of an empty set
    Procs,           \* request handlers of interaction-rpc
    None,            \* nobody
    Ops,             \* the requests clients send, a subset of OpNames
    MaxBacklog,      \* bound: unapplied events plus requests in flight
    MaxDrift,        \* bound: how far below zero the stored count is followed
    Budget,          \* bound: how often each fault of FaultNames may happen
    MaxKinds,        \* bound: how many kinds of faults one behaviour may have
    SerialUsers,     \* a user has at most one write in flight
    PatientWaiters,  \* a warm-up ends within the waiters' ten retries
    QuietExpiry      \* keys expire only when nothing is in flight

Kinds   == {"like", "collect", "comment"}
OpNames == {"like", "unlike", "read"}

FaultNames == {"expire", "lockttl", "restart", "error", "crash",
               "bloom", "publish", "listener", "redeliver"}

ASSUME UsersAssumption ==
    /\ IsFiniteSet(Users)
    /\ Residents \subseteq Users
    /\ Dummy \notin Users
    /\ None \notin Procs

\* Likes of comments are read from MongoDB, not from Redis.
ASSUME KindAssumption ==
    /\ Kind \in Kinds
    /\ Kind = "comment" => "read" \notin Ops

ASSUME BoundsAssumption ==
    /\ Ops \subseteq OpNames
    /\ MaxBacklog \in Nat
    /\ MaxDrift \in Nat
    /\ MaxKinds \in Nat
    /\ Budget \in [FaultNames -> Nat]
    /\ {SerialUsers, PatientWaiters, QuietExpiry} \subseteq BOOLEAN

Actors == Users \ Residents

Event == [user : Users, act : {"ADD", "REMOVE"}]

Request   == [op : OpNames, user : Users]
NoRequest == [op |-> "none", user |-> None]

\* Where a request stands: the Redis, MongoDB or RabbitMQ command it sends next.
EnsureSteps == {"exists", "setnx", "wait", "double", "find", "fill",
                "fillbloom", "release"}
WriteSteps  == {"sadd", "rmdummy", "addbloom", "srem", "scardempty",
                "adddummy", "publish"}
ReadSteps   == {"bloomkey", "bloommember", "scard", "hasdummy", "ismember"}
Steps       == {"idle"} \cup EnsureSteps \cup WriteSteps \cup ReadSteps

VARIABLES
    cache,      \* members of the Redis set post:like:<id>; {} is no key
    lock,       \* the handler that set lock:cache:warm:<key>, or None
    bloom,      \* the kind's Bloom filter: absent, or with / without the target
    pc,         \* pc[p]: the next command of handler p
    req,        \* req[p]: the request handler p serves
    holds,      \* holds[p]: p's SETNX succeeded and its deferred DEL is to come
    snap,       \* snap[p]: the likers p read from MongoDB to fill the set
    count,      \* count[p]: the like count p answers
    queue,      \* the interaction queue, oldest event first
    applying,   \* what the listener does next with the oldest event
    stored,     \* post_likes in MongoDB: the users with a record
    likeCount,  \* posts.likeCount in MongoDB
    esCount,    \* likeCount of the post's Elasticsearch document
    wish,       \* what each user last asked for and Redis executed (history)
    faults      \* faults[f]: how often fault f may still happen

redisVars    == <<cache, lock, bloom>>
handlerVars  == <<pc, req, holds, snap, count>>
listenerVars == <<queue, applying, stored, likeCount, esCount>>
vars == <<redisVars, handlerVars, listenerVars, wish, faults>>

TypeOK ==
    /\ cache \subseteq Users \cup {Dummy}
    /\ lock \in Procs \cup {None}
    /\ bloom \in {"absent", "without", "with"}
    /\ pc \in [Procs -> Steps]
    /\ req \in [Procs -> Request \cup {NoRequest}]
    /\ \A p \in Procs : pc[p] = "idle" <=> req[p] = NoRequest
    /\ holds \in [Procs -> BOOLEAN]
    /\ snap \in [Procs -> SUBSET Users]
    /\ count \in [Procs -> Nat]
    /\ queue \in Seq(Event)
    /\ applying \in {"record", "again", "count", "es"}
    /\ stored \subseteq Users
    /\ likeCount \in Int
    /\ esCount \in Int
    /\ wish \in [Users -> BOOLEAN]
    /\ faults \in [FaultNames -> Nat]

Likers == cache \ {Dummy}
Idle(p) == pc[p] = "idle"
Busy == {p \in Procs : ~Idle(p)}
Writing(p, u) == ~Idle(p) /\ req[p].op # "read" /\ req[p].user = u

\* Nothing in flight: every request answered, every event applied.
Settled == Busy = {} /\ queue = <<>>

GoTo(p, step) ==
    /\ pc' = [pc EXCEPT ![p] = step]
    /\ UNCHANGED req

\* Answer the client; what the handler had read is gone.
Reply(p) ==
    /\ pc' = [pc EXCEPT ![p] = "idle"]
    /\ req' = [req EXCEPT ![p] = NoRequest]

Spend(f) ==
    /\ faults[f] > 0
    /\ Cardinality({g \in FaultNames : g # f /\ faults[g] < Budget[g]}) < MaxKinds
    /\ faults' = [faults EXCEPT ![f] = @ - 1]

Init ==
    /\ cache = {} /\ lock = None /\ bloom = "absent"
    /\ pc = [p \in Procs |-> "idle"]
    /\ req = [p \in Procs |-> NoRequest]
    /\ holds = [p \in Procs |-> FALSE]
    /\ snap = [p \in Procs |-> {}]
    /\ count = [p \in Procs |-> 0]
    /\ queue = <<>> /\ applying = "record"
    /\ stored = Residents
    /\ likeCount = Cardinality(Residents)
    /\ esCount = Cardinality(Residents)
    /\ wish = [u \in Users |-> u \in Residents]
    /\ faults = Budget
-----------------------------------------------------------------------------
(* Requests. *)

\* A client calls LikePost, UnlikePost or BatchPostStats.  Like and unlike
\* warm the set first; a read asks the Bloom filter whether warming pays.
Begin(p, op, u) ==
    /\ Idle(p)
    /\ Cardinality(Busy) + Len(queue) < MaxBacklog
    /\ op = "unlike" => likeCount > -MaxDrift
    /\ SerialUsers /\ op # "read" => ~\E q \in Procs : Writing(q, u)
    /\ pc' = [pc EXCEPT ![p] = IF op = "read" THEN "bloomkey" ELSE "exists"]
    /\ req' = [req EXCEPT ![p] = [op |-> op, user |-> u]]
    /\ UNCHANGED <<redisVars, holds, snap, count, listenerVars, wish, faults>>

\* CheckBloom, EXISTS: without a filter a read always warms.
CheckBloomKey(p) ==
    /\ pc[p] = "bloomkey"
    /\ GoTo(p, IF bloom = "absent" THEN "exists" ELSE "bloommember")
    /\ UNCHANGED <<redisVars, holds, snap, count, listenerVars, wish, faults>>

\* Mutant: BF.EXISTS read the wrong way round.
CheckBloomInverted(p) ==
    /\ pc[p] = "bloommember"
    /\ GoTo(p, IF bloom = "with" THEN "scard" ELSE "exists")
    /\ UNCHANGED <<redisVars, holds, snap, count, listenerVars, wish, faults>>

\* CheckBloom, BF.EXISTS: a target the filter does not know is read as it is;
\* one it knows, or takes for known, is warmed.
CheckBloomMember(p) ==
    /\ pc[p] = "bloommember"
    /\ \/ GoTo(p, "exists")
       \/ bloom # "with" /\ GoTo(p, "scard")
    /\ UNCHANGED <<redisVars, holds, snap, count, listenerVars, wish, faults>>
-----------------------------------------------------------------------------
(* ensureSetCacheLoaded: the warm-up before a command on the set. *)

\* The command the warm-up was for.
Resume(p) == CASE req[p].op = "like"   -> "sadd"
               [] req[p].op = "unlike" -> "srem"
               [] OTHER                -> "scard"

\* Leave the warm-up: a handler that set the lock deletes it first (defer).
Warmed(p) == IF holds[p] THEN "release" ELSE Resume(p)

EnsureExists(p) ==
    /\ pc[p] = "exists"
    /\ GoTo(p, IF cache # {} THEN Resume(p) ELSE "setnx")
    /\ UNCHANGED <<redisVars, holds, snap, count, listenerVars, wish, faults>>

TryLock(p) ==
    /\ pc[p] = "setnx"
    /\ IF lock = None
       THEN /\ lock' = p
            /\ holds' = [holds EXCEPT ![p] = TRUE]
            /\ GoTo(p, "double")
       ELSE /\ GoTo(p, "wait")
            /\ UNCHANGED <<lock, holds>>
    /\ UNCHANGED <<cache, bloom, snap, count, listenerVars, wish, faults>>

\* One of the ten EXISTS of a waiter finds the key.
WaitHit(p) ==
    /\ pc[p] = "wait"
    /\ cache # {}
    /\ GoTo(p, Resume(p))
    /\ UNCHANGED <<redisVars, holds, snap, count, listenerVars, wish, faults>>

\* Mutant: a waiter whose retries are used up tries the lock again.
WaitForLock(p) ==
    /\ pc[p] = "wait"
    /\ cache = {}
    /\ GoTo(p, "setnx")
    /\ UNCHANGED <<redisVars, holds, snap, count, listenerVars, wish, faults>>

\* Mutant: a waiter goes on only once the lock is gone.
WaitForRelease(p) ==
    /\ pc[p] = "wait"
    /\ cache = {}
    /\ lock = None
    /\ GoTo(p, "double")
    /\ UNCHANGED <<redisVars, holds, snap, count, listenerVars, wish, faults>>

\* The tenth EXISTS misses too: the waiter warms the set without the lock.
WaitTimeout(p) ==
    /\ pc[p] = "wait"
    /\ cache = {}
    /\ PatientWaiters => \A q \in Procs : ~holds[q]
    /\ GoTo(p, "double")
    /\ UNCHANGED <<redisVars, holds, snap, count, listenerVars, wish, faults>>

\* Mutant: no second EXISTS under the lock.
DoubleCheckSkipped(p) ==
    /\ pc[p] = "double"
    /\ GoTo(p, "find")
    /\ UNCHANGED <<redisVars, holds, snap, count, listenerVars, wish, faults>>

DoubleCheck(p) ==
    /\ pc[p] = "double"
    /\ GoTo(p, IF cache # {} THEN Warmed(p) ELSE "find")
    /\ UNCHANGED <<redisVars, holds, snap, count, listenerVars, wish, faults>>

FindLikes(p) ==
    /\ pc[p] = "find"
    /\ snap' = [snap EXCEPT ![p] = stored]
    /\ GoTo(p, "fill")
    /\ UNCHANGED <<redisVars, holds, count, listenerVars, wish, faults>>

\* SADD of every liker that was read, or of the dummy when there was none.
FillCache(p) ==
    /\ pc[p] = "fill"
    /\ cache' = cache \cup (IF snap[p] = {} THEN {Dummy} ELSE snap[p])
    /\ snap' = [snap EXCEPT ![p] = {}]
    /\ GoTo(p, IF snap[p] = {} THEN Warmed(p) ELSE "fillbloom")
    /\ UNCHANGED <<lock, bloom, holds, count, listenerVars, wish, faults>>

\* AddBloom: BF.RESERVE, then BF.ADD; either may fail and is only logged.
AddBloom ==
    \/ /\ bloom' = "with"
       /\ UNCHANGED faults
    \/ /\ Spend("bloom")
       /\ bloom' \in {bloom, IF bloom = "absent" THEN "without" ELSE bloom}

FillBloom(p) ==
    /\ pc[p] = "fillbloom"
    /\ AddBloom
    /\ GoTo(p, Warmed(p))
    /\ UNCHANGED <<cache, lock, holds, snap, count, listenerVars, wish>>

\* The deferred DEL of the lock key, whoever holds it by now.
ReleaseLock(p) ==
    /\ pc[p] = "release"
    /\ lock' = None
    /\ holds' = [holds EXCEPT ![p] = FALSE]
    /\ GoTo(p, Resume(p))
    /\ UNCHANGED <<cache, bloom, snap, count, listenerVars, wish, faults>>
-----------------------------------------------------------------------------
(* LikePost and UnlikePost after the warm-up. *)

LikeSadd(p) ==
    LET u == req[p].user IN
    /\ pc[p] = "sadd"
    /\ cache' = cache \cup {u}
    /\ wish' = [wish EXCEPT ![u] = TRUE]
    /\ IF u \in cache THEN Reply(p) ELSE GoTo(p, "rmdummy")
    /\ UNCHANGED <<lock, bloom, holds, snap, count, listenerVars, faults>>

\* Mutant: the event is published without the filter.
RemoveDummyThenPublish(p) ==
    /\ pc[p] = "rmdummy"
    /\ cache' = cache \ {Dummy}
    /\ GoTo(p, "publish")
    /\ UNCHANGED <<lock, bloom, holds, snap, count, listenerVars, wish, faults>>

RemoveDummyUser(p) ==
    /\ pc[p] = "rmdummy"
    /\ cache' = cache \ {Dummy}
    /\ GoTo(p, "addbloom")
    /\ UNCHANGED <<lock, bloom, holds, snap, count, listenerVars, wish, faults>>

LikeBloom(p) ==
    /\ pc[p] = "addbloom"
    /\ AddBloom
    /\ GoTo(p, "publish")
    /\ UNCHANGED <<cache, lock, holds, snap, count, listenerVars, wish>>

UnlikeSrem(p) ==
    LET u == req[p].user IN
    /\ pc[p] = "srem"
    /\ cache' = cache \ {u}
    /\ wish' = [wish EXCEPT ![u] = FALSE]
    /\ IF u \in cache THEN GoTo(p, "scardempty") ELSE Reply(p)
    /\ UNCHANGED <<lock, bloom, holds, snap, count, listenerVars, faults>>

\* ensureDummyUserIfEmpty: SCARD, and SADD of the dummy if it answered 0.
EmptyCheck(p) ==
    /\ pc[p] = "scardempty"
    /\ GoTo(p, IF cache = {} THEN "adddummy" ELSE "publish")
    /\ UNCHANGED <<redisVars, holds, snap, count, listenerVars, wish, faults>>

\* Mutant: the placeholder is not the one the readers know.
AddWrongDummy(p) ==
    /\ pc[p] = "adddummy"
    /\ cache' = cache \cup {None}
    /\ GoTo(p, "publish")
    /\ UNCHANGED <<lock, bloom, holds, snap, count, listenerVars, wish, faults>>

AddDummyUser(p) ==
    /\ pc[p] = "adddummy"
    /\ cache' = cache \cup {Dummy}
    /\ GoTo(p, "publish")
    /\ UNCHANGED <<lock, bloom, holds, snap, count, listenerVars, wish, faults>>

\* Mutant: an unlike is published as another ADD.
PublishAlwaysAdds(p) ==
    /\ pc[p] = "publish"
    /\ queue' = Append(queue, [user |-> req[p].user, act |-> "ADD"])
    /\ Reply(p)
    /\ UNCHANGED <<redisVars, holds, snap, count, applying, stored, likeCount,
                   esCount, wish, faults>>

\* publishEvent; a failure is logged and the Redis set is left as it is.
PublishEvent(p) ==
    /\ pc[p] = "publish"
    /\ \/ /\ queue' = Append(queue,
                  [user |-> req[p].user,
                   act |-> IF req[p].op = "like" THEN "ADD" ELSE "REMOVE"])
          /\ UNCHANGED faults
       \/ /\ Spend("publish")
          /\ UNCHANGED queue
    /\ Reply(p)
    /\ UNCHANGED <<redisVars, holds, snap, count, applying, stored, likeCount,
                   esCount, wish>>
-----------------------------------------------------------------------------
(* BatchPostStats after the warm-up: countSetWithoutDummy and isLiked. *)

CountMembers(p) ==
    /\ pc[p] = "scard"
    /\ count' = [count EXCEPT ![p] = Cardinality(cache)]
    /\ GoTo(p, "hasdummy")
    /\ UNCHANGED <<redisVars, holds, snap, listenerVars, wish, faults>>

DiscountDummy(p) ==
    /\ pc[p] = "hasdummy"
    /\ count' = [count EXCEPT ![p] = IF Dummy \in cache /\ @ > 0 THEN @ - 1 ELSE @]
    /\ GoTo(p, "ismember")
    /\ UNCHANGED <<redisVars, holds, snap, listenerVars, wish, faults>>

\* SISMEMBER of the caller, then the answer.
AnswerRead(p) ==
    /\ pc[p] = "ismember"
    /\ count' = [count EXCEPT ![p] = 0]
    /\ Reply(p)
    /\ UNCHANGED <<redisVars, holds, snap, listenerVars, wish, faults>>
-----------------------------------------------------------------------------
(* handleInteraction: the listener takes one event at a time, in the order of *)
(* the queue, and acknowledges it when it is done.                           *)

Oldest == Head(queue)
Acknowledge == queue' = Tail(queue) /\ applying' = "record"

\* Mutant: a duplicate is counted like a new record.
CountDuplicate ==
    /\ queue # <<>> /\ applying \in {"record", "again"}
    /\ Oldest.act = "ADD" /\ Oldest.user \in stored
    /\ applying' = "count"
    /\ UNCHANGED <<redisVars, handlerVars, queue, stored, likeCount, esCount, wish,
                   faults>>

\* The unique index on (userId, postId) refuses a second record: nothing is
\* counted.
SkipDuplicate ==
    /\ queue # <<>> /\ applying \in {"record", "again"}
    /\ Oldest.act = "ADD" /\ Oldest.user \in stored
    /\ Acknowledge
    /\ UNCHANGED <<redisVars, handlerVars, stored, likeCount, esCount, wish, faults>>

SaveRecord ==
    /\ queue # <<>> /\ applying \in {"record", "again"}
    /\ Oldest.act = "ADD" /\ Oldest.user \notin stored
    /\ stored' = stored \cup {Oldest.user}
    /\ applying' = "count"
    /\ UNCHANGED <<redisVars, handlerVars, queue, likeCount, esCount, wish, faults>>

\* Mutant: the record is deleted and nothing is counted.
DeleteRecordOnly ==
    /\ queue # <<>> /\ applying \in {"record", "again"}
    /\ Oldest.act = "REMOVE"
    /\ stored' = stored \ {Oldest.user}
    /\ Acknowledge
    /\ UNCHANGED <<redisVars, handlerVars, likeCount, esCount, wish, faults>>

\* deleteByUserIdAndPostId: whether a record was deleted is not looked at.
DeleteRecord ==
    /\ queue # <<>> /\ applying \in {"record", "again"}
    /\ Oldest.act = "REMOVE"
    /\ stored' = stored \ {Oldest.user}
    /\ applying' = "count"
    /\ UNCHANGED <<redisVars, handlerVars, queue, likeCount, esCount, wish, faults>>

\* Mutant: a removal counts up.
DeltaUp == 1

Delta == IF Oldest.act = "ADD" THEN 1 ELSE -1

\* The counts of a post; only that of its likes is in Elasticsearch too.
UpdatePostCount ==
    /\ applying = "count"
    /\ likeCount' = likeCount + Delta
    /\ IF Kind = "like"
       THEN applying' = "es" /\ UNCHANGED queue
       ELSE Acknowledge
    /\ UNCHANGED <<redisVars, handlerVars, stored, esCount, wish, faults>>

\* The count of a comment.
UpdateCommentCount ==
    /\ applying = "count"
    /\ likeCount' = likeCount + Delta
    /\ Acknowledge
    /\ UNCHANGED <<redisVars, handlerVars, stored, esCount, wish, faults>>

UpdateESPostCount ==
    /\ applying = "es"
    /\ esCount' = esCount + Delta
    /\ Acknowledge
    /\ UNCHANGED <<redisVars, handlerVars, stored, likeCount, wish, faults>>

\* Any exception is caught and logged, and the event acknowledged.
ListenerFails ==
    /\ queue # <<>>
    /\ Spend("listener")
    /\ Acknowledge
    /\ UNCHANGED <<redisVars, handlerVars, stored, likeCount, esCount, wish>>

\* The listener's process stops before the acknowledgement; the broker
\* delivers the event again.
Redeliver ==
    /\ applying \in {"count", "es"}
    /\ Spend("redeliver")
    /\ applying' = "again"
    /\ UNCHANGED <<redisVars, handlerVars, queue, stored, likeCount, esCount, wish>>
-----------------------------------------------------------------------------
(* What else happens to a request and to Redis. *)

\* A command returns an error.  Like and unlike give up; a read logs it and
\* counts whatever is there.  The deferred DEL releases the lock.
RequestFails(p) ==
    /\ pc[p] \in (EnsureSteps \ {"fillbloom", "release"}) \cup {"sadd", "srem"}
    /\ Spend("error")
    /\ lock' = IF holds[p] THEN None ELSE lock
    /\ holds' = [holds EXCEPT ![p] = FALSE]
    /\ snap' = [snap EXCEPT ![p] = {}]
    /\ IF req[p].op = "read" THEN GoTo(p, "scard") ELSE Reply(p)
    /\ UNCHANGED <<cache, bloom, count, listenerVars, wish>>

\* The command after an error nobody passes on: the lock stays, the dummy stays
\* or stays away, the count is answered as 0.
AfterIgnored(p) == CASE pc[p] = "release"      -> Resume(p)
                     [] pc[p] = "rmdummy"      -> "addbloom"
                     [] pc[p] \in ReadSteps    -> "ismember"
                     [] OTHER                  -> "publish"

CommandIgnored(p) ==
    /\ pc[p] \in {"release", "rmdummy", "scardempty", "adddummy", "scard", "hasdummy"}
    /\ Spend("error")
    /\ holds' = [holds EXCEPT ![p] = FALSE]
    /\ count' = [count EXCEPT ![p] = 0]
    /\ GoTo(p, AfterIgnored(p))
    /\ UNCHANGED <<redisVars, snap, listenerVars, wish>>

\* The process dies, or the context is cancelled and the deferred DEL with it:
\* the lock stays until it expires.
RequestDies(p) ==
    /\ ~Idle(p)
    /\ Spend("crash")
    /\ holds' = [holds EXCEPT ![p] = FALSE]
    /\ snap' = [snap EXCEPT ![p] = {}]
    /\ count' = [count EXCEPT ![p] = 0]
    /\ Reply(p)
    /\ UNCHANGED <<redisVars, listenerVars, wish>>

\* The set's 24 hours are over, or Redis evicts it.
KeyExpires ==
    /\ cache # {}
    /\ QuietExpiry => Settled
    /\ Spend("expire")
    /\ cache' = {}
    /\ UNCHANGED <<lock, bloom, handlerVars, listenerVars, wish>>

\* The lock's 5 seconds are over; its holder does not notice.
LockExpires ==
    /\ lock # None
    /\ Spend("lockttl")
    /\ lock' = None
    /\ UNCHANGED <<cache, bloom, handlerVars, listenerVars, wish>>

RedisRestarts ==
    /\ QuietExpiry => Settled
    /\ Spend("restart")
    /\ cache' = {} /\ lock' = None /\ bloom' = "absent"
    /\ UNCHANGED <<handlerVars, listenerVars, wish>>

\* A like on another target creates the filter all targets of a kind share.
OtherTargetLiked ==
    /\ bloom = "absent"
    /\ bloom' = "without"
    /\ UNCHANGED <<cache, lock, handlerVars, listenerVars, wish, faults>>
-----------------------------------------------------------------------------
Ensure(p) ==
    \/ EnsureExists(p) \/ TryLock(p) \/ WaitHit(p) \/ WaitTimeout(p)
    \/ DoubleCheck(p) \/ FindLikes(p) \/ FillCache(p) \/ FillBloom(p)
    \/ ReleaseLock(p)

AddMember(p) ==
    /\ req[p].op = "like"
    /\ LikeSadd(p) \/ RemoveDummyUser(p) \/ LikeBloom(p) \/ PublishEvent(p)

RemoveMember(p) ==
    /\ req[p].op = "unlike"
    /\ UnlikeSrem(p) \/ EmptyCheck(p) \/ AddDummyUser(p) \/ PublishEvent(p)

LikePost(p)      == Kind = "like" /\ AddMember(p)
UnlikePost(p)    == Kind = "like" /\ RemoveMember(p)
CollectPost(p)   == Kind = "collect" /\ AddMember(p)
UncollectPost(p) == Kind = "collect" /\ RemoveMember(p)
LikeComment(p)   == Kind = "comment" /\ AddMember(p)
UnlikeComment(p) == Kind = "comment" /\ RemoveMember(p)

BatchPostStats(p) ==
    \/ CheckBloomKey(p) \/ CheckBloomMember(p)
    \/ CountMembers(p) \/ DiscountDummy(p) \/ AnswerRead(p)

Handle(p) ==
    \/ Ensure(p) \/ BatchPostStats(p)
    \/ LikePost(p) \/ UnlikePost(p)
    \/ CollectPost(p) \/ UncollectPost(p)
    \/ LikeComment(p) \/ UnlikeComment(p)

SetRecord == SkipDuplicate \/ SaveRecord \/ DeleteRecord

HandleLike ==
    Kind = "like" /\ (SetRecord \/ UpdatePostCount \/ UpdateESPostCount)
HandleCollect ==
    Kind = "collect" /\ (SetRecord \/ UpdatePostCount)
HandleCommentLike ==
    Kind = "comment" /\ (SetRecord \/ UpdateCommentCount)

HandleInteraction == HandleLike \/ HandleCollect \/ HandleCommentLike

Environment ==
    \/ \E p \in Procs : RequestFails(p) \/ CommandIgnored(p) \/ RequestDies(p)
    \/ ListenerFails \/ Redeliver
    \/ KeyExpires \/ LockExpires \/ RedisRestarts \/ OtherTargetLiked

Next ==
    \/ \E p \in Procs, op \in Ops, u \in Actors : Begin(p, op, u)
    \/ \E p \in Procs : Handle(p)
    \/ HandleInteraction
    \/ Environment

Spec == Init /\ [][Next]_vars

\* Goroutines and the listener's thread keep running; clients may stop, and
\* nothing has to fail.
HandlerRuns(p) == WF_vars(Handle(p))
ListenerRuns == WF_vars(HandleInteraction)

Fairness == (\A p \in Procs : HandlerRuns(p)) /\ ListenerRuns

FairSpec == Spec /\ Fairness
-----------------------------------------------------------------------------
(* Properties. *)

Wished == {u \in Users : wish[u]}
Spent(f) == Budget[f] - faults[f]

\* While a warmed set exists it holds exactly the users whose last executed
\* request was a like: warming from a database that lags behind neither loses
\* a like nor brings a removed one back.  Stated for writers that are served
\* one at a time per user, warm-ups that end before the waiters give up, keys
\* that expire only when no event is pending, and a liker who stays.
WarmSetIsExact == cache # {} => Likers = Wished

\* A user whose writes have been answered reads his own last choice, also
\* when the Bloom filter decides that the set need not be warmed.
ReadYourWrites ==
    \A p \in Procs :
        pc[p] = "ismember" /\ (\A q \in Procs : ~Writing(q, req[p].user))
            => (req[p].user \in cache <=> wish[req[p].user])

\* When nothing is in flight the Redis set, if there is one, holds the users with
\* a record: README.md promises that the two become consistent in the end.
RedisMatchesStore == Settled /\ cache # {} => Likers = stored

\* When nothing is in flight, MongoDB's records, both counts and the Redis set
\* agree with what the users asked for.
SettledAgreement ==
    Settled => /\ stored = Wished
               /\ likeCount = Cardinality(stored)
               /\ Kind = "like" => esCount = Cardinality(stored)
               /\ RedisMatchesStore

\* Between two events neither stored count exceeds the number of records by
\* more than the listener's swallowed exceptions: duplicated events, deliveries
\* repeated after a crash, expired keys and locks never inflate a count.
NoOvercount ==
    applying = "record" =>
        /\ likeCount <= Cardinality(stored) + Spent("listener")
        /\ Kind = "like" => esCount <= Cardinality(stored) + Spent("listener")

\* The filter never denies a target whose likes are stored or on their way:
\* every like enters it before its event is published.
BloomCoversStore ==
    bloom = "without" =>
        stored = {} /\ \A i \in 1..Len(queue) : queue[i].act # "ADD"

\* A handler that serves a request can always send its next command: where waiters
\* give up after their retries, nobody's death leaves another waiting for a lock.
NoHandlerStuck == \A p \in Procs : ~Idle(p) => ENABLED <<Handle(p)>>_vars

\* Every request is answered, whatever fails around it.
RequestsReturn == \A p \in Procs : ~Idle(p) ~> Idle(p)

\* MongoDB catches up: a choice a user no longer changes is the one that is
\* stored in the end, however many requests of others keep coming, as long as no
\* handler dies between Redis and the queue.
StoreCatchesUp ==
    \A u \in Users :
        /\ <>[](wish[u] /\ Spent("crash") = 0) => <>[](u \in stored)
        /\ <>[](~wish[u] /\ Spent("crash") = 0) => <>[](u \notin stored)

\* Without exceptions and crashes of the listener, requests and listener implement
\* the log of LikeLog: an event takes effect when its record changes, and what the
\* listener still has to count for it is added to the counts.
Counting(steps) == IF applying \in steps THEN Delta ELSE 0

Log == INSTANCE LikeLog WITH
           log <- IF applying \in {"count", "es"} THEN Tail(queue) ELSE queue,
           likeCount <- likeCount + Counting({"count"}),
           esCount <- IF Kind = "like" THEN esCount + Counting({"count", "es"})
                      ELSE esCount,
           Indexed <- Kind = "like"

ImplementsLog == Log!Spec
=============================================================================
