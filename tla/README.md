# TLA+ models of the rednote backend

This directory holds TLA+ specifications of the rednote backend: a content
platform whose write path is split between Go microservices (go-zero) and a
Java service (`platform-java`), joined by RabbitMQ, with Redis, MongoDB, MySQL
and Elasticsearch behind them.  The specifications are translated from the
source under `services/`; paths below are relative to it.

## 1. Inventory

| Component | State | Operations | Talks to |
|---|---|---|---|
| interaction-rpc (`interaction-rpc/internal/logic`) | Redis sets of likers and collectors per target, hash of ratings per post, warm-up locks, Bloom filters | like / unlike / collect / uncollect / rate, BatchPostStats, GetUserStats, warm-up of a missing key from MongoDB | publishes `interaction.*` |
| interaction listener (`platform-java/.../InteractionEventListener.java`) | MongoDB records of likes, collects, ratings; counts on posts and comments; counts in Elasticsearch | one handler per event type, notification afterwards | consumes `interaction.*`, calls notification-rpc |
| user-rpc (`user-rpc/internal/logic`) | MySQL users; Redis token version, one-time refresh keys, blocked tokens, e-mail codes | register, login, refresh, logout, change / reset password, bind e-mail, send / verify code, profile, ban, delete | publishes `user.*` |
| gateway-api (`gateway-api/internal`) | none | routes, token check, aggregation of RPC answers, proxy to Java | all RPC services, Java |
| comment-rpc (`comment-rpc/internal/logic`) | MongoDB comments with `replyCount` | create, delete, list | publishes `comment.*` |
| comment listener (`platform-java/.../CommentEventListener.java`) | `commentCount` of posts, comments of the AI | on create: count, notify, ask the AI; on delete: count | consumes `comment.*` |
| notification-rpc (`notification-rpc/internal/logic`) | MongoDB notifications, their indexes | upsert, create, mark read, clean duplicates, count unread | called by Java |
| post service and listeners (`platform-java/.../PostServiceImpl.java`, `listener/Post*.java`) | MongoDB posts with status and tags | create, update, delete, audit, lists, view counter | publishes `post.*` |
| users and relations (`platform-java/.../UserServiceImpl.java`) | MongoDB follow relations with copies of names | follow, unfollow, lists of relations and of a user's own posts and marks, search for users | publishes `interaction.*` |
| administration (`platform-java/.../AdminServiceImpl.java`) | none of its own | audit, lists and pages of posts and users, ranking, statistics, logs | MongoDB, user-rpc, publishes `post.audit*` |
| exchange and queues (`RabbitConfig.java`, `sync-sidecar/internal/config/config.go`) | bindings | routes events by key | everyone |
| sync-sidecar (`sync-sidecar/internal`) | Elasticsearch documents of posts and users, logs | create / update / delete of a document, user changes, full reindex | consumes `post.*`, `user.*`, `log.*` |
| search-rpc (`search-rpc/internal`) | search history | search, suggestions | Elasticsearch |

What is hard here is the same in every part: there are no transactions across
stores.  A request is a sequence of commands to Redis, MongoDB, MySQL and
RabbitMQ that other requests interleave with; any command may fail after the
ones before it took effect; RabbitMQ repeats a delivery after a crash; the
consumers of one queue may be one thread (`platform-java`) or twenty
(sync-sidecar); caches and locks expire at any time.

What makes each component correct:

* **interaction**: the Redis set is what the users asked for; warming it never
  loses or revives a like; MongoDB and both counts follow; counts are never
  inflated; every request returns.
* **tokens**: a token of before a logout or password change is refused; a refresh
  token works once; versions never go back.
* **comments**: `replyCount` and `commentCount` equal the comments there are; a
  failed publication leaves nothing behind; no count falls below zero.
* **notifications**: one notification per state (receiver, sender, type, target),
  whatever is sent at once; nothing unread and nothing of the history is lost.
* **search index**: Elasticsearch ends with exactly the published posts.
* **e-mail codes**: a code opens only what it was mailed for, and once; an address
  has one owner.
* **ratings**: average and count are those of the stored scores.
* **profiles**: copies of a name end as MySQL has it; a deleted user leaves nothing
  behind; the same relation is shown alike everywhere.
* **lists and routes**: a list shows what its reader may open; whoever may call a
  route is served behind the gateway as well.

## 2. Plan

Every module keeps one action per command to a store, its parameters as
CONSTANTS with named assumptions, and has no RECURSIVE operator, so that it can
be proved about.  The order is by importance of the behaviour:

| | Module | State |
|---|---|---|
| 1 | `InteractionCache`, the busiest path of the system | modelled, checked, type, five safety properties and the return of every request proved |
| 2 | `LikeLog`, the abstract specification of its write-behind | refinement checked and proved |
| 3 | `AuthTokens`: token versions and refresh keys, with the gateway's check | modelled, checked, type and all four invariants proved |
| 4 | `Comments`: comment-rpc with the comment listener, and its lists | modelled, checked, type and all three invariants proved |
| 5 | `PostIndex`: post lifecycle (create, update, delete, audit), `PostEventListener`, sync-sidecar's workers, reindex | modelled, checked, type and all three invariants proved |
| 6 | `Feed`, over `PostIndex`: every list a post can be on | modelled, checked, `ListsFitPages` proved |
| 7 | `Accounts`: e-mail codes, register, reset, bind, delete | modelled, checked, type and all four invariants proved |
| 8 | `Ratings`: the hash filled field by field, the average of `handleRate` | modelled, checked, type and every invariant proved |
| 9 | `Notifications`: upsert against the unique index, mark read, pages, clean-up of duplicates; `Inbox`, its abstract specification | modelled, checked, type, all invariants and the refinement proved |
| 10 | `Topology`, `Profiles` over it, `Relations` over `Profiles`: routes of events, copies of names, follow relations and what is shown of them | modelled, checked, type and all five invariants proved |
| 11 | `Gateway`, over `AuthTokens`: open paths and the two tables of routes | modelled, checked, both invariants proved |

Each module is extended by an `MC` module that names the model values, and each `.cfg`
fixes one set of bounds. Eleven runs pass; the twelfth (`index_comments`) shows a
property the code does not have (section 14). The modules without state of their own
(`Feed`, `Relations`, `Gateway`, `Topology`) are what the program computes from a state:
their properties are invariants of the module they extend.

## 3. InteractionCache

**State.**  `Kind` says whether the target is a post that is liked, a post that is
collected or a comment that is liked: the three use the same helpers with keys of
their own, and differ in the steps of the listener.  `cache` is the Redis set
`post:like:<id>` or its like (no members means no key),
`lock` the warm-up lock, `bloom` the filter all targets of a kind share, reduced
to whether it exists and whether it knows this target.  `pc`, `req`, `holds`,
`snap`, `count` are the local variables of the request handlers (goroutines).
`queue` is the interaction queue, `applying` where the listener stands with its
oldest event, `stored` the records of `post_likes`, `post_collects` or
`comment_likes`, `likeCount` and `esCount` the count in MongoDB and, for likes of
posts, the one in Elasticsearch.  `wish` is a history variable: what each user last asked
for and Redis executed.

**Actions and code.**

| Actions | Code |
|---|---|
| `EnsureExists` ... `ReleaseLock` | `ensureSetCacheLoaded`, `common.go:231-343`: EXISTS, SETNX of the lock, ten retries of a waiter, second EXISTS, Find, SADD, filter, deferred DEL |
| `LikeSadd`, `RemoveDummyUser`, `LikeBloom`, `PublishEvent`, as `LikePost`, `CollectPost`, `LikeComment` | `likePostLogic.go`, `collectPostLogic.go`, `likeCommentLogic.go` |
| `UnlikeSrem`, `EmptyCheck`, `AddDummyUser`, `PublishEvent`, as `UnlikePost`, `UncollectPost`, `UnlikeComment` | their counterparts, `ensureDummyUserIfEmpty` |
| `CheckBloomKey`, `CheckBloomMember`, `CountMembers`, `DiscountDummy`, `AnswerRead` | `batchPostStatsLogic.go`, `CheckBloom`, `countSetWithoutDummy` |
| `SetRecord`, `UpdatePostCount`, `UpdateESPostCount`, `UpdateCommentCount`, as `HandleLike`, `HandleCollect`, `HandleCommentLike` | `handleLike`, `handleCollect`, `handleCommentLike` of `InteractionEventListener.java` |
| `RequestFails`, `CommandIgnored` | a command that returns an error: passed on, or logged and forgotten |
| `RequestDies`, `KeyExpires`, `LockExpires`, `RedisRestarts`, `ListenerFails`, `Redeliver`, `OtherTargetLiked` | the environment |

The handlers are many; the listener is one thread (`concurrency` is not set), so it works on
one event at a time.  Only the reply of a command is abstracted: an error is a
fault of the budget `Budget`, which names how often each fault happens.

**Runs.**

* `settle` (likes of a post; 3 users, one a permanent liker; 2 handlers; backlog 3;
  the key expires once in a quiet moment): `WarmSetIsExact`, `ReadYourWrites`,
  `SettledAgreement`, and the refinement of `LikeLog` (section 4).  Three assumptions
  make these true, each a constant that another run drops: a user's writes do not
  overlap (`SerialUsers`), a warm-up ends before its waiters give up
  (`PatientWaiters`: ten retries of 50 ms), keys expire while nothing is in flight
  (`QuietExpiry`).  The resident liker keeps the set from becoming empty; section 14
  says what happens without one.
* `faults` (collections of a post; 1 user, 2 handlers, none of the three assumptions;
  any two of seven kinds of faults, once each): `NoOvercount`, `BloomCoversStore`,
  `TypeOK`, which says too that no answered count is negative; and `NoHandlerStuck`: a
  handler that has not answered can send its next command in every state, even while the
  holder of the lock it waits for is dead.
* `live` (likes of a comment; 3 users, one a permanent liker; a handler dies, Redis
  restarts, the filter fails; with patient waiters): `RequestsReturn` and
  `StoreCatchesUp`.  Fairness is
  weak fairness of each handler's next command (a goroutine that can run is
  scheduled; every command has a timeout) and of the listener's next step (its thread
  is restarted by Spring).  Nothing is assumed of clients or faults.  Comments have no
  reads of this kind (`KindAssumption`).

A property of one kind that rests on the handlers holds for the others: nothing before
the listener depends on `Kind`.

The module has one other writer of the records too few: when a user is deleted, the
sidecar removes his likes and collections and leaves the counts as they are
(`user_handler.go:166-180`, whose comment says so).  What is said here of records and
counts (`NoOvercount`, the refinement, `SettledAgreement`, `StoreCatchesUp`) holds
while nobody who marked the target is deleted (section 14).

**Bounds.**  Two handlers are every pair of racing requests; a third adds no new
kind of race, because a handler's steps depend on the others only through Redis.
Backlog 3 lets a like, an unlike and another like of one user be queued or in
flight.  `MaxDrift` stops unlikes once the stored count is one below zero; the
code lets it fall further with every duplicated unlike, the properties only bound
it from above.

**Proved** (`InteractionCacheProofs`), from `UsersAssumption`, `KindAssumption` and
`BoundsAssumption`, for all three kinds and any users, handlers and fault budget:

* `TypeCorrect`: `TypeOK` with `OldestExists`.  The type of `queue` is not
  inductive alone: `Tail` of an empty queue is no sequence, so one must know that
  the listener is past its first step only while its event is queued.
* `NeverOvercounts`: `NoOvercount`.  The property speaks of the moments between
  two events; the inductive `OvercountInv` says of every moment what is still
  *owed*: an ADD whose record is saved but not yet counted, a REMOVE whose record
  is gone but still counted, and that a redelivered REMOVE finds its record gone.
  One lemma covers all that leave the listener alone, one the listener's steps.
* `FilterCoversStore`: `BloomCoversStore`, if there is no resident liker, Redis does not
  restart and no command of the filter fails.  `FilterInv`: while the filter does not know
  the target, no like of it is stored, queued or about to be published.
* `WarmSetsExact`: `WarmSetIsExact`, under the three assumptions of the run `settle`, a
  resident liker, and without the faults that lose something (`LossFaults`: the lock
  expires, a request fails or dies, an event or its handling is lost).  Restarts of
  Redis, errors of the filter, expiry and repeated delivery are allowed.  Only the holder
  of the lock fills a set (`LockInv`), and does so when there is no set and nothing is
  queued (`WarmInv`), from records that then are what the users wish: what the queue
  tells of a user, or the record when it tells nothing, is his wish, or its opposite
  while his one write (`SerialInv`, `OpInv`) is on its way to the queue (`TellInv`).  An
  event whose record was changed before a crash tells the same (`AppliedInv`).
* `SettledAgrees`: `SettledAgreement`, under the same assumptions and without repeated
  delivery, by which a REMOVE counts twice.  `TurnsInv` says that the events of a user
  alternate between ADD and REMOVE, starting with what the record does not have; so each
  changes the record, and `CountsInv` follows.
* `OwnWritesRead`: `ReadYourWrites`, under the assumptions of `WarmSetsExact`, without
  restarts and errors of the filter.  `KnownInv`: while the filter denies the target,
  every like a user wishes, but for those of residents, is with a handler that has still
  to add it to the filter; and nobody reads a missing set that should have members.
* `RequestsAnswered`: `RequestsReturn` under the weak fairness of the handlers, whatever
  fails and however many requests run, if `NoHandlerStuck` always holds.  A handler's
  commands have an order in which it never goes back: `Rank` counts the at most fourteen
  it has left, each command leaves it fewer (`HandleFalls`), and no other handler, fault
  or listener step gives it more (`SteadyFalls`); so it answers after finitely many
  (`SteadyAnswers`).  The hypothesis is what weak fairness needs, that a waiting handler
  can go on. The code guarantees it by the ten retries after which a waiter gives up
  (`PatientWaiters = FALSE`), and the run `faults` checks it there: ENABLED, which it is
  stated with, is out of the prover's reach.  With patient waiters a handler may wait for as
  long as another warms the set, which the hypothesis excludes; that requests return then
  too, because a warm-up ends or its handler dies, is for the run `live` alone.

Without the three assumptions, and without a resident, the last three properties are
false (section 14): they are conditions on the environment, which the code does not
enforce.

## 4. LikeLog

What readers of MongoDB and, where `Indexed` is TRUE, of Elasticsearch may rely on,
without Redis, handlers and listener steps: the choices form a log, and records and
counts are what the log gives when each entry is applied once, in order, as a whole. A
removal always counts, because the handlers do not look at how many records it deleted.

`InteractionCache` implements it under the mapping at its end: an event leaves
the log when its record changes, and the counts it still has to add are added
already.  This holds only while the listener throws no exception and is not
restarted; `ListenerImplementsLog` (`InteractionCacheProofs`) proves it for every budget in which
those two faults are 0, whatever else fails.  The proof carries
`ListenerFaultless` (both are still 0, an instance of `Over`) beside `TypeOK` and `OldestExists`; every
handler's step is a `Choose` or a stutter, every step of the listener an `Apply` or
a stutter.  The run `settle` checks the same formula.

## 5. AuthTokens

**State.**  `row` is the account in MySQL; `version`, `keys`, `blocked` are the
Redis keys of the token version, the one-time refresh keys and the blocked
tokens; `verOf[j]` is the version inside pair `j`.  `op`, `tok`, `read`, `new` are
locals of the handlers.  `floor`, `out`, `late`, `uses` are history: what was
revoked by an answered request, logged out, presented too late, refreshed.

**Actions and code.**  `Begin` with `FirstStep`: the entry of `Login`,
`RefreshToken`, `Logout`, `ChangePassword`, `DeleteUser`, `UpdateProfile`,
`UpdateUserStatus`.  `FindUser`, `CheckBlocked`, `CheckKey`, `StoreKey`,
`SetVersion`, `DeleteOldKey`: the commands of issuing a pair.  `BlockTokens`,
`DeleteKey`: logout, whose Redis errors are ignored.  `UpdateUser`: the generated
`Update` writes every column as it was read.  `Fail`: any early return, error or crash;
it is always possible, so properties hold whatever fails.  `Accepted` is the
gateway's `auth.go`.

`LogoutNamesUser` is what the gateway decides: its logout path skips
authentication, so user-rpc gets no user id and does not increment the version.
With TRUE the model is user-rpc called with a user id, which it also supports.

**Runs.**

* `tokens_overlap` (2 handlers, 2 pairs, logouts as the gateway sends them, one
  ignored Redis error, one restart): requests overlap freely, except that
  at most one writes the account's row.  `RevokedNeverRefreshes` holds although the
  three defences (version in MySQL, block key, one-time key) each may be missing.
  One version step is enough to make a token stale.
* `tokens_alone` (1 handler, 3 pairs, 2 versions): what sequential clients see,
  with failures between any two commands: `RevokedNeverAccepted`,
  `CurrentTokensWork`, `RefreshBounded`, and the two properties of `Gateway`.

**Proved** (`AuthTokensProofs`), from `TokenAssumption`. The first two have no
restriction on what overlaps; the others say what they need of `Exclusive`, because
writers of a row overwrite each other's columns (section 14):

* `TokensTypeCorrect`: with `HandlersOK` (what a handler holds at each step) and
  `PairsOK` (a pair nobody drew has no key, was not issued, has no use), since
  `read[p].ver` is a number only when `p` has read the row.
* `RefreshIsBounded`: one refresh token serves at most one refresh per handler
  plus one per ignored error.  `ReuseInv` counts for each token the refreshes done
  and the handlers past its test (`Pending`): while the key exists only ignored
  DELs can have let a use happen, and once it is gone no handler joins.  README.md
  of the repository says a refresh token works once; this is what EXISTS followed
  by DEL gives instead.
* `RevokedTokensNotRefreshed`: `RevokedNeverRefreshes`, if the requests that write the
  row do not overlap with each other (`RowWriters \subseteq Exclusive`) and at most one
  Redis error is ignored; logins, refreshes, logouts, failures and restarts of Redis may
  come in between.  `RowInv` says that the version in the row never falls back: nobody
  holds a row older than it, and no pair is newer.  `LateInv` says of each token that was
  logged out or revoked what still refuses it: the version, the block key, or the
  missing one-time key; a logout can lose one of these by the ignored error, not two.
* `RevokedTokensRefused` and `CurrentTokensAccepted`: `RevokedNeverAccepted` and
  `CurrentTokensWork`, if the requests that issue pairs or write the row do not overlap
  with each other.  `SerialInv`: a version in Redis is at least `floor`, and that of the
  row as soon as a pair of this version is out; what an issuer read is still the row's
  version when it writes.
* `RevokedTokensActAsNobody`: `RevokedActsAsNobody` of `Gateway`, which follows from
  `RevokedNeverAccepted` for every route.
* `RoutesServe`: `RouteAnswers` of `Gateway`, its part about current tokens under the
  assumption of `CurrentTokensAccepted` (section 6).

## 6. Gateway

What becomes of a request with an access token, in a state of `AuthTokens`: the
gateway's table of routes (`routes.go`) with those it hands to platform-java, the open
paths (`auth.go`, `gateway.yaml`), and platform-java's controllers with the paths its
interceptors leave out (`WebMvcConfig.java`).  `Answer` says whether the request is
served, refused or not found, `UserOf` for whom the services behind take it.  Paths
are sequences of segments.

Both programs keep such lists, and `RouteAnswers` says how they fit.  A route the gateway
leaves open serves everybody, whatever token comes along and whether Redis answers, and
every other one the holder of a current token.  The other way round they do not fit:
platform-java counts `/admin/auth` and `/api/common` among the paths without a login, and
the gateway demands a token there.  `Locked` are the forwarded routes for which they
differ; `RouteAnswers` says that these are all of them, and that who has no token is
told to log in, on the administrators' login as well (section 14).
`RevokedActsAsNobody` says that a revoked token stands for nobody, on open routes as on
others.  Both are invariants of the run `tokens_alone`, and both are proved
(`AuthTokensProofs`).

The first rests on a comparison of the two tables, `KindsFit`: platform-java has a handler
for each route it is handed (`ForwardedHandled`), none of them is the logout
(`LogoutNotForwarded`), and one the gateway leaves open is one whose login
platform-java's interceptors do not ask for.  The last is the one that is easily lost,
because both programs describe open paths by lists and patterns of their own.  No
forwarded path falls under a pattern of the gateway (`ForwardedClear`: none lies under
`/api/auth/`, or under `/api/user/` with `profile` at its end), so an open one is on its list
(`ForwardedKept`); and each path of that list is one that the interceptors exclude
(`PublicAtJava`).  `LockedRoutes` compares in the other direction: a path on
platform-java's own list of open paths is on the gateway's too, so a locked one is left out
by the interceptors; and no path under their two prefixes is on the gateway's list, since its
paths have another second segment (`PublicSecond`, `ClearUnder`).  What is left is the token:
`RoutesFollowTokens` turns `CurrentTokensWork` into the last part of the first half of `RouteAnswers`.

## 7. Accounts

**State.**  `rows` are the users in MySQL, `code` and `limit` the Redis keys
`verify:code:<scene>:<email>` and `verify:limit:...`; `pc`, `req`, `read`, `drawn` the
handlers' locals.  `mailed`, `latest`, `unstored`, `spent`, `late`, `grants` are
history: what reached a mailbox, what was stored last, which codes an answered request
deleted, and under which code a row was written.

**Actions and code.**

| Actions | Code |
|---|---|
| `TakeLimit`, `SendMail`, `GiveLimitBack`, `StoreCode` | `sendEmailCodeLogic.go`: SETNX of the limit, mail, SETEX of the code |
| `CheckCode`, `CheckOwner`, `Insert`, `WriteTokens` | `registerLogic.go` |
| `FindUser`, `UpdateUser` | `resetPasswordLogic.go`, `bindEmailLogic.go`, `user_delete_shared.go`: whole rows |
| `DeleteCode` | the DEL at the end of each |
| `ExpireCode`, `ExpireLimit`, `Fault` | expiry; a command that returns an error |

A row written is compared with the unique key `uk_email`; that of a deleted user has no
address.  Codes are drawn without repetition; that a random code is guessed or drawn
twice is left out.

**Run.**  `accounts` (one registered user, one free id, two addresses, two codes, two
handlers, one failure; a code may be presented for another purpose than it was mailed
for): `OnlyMailedCodes`, `SpentCodesRefused`, `StoredIsLatest`,
`OneAccountPerEmail`.  Two handlers are the races of two registrations, of a
registration with a binding and of a request with a send; a code left over from an
earlier one needs two codes.

**Proved** (`AccountsProofs`), from `AccountAssumption`, for any users, addresses, codes,
handlers and requests and any number of failures; each invariant on top of `TypeInv`:

* `AccountTypes`: with `Phases`, what a handler holds at each step (a row it has read, a
  user that exists, a code that was mailed for its purpose), and `CodesMailed`, that every
  code in Redis was mailed for its key.
* `EmailsUnique` is `OneAccountPerEmail`: only `Insert` and `UpdateUser` write rows, and
  both are decided by the unique key, whatever the handler found before.
* `CodesMailedFirst` is `OnlyMailedCodes`: from `CheckCode` on a handler's code is one that
  was mailed for its key (`Proven`).
* `LastCodeStored` is `StoredIsLatest`.  `LatestInv` strengthens it: at most one handler
  sends for a key, it holds the limit key, and a stored code that is not the last one is
  about to be overwritten or known to be old.  This rests on the limit key lasting longer
  than a mail and a SETEX, which is a guard of `ExpireLimit`.
* `SpentCodesStaySpent` is `SpentCodesRefused`.  `SpentInv` strengthens it: a code is
  mailed for one key, and nobody has used it, or spent it, before it is stored; otherwise
  a late SETEX could bring it back.

## 8. Comments

**State.**  `docs` are the comments of one post in MongoDB (root, reply count,
deleted text), `commentCount` the post's count, `queue` the comment queue, `step`
where the listener stands, `notified` the notifications sent.  `pc`, `op`, `id`,
`parent`, `root` are the handlers' locals.  `harm` counts faults, `refused` events
RabbitMQ refused while a comment was created.

**Actions and code.**  `BeginCreate` ... `UndoCount` are `CreateComment`: parent,
`$inc` of the root, insert, publish, and the rollback when publishing fails.
`BeginDelete` ... `PublishDelete` are `DeleteComment`: a root only changes its
text.  `CountComment` ... `UncountReply` are `CommentEventListener`, with the AI's
answer, for which nothing is published.  `RequestFails`, `HandlerDies`, `AnswerFails`,
`Redeliver` are faults.

**Runs.**  `comments_counts`: four comments (two of a reader, one of the post's author,
one of the AI), two handlers, one fault anywhere and one refused event.
`CountFollowsComments` and `RepliesCounted` say that in quiet moments each count is off
by the number of faults at most: a refused creation costs nothing, since it is rolled
back, and each fault costs at most one. `EveryCommentListed` says that the two lists
(`RootList`, `SubList`, from `list_root_comments_logic.go` and
`list_sub_comments_logic.go`) show every comment once at all times, and that the
previews below a root are empty only where there are no replies. Four comments give a
root, a reply, a reply to the reply and the AI's answer. With `Overlap = FALSE` a
request does not name a comment another one is working on; section 14 says what happens
with overlap.

Two assumptions: the queue delivers what comment-rpc publishes to
`handleCommentEvent` (it sets no type header, so this rests on the converter of
Spring AMQP), and an exception that leaves the listener means redelivery, because
`rabbitListenerContainerFactory` (`RabbitConfig.java:198-212`) is built by hand
and takes no retry or requeue settings from the configuration file.

**Proved** (`CommentsProofs`), from `CommentsAssumption`, while no two requests work on
one comment (`Overlap = FALSE`), for any comments, handlers, faults and refusals:

* `TypeInvHolds`: the types with what everybody knows of a comment: a handler's comment
  is its own and its parent and root are there (`HandlersOK`), roots are never removed
  while somebody counts on them (`DocsOK`), and the queue has of each comment at most one creation and one
  deletion, in this order (`QueueOK`).
* `CountFollows`: `CountFollowsComments`.  `CountInv` says it of every moment: the count,
  with the comments that are published and not yet counted and the AI's answer that is
  inserted and not counted, is the number of comments that are there or that were removed
  and are still counted, within `harm`.
* `RepliesFollow`: `RepliesCounted`, by `RepliesInv`, the same balance for each root, with
  replies whose `$inc` is ahead of their insertion or of their rollback.
* `CommentsListed`: `EveryCommentListed`, from the types: the parent's root is a root that
  stays.

## 9. PostIndex

**State.**  `post` is the post in MongoDB, a text standing for all its author can
change; `comments` its comments; `es` the text of its document in Elasticsearch,
if there is one.  `queue` is the sidecar's queue, `at`, `ev`, `doc` are a worker's
next command, its event and the document it is about to write.  `pc`, `op`, `read`
are the locals of platform-java's handlers, `postQueue` and `step` the listener's
queue and position, `scan` and `page` those of a reindex.  `audit` is
`POST_AUDIT_ENABLE`, which both services read when they start, so it is chosen in
`Init`.  `shown`, `broken`, `slips` are history: which texts were ever published,
whether the index has missed a change, how many faults touched the comments.

**Actions and code.**

| Actions | Code |
|---|---|
| `FindPost`, `CreatePost`, `UpdatePost`, `TouchPost`, `DeletePost` | `PostServiceImpl.java:394-671`; each saves the whole document as it was read |
| `AuditPost` | `AdminServiceImpl.java:473-515`: sets the status in place; the event of a pass is published, that of a rejection acts on nothing |
| `Publish`, `PublishFails` | `MqPublisher.java`, after the save and outside any transaction |
| `Take` with `Route` | `consumer.go`, `Handle` of `sync_handler.go`: with auditing creations are skipped, without it passes |
| `LookUp`, `LookUpFails` | `handleUpdate`: MongoDB decides; an error decodes nothing, and a status of 0 means removal |
| `IndexEs`, `IndexAgain`, `DeleteEs`, `DeadLetter` | `indexEs`, `handleCreate`, `handleDelete`, Nack |
| `SidecarStops` | what was not acknowledged is delivered again, its last command executed or not |
| `BeginReindex` ... `ReindexFails` | `HandleReindexPosts`, `clearEsIndex`, `reindexPostsFromMongo` |
| `AutoComment`, `CountAutoComment`, `PurgeComments`, `ListenerFails` | `PostEventListener.java` |

One post is enough: no code relates two posts.  The only exception, the order of
the cursor of a reindex, is covered because the scan may reach the post at any
time between its other steps.

**Runs.**

* `index_settled` (1 handler, 1 worker, 3 texts, backlog 3, any two of seven kinds of
  faults): `IndexFollowsPost`, `OnlyPublishedTexts`, `CommentsCounted`,
  `DeletedLeavesIndex` and `ListsFitPages` (section 10).  It assumes what the
  code needs and does not enforce: requests wait for each other and for the listener
  (`Overlap`), only posts that wait for it are audited (`PendingOnly`), and a reindex
  runs while nothing else does (`QuietReindex`).  Losses are part of the statement:
  `broken` is set by a refused event, a dead letter, an error of MongoDB taken for a
  draft or a reindex that ends early, and only a complete reindex clears it.
  `DeletedLeavesIndex` needs weak fairness of the handler, the worker and the reindex:
  each is a thread or goroutine that is scheduled when it has something to do, and its
  commands time out.
* `index_comments`: section 14.

One worker finishes events in order; what several do is the subject of
`IndexShowsPublished` below, which holds for any number, and of section 14.  The backlog bounds how many
events wait, and an event does not name another.

**Proved** (`PostIndexProofs`), from `PostAssumption`, for any handlers, workers and
bounds, with every fault:

* `PostTypeCorrect`, which no run repeats.  `TypeOK` is carried by `KnownOK`: a handler that goes on with a
  post has read one, a busy worker has an event and its document is a text, a
  listener's event has a post.  A crash makes a sequence of events of
  what the busy workers held (`Redelivered`).
* `IndexShowsPublished`: `OnlyPublishedTexts`.  Its strengthening `ShownInv` adds what is
  in flight (`DocsShown`, `PageShown`), the post (`PostShown`) and, because an
  unaudited creation is indexed from its event, that every creation waiting,
  taken or not yet published carries a text that was published when it was saved
  (`QueueShown`, `TakenShown`, `SavedShown`).
* `CommentsAreCounted`: `CommentsCounted`, if requests wait for each other and for the
  listener (`Overlap = FALSE`).  `TurnInv` says that the one request at work has read the
  post as it is; `CountInv` is the balance of every moment, with a comment of the AI that
  is not yet counted and a clean-up that is still due.
* `IndexAgrees`: `IndexFollowsPost`, with one worker and under the three assumptions of
  the run `index_settled`, whatever fails.  `FollowInv` looks at the last event in flight
  that the sidecar does not skip, wherever it is (announced by a request, queued, with
  the worker): unless an event was lost it makes the index what the post is, or asks
  MongoDB, which does (`FitInv`); without any, the index is what the post is.
  `StatusInv` says that nothing waits for an audit without auditing, `QuietInv` that a
  reindex is alone.

## 10. Feed

Every place the post of `PostIndex` can be seen, as an operator of the reader: the
streams of platform-java (all, of a tag, of followed authors), the posts of a user, the
reader's own posts, likes, collects, ratings, history and comments, the hot tags,
search-rpc's results and suggestions, and for administrators the tabs, the page and
the ranking.  Each has its own query in `PostServiceImpl.java`, `UserServiceImpl.java`,
`AdminServiceImpl.java` or search-rpc.

`ListsFitPages` compares them with the page of the post (`getPostDetail`): what a list
shows its reader can open, as the text it has now, and a published post is on every
list for everybody.  Six lists do not ask for the status (`Unfiltered`); of them it asks
only that a deleted post is not shown.  Lists that read Elasticsearch are compared once
everything is handled and unless an event was lost.  `PagesCountAlike` compares the
number of comments of a search page with that of the post's page (section 14).

`ListsShowPages` (`PostIndexProofs`) proves `ListsFitPages` under the assumptions of
`IndexAgrees`: the property is no invariant of a list alone but follows from three others,
the types (a text is never the mark of nothing), `IndexFollowsPost` for the lists from
the index and `CommentsCounted` for the comments of a deleted post.

Paging, sorting, the words of a search and the ten seconds for which hot tags are
cached are left out.

## 11. Ratings

**State.**  `cache` is the hash `post:rate:<id>` with a field per user, `lock` the
warm-up lock, `stored` the records of `post_ratings`, `post` the average and count of
the post as an exact fraction, `seen` the post each consumer has read.  `latest`,
`raced` and `broken` are history.

**Actions and code.**  `LookAtCache` ... `EndWarmUp`: `ensureHashCacheLoaded`
(`common.go:347-449`), which writes one field per command. `SetScore`, `RemoveDummy`,
`Publish`: `ratePostLogic.go`. `FindOldRating`, `FindPost`, `SaveRating`,
`UpdateAverage`, `Notify`: `handleRate` and `updatePostRating` of the listener, whose
`NewAverage` divides as the code does, by a count that may be zero.

**Run.**  `ratings_settled` (2 users, one of whom has rated; scores 1 and 2; 2 handlers,
2 consumers, 3 ratings, one failure, crash or redelivery): `CountNeverAhead` holds
whatever overlaps; `AverageMatches` while consumers do not overlap and no step failed;
`SettledScores` unless a rating was set during a warm-up.  platform-java starts one
consumer, but nothing in the code relies on it, and `InteractionEventListener.java:210`
speaks of several.  As in section 3, all three hold while no rater is deleted: the sidecar
removes his record and leaves count and average (`user_handler.go:173-180`).

**Proved** (`RatingsProofs`), from `RatingAssumption`, for any users, scores, handlers,
consumers and faults:

* `RatingTypes`: `TypeOK`, the average a fraction of whole numbers whatever post a
  consumer has read.  Its strengthening `TypeInv` adds that a user has one request under
  way and that a consumer counts a rating only when it is stored.
* `CountsStored`: `CountNeverAhead`.  `CountInv`: the count with the ratings stored first
  by a consumer that has not yet counted them is at most the number of ratings; a
  redelivered first rating is no first one any more.
* `ScoresSettle`: `SettledScores`.  `ScoreInv` says that a user whose rating is on its
  way has a field in the hash (`CachedInv`), that the user's last score is with the handler
  that publishes it, else in his last event, else with the consumer, else stored
  (`OrderInv`), and that the hash is only filled while nothing is on its way, with last
  scores (`FillInv`).
* `AveragesMatch`: `AverageMatches`.  `AverageInv`: while events are handled one by one and
  no step fails, a consumer that is to save a score or to change the average has read the
  post as it is; the post's average and count are those of the stored scores, and while
  a consumer is at "average" those of the scores without its own (`Shows`), so that the
  division is never by zero.

The average is a sum over the raters, a fold whose value is a recursive function.  That it
exists, that it is the same in whatever order its members are taken and what one more score
adds to it (`SumsExist`, `SumsRemove`, `TotalStep`) is proved by induction over the size of
the set.  The library's induction theorems take a predicate the provers cannot instantiate;
`NatInd` states induction for a *set* of numbers instead, from `WFMin`: a set of numbers
has a smallest one.

## 12. Notifications

**State.**  `docs` are the documents of all receivers, `indexed` whether the partial
unique index exists, `call` the upsert each caller has under way, `doomed` the ids a
clean-up has still to delete.  `sent`, `pending`, `written`, `disturbed` are history.

**Actions and code.**  `Save` is `NotificationRpcClient.java`: states are upserted
(`Upsert`, then `Match`, or `Miss` and `Insert`, because MongoDB's upsert finds and
inserts without a lock), comments and messages created (`Create`).  `MarkBatchRead`,
`MarkAllRead`; `Aggregate` and `Delete` for the clean-up; `Restart` for
`ensureNotificationIndexes`.  `Page` and `Unread` are what receivers see.

**Run.**  `notifications` (two state keys and one of the history, two receivers, three
old documents of which two are duplicates; two callers, three notifications, two
clean-ups, two failures or restarts): `ImplementsInbox`, `HistoryComplete`, `NeverLost`,
`UnreadKept`.  The run has the old duplicates removed, the index built by a restart and
two upserts of one new state overlapping after it, which is where a missing unique index shows. Callers and operator may stop for good, so deadlock is not checked. Two
pages need three documents of one receiver, which the bounds allow.

**Proved** (`NotificationsProofs`), from `NotificationAssumption`, for any keys, callers,
clean-ups, page sizes and old documents:

* `NotificationTypes`: types, and that ids are never reused: every document, upsert under
  way and deletion to come has one below the next (`IdsInv`, `CallOK`, `CleanOK`).
* `StateKeysUnique`: `StateKeyUnique`, by `UniqueInv`: with the index no two documents have
  one state, since only `Insert` adds one, and asks the index.  No run repeats it, as
  the refinement contains it.
* `UpsertsAreAtomic`: `ImplementsInbox` (below), on top of `UniqueInv` and `QuietInv`: where
  the index exists nobody has anything to delete.
* `HistoryStays`: `HistoryComplete`, from `HistoryInv` (a document per notification sent) and a lemma on pages: cutting any finite list into pages of
  any size puts each document on one page.
* `StatesNeverLost`: `NeverLost`, for one clean-up at a time.  `LostInv`: of the documents
  of a state that was written, one is not doomed.  With two clean-ups it is false: one
  dooms an old document, an upsert refreshes it, the other dooms the then older ones.
* `RepetitionsUnread`: `UnreadKept`, for any number of clean-ups.  `KeptInv`: the
  document of the last occurrence is unread, the only latest of its state, and doomed by
  nobody, unless a write overlapped a clean-up or a later write of the state.

**Inbox** is the abstract specification: what receivers and senders may rely on once the
index exists.  A state has one notification, with an id that does not change; what is sent
waits, and is stored at one instant, unread and as a whole, or lost; marking changes the
receiver's own boxes only.  There are no upserts of two commands, no clean-ups and no
restarts.  Before the index exists it allows anything (`Unguarded`), but lets it begin only
with boxes of at most one notification.  `Notifications` implements it under the mapping at
its end, which takes the box of a state to be its documents: `Match` and a successful
`Insert` are the instant of storing (`BoxStores`), a miss or a refused insertion is
none, marking a set of ids is seeing some boxes (`BoxSees`), a failure or restart
loses what waits, and a clean-up does nothing, because `QuietInv` leaves it nothing to do.

## 13. Topology, Profiles, Relations

`Topology` is the exchange: the bindings of both programs, the key of each class of
events and the classes each consumer handles.  `RoutesFit` is an assumption TLC
evaluates: every event reaches all who handle its class, and no listener that would
throw at it.

`Profiles` **state**: `row` the names in MySQL, `docs` the copies in five kinds of
documents of MongoDB, `es` those of the index, `outbox`, `queue`, `esQueue` the events
under way, `worker` and `task` what the sidecar's workers and the writers of documents
are at.  `missed` and `esMissed` are history: whose copies something overlapped.

| Actions | Code |
|---|---|
| `Rename`, `DeleteUser`, `Publish`, `PublishFails` | `updateProfileLogic.go`, `user_delete_shared.go`, `publisher.go` |
| `Take`, `Run`, `StatementFails`, `Dies` | `user_handler.go`, one statement at a time, in its order |
| `RenameIndexed`, `RenameIndexedFails` | `handleESUserUpdate` of `sync_handler.go` |
| `CreatePost`, `UpdatePost`, `CreateComment`, `FindParent`, `Save`, `Reread`, `Index` | the writers of posts and comments, which read a name first and write it later |
| `FollowUser`, `PublishFollow`, `HandleFollow`, `UnfollowUser` | `UserServiceImpl.java:284-353`, `sendFollowNotification` |

`Relations` has the lists, counts, buttons and search results that show follow
relations, and the administrators' two pages of users.  What its queries ask for beyond
`Profiles` are parameters: `enabled`, the users with status 1, which profile and search
require; `removed`, the deleted posts, which the administrators' list leaves out of its
counts; and the constant `Admins`, whom this list does not show.  `RelationsFit` holds for
every `enabled` and `removed`.  It says that lists, counts and buttons agree at all times,
and that when all is handled the lists show nobody who is deleted, and whoever they
show is found by the search under the same name exactly if he has a profile.  A user an
administrator disabled has none and is not found, but stays on the lists (section 14).

**Run.**  `profiles` (one of two users changes the name or is deleted, one worker per
queue, two writers, two documents, one fault): `NamesSettle`, `IndexNamesSettle`,
`DeletedLeaveNothing`, `FollowedOnce`, `RelationsFit`.  The properties are stated for
users whose changes overlapped nothing, because the code has no versions; how each
exception comes about is the content of `missed`.  A second change of the same user always
overlaps or follows the first, so one is enough for what the properties promise.  Users and
writers may stop, so deadlock is not checked.

**Proved** (`ProfilesProofs`), from `ProfileAssumption`, `OldDocsFit` and `RoutesFit`, for
any users, names, workers, tasks, documents of before, changes and faults.  `OldDocsFit` says
what the documents of before must be: they have the first names, no relation is there
twice, and whoever is followed was told so.

* `ProfileTypes`: the types.  `TypeInv` adds that a worker's statement is one of its event's
  plan, that documents have the shape their writer gives them (`Shaped`), and that the
  tasks which insert have ids of their own.
* `NamesAreCopied`: `NamesSettle`.  The property speaks of the end only; `NamesInv` says of
  every moment that the events of a user nothing overlapped all carry the name of now, and
  that each statement of their plan (`Plan`) is still to come (`ToDo`) or would change
  nothing in any document, written or about to be (`Fits`, `Held`).  The order of
  the statements is needed once: an answer takes a name from the comment it answers, so
  comments must be corrected by author before they are corrected by whom they answer. A
  crash starts the plan again, which only makes more statements to come.
* `DeletedAreGone`: `DeletedLeaveNothing`, from the same invariant: a statement that deletes
  must find nothing.
* `IndexNamesAreCopied`: `IndexNamesSettle`.  `IndexInv`: for an author nothing overlapped,
  no post is written while an event of his name is under way, and the indexed names are
  right or such an event is in front of the search queue.
* `FollowersAreTold`: `FollowedOnce`.  `Unique`: no relation and no notification is there
  twice. `FollowInv`: whoever is followed has the notification, or the task or event that
  will write it exists (`Telling`); of notifications only those to deleted users are
  removed, which `NamesInv` tells.
* `PagesFit`: `RelationsFit`, from `Unique`, `Shaped` (nobody follows himself) and
  `NamesInv`.  `PagesAgree` has what holds at all times, `AdminAgrees` the administrators'
  pages, `QuietPages` the end: a card on a list bears the name MySQL has and its user is not
  deleted (`QuietCards`), so that both search and profile depend on his status alone.

## 14. Where code and documentation disagree

The run `index_comments` ends with a counterexample to `PagesCountAlike`: the
statistics of a search page are asked for with strings, which MongoDB does not find
among its ObjectIDs (`batchPostStatsLogic.go:118`), so every search page says that its
posts have no comments and ratings, and the page of a post shows no ratings
(`getPostDetailLogic.go:92`).

Met while modelling, without a run of their own:

* The last unlike deletes the key before the dummy is added (`unlikePostLogic.go:38`); a
  reader in between warms from MongoDB, which lags, and the like stays in Redis.
  README.md:180 says that Redis and store become consistent.  Without a resident liker
  `SettledAgreement` is violated.
* A login or refresh writes the version it read earlier over a newer one
  (`loginLogic.go:72`, `refreshTokenLogic.go:103`); revoked access tokens are accepted
  again, against README.md:156.  With two handlers `RevokedNeverAccepted` is violated.
* JSON says `replyToUserId: 0` for a root comment; the listener tests for null and
  notifies user 0, never the post's author (`CommentEventListener.java:276`, `288`).
* The event of a new post is indexed without asking MongoDB; a worker overtaken by the
  others puts the text of a changed or deleted post back, where it stays (README.md:240,
  docs/intern.md:139).  With two workers `IndexFollowsPost` is violated.
* After Redis loses the Bloom filter, the next like of any target recreates it
  without the others (`common.go:510`), whose likes are then hidden; the comment at
  `common.go:39` says that warm-up is the fallback.
* The access token outlives an answered logout: the gateway's logout path passes on no
  user (`auth.go:51`), user-rpc skips the version (`logoutLogic.go:57`);
  README.md:154 says that logout increments it.
* Overlapping deletions of a reply publish two events and the counts lose two
  (`delete_comment_logic.go:88`; README.md:191 says that no decrement is repeated).
* A rollback of a root removes it although another user may have answered it
  meanwhile (`create_comment_logic.go:130`): the answer has no root.  With `Overlap`
  TRUE and one refused event, `EveryCommentListed` is violated.
* The key may expire between the warm-up and SADD (`likePostLogic.go:34-49`): the
  new set has one member and counts as complete until it expires again.  This is
  why `WarmSetIsExact` assumes `QuietExpiry`.
* Two refreshes that overlap both succeed (`refreshTokenLogic.go:80`, `107`);
  `RefreshBounded` states what is left.
* Writers of one account overwrite each other's columns, the token version
  included (`usersmodel_gen.go`, `Update`); `tokens_overlap` excludes it.
* An error of MongoDB makes the sidecar remove a published post from the index
  (`sync_handler.go:176`; the branch at 179 is never reached), where only a reindex
  puts it back.
* A post that is rejected after it was published stays in the index
  (`AdminServiceImpl.java:507`): with `PendingOnly` FALSE, `IndexFollowsPost` is
  violated.
* Overlapping requests on one post save what they read (`PostServiceImpl.java:665`): an
  update may revive a deleted post.  An administrator may pass a text he has not
  read, if it changed meanwhile (`AdminServiceImpl.java:487`).
* A warm-up of the ratings writes what it read from MongoDB over a score that was set
  meanwhile (`common.go:437`); the hash shows the older one for a day.
* A first rating that was stored but not counted leaves a count of zero by which the
  user's next rating divides (`InteractionEventListener.java:235`): the average is lost
  for good.
* A clean-up of duplicates may delete a notification that was refreshed after it was
  chosen (`clean_duplicate_notifications_logic.go:98`); an older one stays, possibly
  read.
* The notification of a liked comment has the post as its target, so the likes of two
  comments of one author share a key (`InteractionEventListener.java:349`).
* The search queue is not bound to `user.delete` (`config.go:63`): the index keeps the
  name of a deleted user.  Notifications a deleted user sent are looked for by a field
  they do not have and stay (`user_handler.go:175`).
* platform-java leaves `/admin/auth/**` and `/api/common/**` open
  (`WebMvcConfig.java:36-42`; `AdminController.java:88` says that the password is reset
  without a login), but the gateway has no such pattern (`gateway.yaml:52-60`) and asks
  for a token: behind it administrators cannot log in or reset a forgotten password, and
  nobody uploads without a login.  `RouteAnswers` states it.  The token an
  administrator gets is made by platform-java's own `JwtUtil`, without the version the
  gateway looks for.
* A user an administrator disabled (`updateUserStatusLogic.go`) stays on the lists of
  followed users, fans and friends, has no profile (`getPublicProfileLogic.go:41`) and is
  not found (`UserServiceImpl.java:579`).  One who is deleted has a profile again when his
  status is set to 1, because neither query asks whether he is deleted.
* The sidecar removes what a deleted user liked, collected and rated
  (`user_handler.go:166-180`) and lowers no count; its comment (line 167) accepts that counts
  are too high then.  Redis keeps his marks and scores until the key expires.  The
  properties of `InteractionCache`, `LikeLog` and `Ratings` that compare records with
  counts or with Redis (`NoOvercount`, `SettledAgreement`, `StoreCatchesUp`,
  `CountNeverAhead`, `AverageMatches`, `SettledScores` and others) hold only while no user
  who marked the target is deleted.
* comment-rpc accepts a comment for a post that is deleted
  (`create_comment_logic.go:54` does not ask); nothing cleans it up.
* The stream of a tag and the lists of marks do not ask for the status and show drafts and
  rejected posts; the list of a user's comments names deleted posts until the listener
  has cleaned up.
* Suggestions may be fourteen where the comment speaks of ten; the cached hot tags do
  not have the limit in their key.
* platform-java has a second full reindex (`DataSyncController.java`), which nothing
  keeps from running beside the sidecar's.
* Views counted between the reading and the deleting of the buffer are lost
  (`PostViewSyncTask.java:60` says so).

## 15. What is only model-checked, and what is not modelled

Proved for every value of the constants (under the conditions named above where a
theorem has any): the types of `InteractionCache`, `AuthTokens`, `Accounts`, `Comments`,
`PostIndex`, `Ratings`, `Notifications` and `Profiles`; every safety invariant of these
modules; `RelationsFit` of `Relations`, `ListsFitPages` of `Feed` and both invariants of
`Gateway`; the refinements of `LikeLog` and `Inbox`; and `RequestsReturn`, given `NoHandlerStuck`.

Checked by TLC only, within the bounds above:

* `NoHandlerStuck`, stated with ENABLED, of which the provers know nothing;
* `RequestsReturn` with patient waiters, `StoreCatchesUp` and `DeletedLeavesIndex`.  An
  answer is at most fourteen steps away, a number `RequestsAnswered` can count down in
  a proof; the events before one in a queue are any number, and induction over it needs
  a temporal formula as the predicate, which the provers cannot instantiate.

Not modelled:

* the removal of a deleted user's likes, collections and ratings in `InteractionCache` and
  `Ratings` (sections 3 and 11 say what it breaks), and comments on deleted posts in
  `PostIndex`;
* the order of notifications of one moment: `list_notifications_logic.go:52` sorts by
  `createdAt` alone, and `Page` takes two of the same time in the order of their ids;
* status, roles and deleted posts as state of `Profiles`: `Relations` takes any;
* the audit log and the notices an author gets of an audit or a deletion
  (`PostAuditListener.java`, `handleAdminDeleteLogAndNotify`): records that are inserted
  once and only displayed;
* statistics of the day, operation logs and their export, the sidecar's log queue, the view
  counter and browsing history, the history of searches;
* code no route or caller reaches any more: `AuthServiceImpl.java`,
  `PostServiceImpl.searchPosts`, the profile and password methods of
  `UserServiceImpl.java`, `AdminServiceImpl.getHotTagStats`, the gateway's
  `listPostsLogic.go`;
* uploads, the AI's texts, the filter of sensitive words, the scores and highlighting of
  a search;
* the copying of fields between answers in gateway-api, generated RPC code, metrics,
  tracing and logging.
