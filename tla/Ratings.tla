------------------------------ MODULE Ratings -------------------------------
(***************************************************************************)
(* The ratings of one post: interaction-rpc, which keeps the score of each *)
(* user in a Redis hash, and the listener of platform-java, which stores   *)
(* the scores in MongoDB and keeps the post's average and count.           *)
(*                                                                         *)
(* The hash is warmed like the sets of InteractionCache, but one field at  *)
(* a time, and a field is overwritten by whoever writes it last.  The new  *)
(* average is computed from the average and count the listener has read.   *)
(*                                                                         *)
(* One action is one command.  Scores are whole, the average is an exact   *)
(* fraction, and the Bloom filter, which no step of a rating reads, is     *)
(* left out.                                                               *)
(***************************************************************************)
EXTENDS Integers, FiniteSets, Sequences, FiniteSetsExt

CONSTANTS
    Users,
    Scores,      \* the scores a user may give
    Dummy,       \* the field of a hash without ratings
    None,
    Procs,       \* request handlers of interaction-rpc
    Consumers,   \* threads of the listener
    Residents,   \* Residents[u]: the score stored before the run, or None
    MaxRatings,  \* bound: requests
    MaxFaults    \* bound: errors and crashes

Event == [user : Users, score : Scores]

ASSUME RatingAssumption ==
    /\ IsFiniteSet(Users) /\ IsFiniteSet(Consumers)
    /\ Dummy \notin Users
    /\ Scores \subseteq Nat \ {0} /\ None \notin Nat \cup Procs \cup Event
    /\ Residents \in [Users -> Scores \cup {None}]
    /\ MaxRatings \in Nat /\ MaxFaults \in Nat

Fields == Users \cup {Dummy}
Steps == {"idle", "exists", "setnx", "wait", "double", "find", "fill", "expire",
          "hset", "hdel", "publish"}
ListenerSteps == {"idle", "rating", "post", "save", "average", "notify"}

\* ratingAverage and ratingCount of a post: the average is num / den.  A den of
\* zero is the result of a division by zero.
Post == [num : Int, den : Nat, count : Nat]

VARIABLES
    cache,     \* cache[f]: field f of the hash, None: no such field
    lock,      \* the handler whose warm-up lock is in Redis
    pc,        \* pc[p]: the next command of p
    req,       \* req[p]: the rating p serves
    snap,      \* snap[p]: the scores p has read to fill the hash with
    queue,     \* events RabbitMQ holds, oldest first
    lpc,       \* lpc[c]: the next step of consumer c
    event,     \* event[c]: the event c handles
    old,       \* old[c]: the stored score c has read
    seen,      \* seen[c]: the post c has read
    stored,    \* stored[u]: u's record in post_ratings
    post,      \* the post's average and count
    notified,  \* users whose first rating the author was told of
    latest,    \* latest[u]: the last score written for u by a request (history)
    raced,     \* a rating was written while a handler filled the hash (history)
    broken,    \* a command failed, or two consumers were at work (history)
    requests,  \* requests so far
    faults     \* errors and crashes so far

handlerVars  == <<pc, req, snap>>
listenerVars == <<lpc, event, old, seen>>
historyVars  == <<latest, raced, broken>>
vars == <<cache, lock, handlerVars, queue, listenerVars, stored, post, notified,
          historyVars, requests, faults>>

TypeOK ==
    /\ cache \in [Fields -> Scores \cup {0, None}]
    /\ lock \in Procs \cup {None}
    /\ pc \in [Procs -> Steps]
    /\ req \in [Procs -> Event \cup {None}]
    /\ snap \in [Procs -> [Users -> Scores \cup {None}]]
    /\ queue \in Seq(Event)
    /\ lpc \in [Consumers -> ListenerSteps]
    /\ event \in [Consumers -> Event \cup {None}]
    /\ old \in [Consumers -> Scores \cup {None}]
    /\ seen \in [Consumers -> Post \cup {None}]
    /\ stored \in [Users -> Scores \cup {None}]
    /\ post \in Post
    /\ notified \subseteq Users
    /\ latest \in [Users -> Scores \cup {None}]
    /\ raced \in BOOLEAN /\ broken \in BOOLEAN
    /\ requests \in Nat /\ faults \in Nat

Raters(s) == {u \in Users : s[u] # None}
Total(s)  == MapThenSumSet(LAMBDA u : s[u], Raters(s))
Nothing   == [u \in Users |-> None]

Init ==
    /\ cache = [f \in Fields |-> None] /\ lock = None
    /\ pc = [p \in Procs |-> "idle"]
    /\ req = [p \in Procs |-> None]
    /\ snap = [p \in Procs |-> Nothing]
    /\ queue = <<>>
    /\ lpc = [c \in Consumers |-> "idle"]
    /\ event = [c \in Consumers |-> None]
    /\ old = [c \in Consumers |-> None]
    /\ seen = [c \in Consumers |-> None]
    /\ stored = Residents
    /\ LET n == Cardinality(Raters(Residents))
       IN  post = [num |-> Total(Residents), den |-> IF n = 0 THEN 1 ELSE n, count |-> n]
    /\ notified = {}
    /\ latest = Residents
    /\ raced = FALSE /\ broken = FALSE /\ requests = 0 /\ faults = 0
-----------------------------------------------------------------------------
(* RatePost. *)

Exists == \E f \in Fields : cache[f] # None
GoTo(p, step) == pc' = [pc EXCEPT ![p] = step]

Begin(p, u, s) ==
    /\ pc[p] = "idle"
    /\ requests < MaxRatings
    /\ \A q \in Procs : req[q] # None => req[q].user # u
    /\ requests' = requests + 1
    /\ req' = [req EXCEPT ![p] = [user |-> u, score |-> s]]
    /\ GoTo(p, "exists")
    /\ UNCHANGED <<cache, lock, snap, queue, listenerVars, stored, post, notified,
                   historyVars, faults>>

\* Commands of the warm-up that change nothing but the handler's place.
LookAtCache(p) ==
    /\ \/ pc[p] = "exists" /\ GoTo(p, IF Exists THEN "hset" ELSE "setnx")
       \/ pc[p] = "wait" /\ GoTo(p, IF Exists THEN "hset" ELSE "double")
    /\ UNCHANGED <<cache, lock, req, snap, queue, listenerVars, stored, post, notified,
                   historyVars, requests, faults>>

TryLock(p) ==
    /\ pc[p] = "setnx"
    /\ IF lock = None THEN lock' = p /\ GoTo(p, "double")
       ELSE UNCHANGED lock /\ GoTo(p, "wait")
    /\ UNCHANGED <<cache, req, snap, queue, listenerVars, stored, post, notified,
                   historyVars, requests, faults>>

\* Leave the warm-up; who has the lock deletes its key, whose 10 seconds are
\* taken to be enough.
Leave(p) == lock' = IF lock = p THEN None ELSE lock

\* EXISTS under the lock, then the scores MongoDB has.
DoubleCheck(p) ==
    /\ pc[p] = "double"
    /\ IF Exists THEN Leave(p) /\ GoTo(p, "hset") ELSE UNCHANGED lock /\ GoTo(p, "find")
    /\ UNCHANGED <<cache, req, snap, queue, listenerVars, stored, post, notified,
                   historyVars, requests, faults>>

FindRatings(p) ==
    /\ pc[p] = "find"
    /\ snap' = [snap EXCEPT ![p] = stored]
    /\ GoTo(p, "fill")
    /\ UNCHANGED <<cache, lock, req, queue, listenerVars, stored, post, notified,
                   historyVars, requests, faults>>

\* One HSET per score, or HSETNX of the dummy when there is none.
FillCache(p) ==
    /\ pc[p] = "fill"
    /\ \/ /\ Raters(snap[p]) = {}
          /\ cache' = IF cache[Dummy] = None THEN [cache EXCEPT ![Dummy] = 0] ELSE cache
          /\ GoTo(p, "expire")
          /\ UNCHANGED snap
       \/ \E u \in Raters(snap[p]) :
            /\ cache' = [cache EXCEPT ![u] = snap[p][u]]
            /\ snap' = [snap EXCEPT ![p][u] = None]
            /\ GoTo(p, IF Raters(snap[p]) = {u} THEN "expire" ELSE "fill")
    /\ UNCHANGED <<lock, req, queue, listenerVars, stored, post, notified, historyVars,
                   requests, faults>>

EndWarmUp(p) ==
    /\ pc[p] = "expire"
    /\ Leave(p)
    /\ GoTo(p, "hset")
    /\ UNCHANGED <<cache, req, snap, queue, listenerVars, stored, post, notified,
                   historyVars, requests, faults>>

\* A handler found no hash and has not written all the scores MongoDB has.
Filling == \E q \in Procs : pc[q] \in {"find", "fill"}

SetScore(p) ==
    /\ pc[p] = "hset"
    /\ cache' = [cache EXCEPT ![req[p].user] = req[p].score]
    /\ latest' = [latest EXCEPT ![req[p].user] = req[p].score]
    /\ raced' = (raced \/ Filling)
    /\ GoTo(p, "hdel")
    /\ UNCHANGED <<lock, req, snap, queue, listenerVars, stored, post, notified, broken,
                   requests, faults>>

RemoveDummy(p) ==
    /\ pc[p] = "hdel"
    /\ cache' = [cache EXCEPT ![Dummy] = None]
    /\ GoTo(p, "publish")
    /\ UNCHANGED <<lock, req, snap, queue, listenerVars, stored, post, notified,
                   historyVars, requests, faults>>

\* The event of a rating carries its score.
Value(p) == req[p].score

Message(p) == [user |-> req[p].user, score |-> Value(p)]

\* Mutant: like the likes, only a first rating is published.
PublishFirst(p) ==
    /\ pc[p] = "publish"
    /\ queue' = IF stored[req[p].user] = None THEN Append(queue, Message(p)) ELSE queue
    /\ req' = [req EXCEPT ![p] = None]
    /\ GoTo(p, "idle")
    /\ UNCHANGED <<cache, lock, snap, listenerVars, stored, post, notified, historyVars,
                   requests, faults>>

\* The event goes out whether the score is new or not.
Publish(p) ==
    /\ pc[p] = "publish"
    /\ queue' = Append(queue, Message(p))
    /\ req' = [req EXCEPT ![p] = None]
    /\ GoTo(p, "idle")
    /\ UNCHANGED <<cache, lock, snap, listenerVars, stored, post, notified, historyVars,
                   requests, faults>>

\* A command returns an error, or the process dies at it: the request ends, and
\* an event not yet published is lost.  An error of HDEL is ignored.
HandlerFails(p) ==
    /\ pc[p] # "idle"
    /\ faults < MaxFaults
    /\ faults' = faults + 1
    /\ broken' = TRUE
    /\ \/ pc[p] = "hdel" /\ GoTo(p, "publish") /\ UNCHANGED <<req, snap, lock>>
       \/ /\ GoTo(p, "idle")
          /\ req' = [req EXCEPT ![p] = None]
          /\ snap' = [snap EXCEPT ![p] = Nothing]
          /\ Leave(p)
    /\ UNCHANGED <<cache, queue, listenerVars, stored, post, notified, latest, raced,
                   requests>>

\* The hash expires.  It lives for a day from its warm-up; here it does so only
\* when every score in it is stored.
Expire ==
    /\ Exists
    /\ queue = <<>>
    /\ \A p \in Procs : pc[p] = "idle"
    /\ \A c \in Consumers : lpc[c] = "idle"
    /\ cache' = [f \in Fields |-> None]
    /\ UNCHANGED <<lock, handlerVars, queue, listenerVars, stored, post, notified,
                   historyVars, requests, faults>>
-----------------------------------------------------------------------------
(* handleRate. *)

At(c, step) == lpc' = [lpc EXCEPT ![c] = step]

\* The event is acknowledged.
Done(c) ==
    /\ At(c, "idle")
    /\ event' = [event EXCEPT ![c] = None]
    /\ old' = [old EXCEPT ![c] = None]
    /\ seen' = [seen EXCEPT ![c] = None]

Receive(c) ==
    /\ lpc[c] = "idle" /\ queue # <<>>
    /\ event' = [event EXCEPT ![c] = Head(queue)]
    /\ queue' = Tail(queue)
    /\ At(c, "rating")
    /\ broken' = (broken \/ \E d \in Consumers : lpc[d] # "idle")
    /\ UNCHANGED <<cache, lock, handlerVars, old, seen, stored, post, notified, latest,
                   raced, requests, faults>>

FindOldRating(c) ==
    /\ lpc[c] = "rating"
    /\ old' = [old EXCEPT ![c] = stored[event[c].user]]
    /\ At(c, "post")
    /\ UNCHANGED <<cache, lock, handlerVars, queue, event, seen, stored, post, notified,
                   historyVars, requests, faults>>

FindPost(c) ==
    /\ lpc[c] = "post"
    /\ seen' = [seen EXCEPT ![c] = post]
    /\ At(c, "save")
    /\ UNCHANGED <<cache, lock, handlerVars, queue, event, old, stored, post, notified,
                   historyVars, requests, faults>>

\* Mutant: the collection has no unique index on user and post.
NoDuplicate(c) == TRUE

\* The unique index refuses the second first rating of a user.
Saved(c) == old[c] = None => stored[event[c].user] = None

\* An unchanged score and a refused first rating end the event.
SaveRating(c) ==
    /\ lpc[c] = "save"
    /\ IF old[c] = event[c].score \/ ~Saved(c) THEN Done(c) /\ UNCHANGED stored
       ELSE /\ stored' = [stored EXCEPT ![event[c].user] = event[c].score]
            /\ At(c, "average")
            /\ UNCHANGED <<event, old, seen>>
    /\ UNCHANGED <<cache, lock, handlerVars, queue, post, notified, historyVars, requests,
                   faults>>

\* The average of a post with total num * count / den after a change by d that
\* adds n ratings; nothing comes out of a division by zero again.
NewAverage(s, d, n) ==
    IF s.den = 0 \/ s.count + n = 0 THEN [num |-> 0, den |-> 0]
    ELSE [num |-> s.num * s.count + d * s.den, den |-> s.den * (s.count + n)]

\* Mutant: the old score is not taken off.
GainOnly(c) == event[c].score

\* The change of the total.
Gain(c) == IF old[c] = None THEN event[c].score ELSE event[c].score - old[c]

\* updatePostRating: the average is overwritten, the count is increased.
UpdateAverage(c) ==
    /\ lpc[c] = "average"
    /\ LET n == IF old[c] = None THEN 1 ELSE 0
           a == NewAverage(seen[c], Gain(c), n)
       IN  post' = [num |-> a.num, den |-> a.den, count |-> post.count + n]
    /\ IF old[c] = None THEN At(c, "notify") /\ UNCHANGED <<event, old, seen>> ELSE Done(c)
    /\ UNCHANGED <<cache, lock, handlerVars, queue, stored, notified, historyVars,
                   requests, faults>>

\* sendPostNotification, after a first rating.
Notify(c) ==
    /\ lpc[c] = "notify"
    /\ notified' = notified \cup {event[c].user}
    /\ Done(c)
    /\ UNCHANGED <<cache, lock, handlerVars, queue, stored, post, historyVars, requests,
                   faults>>

\* A step throws: the event is logged and acknowledged.  Or the process dies or
\* loses its connection, and the event is delivered again.
ListenerFails(c) ==
    /\ lpc[c] # "idle"
    /\ faults < MaxFaults
    /\ faults' = faults + 1
    /\ broken' = TRUE
    /\ queue' \in {queue, <<event[c]>> \o queue}
    /\ Done(c)
    /\ UNCHANGED <<cache, lock, handlerVars, stored, post, notified, latest, raced,
                   requests>>
-----------------------------------------------------------------------------
Rate(p) ==
    \/ LookAtCache(p) \/ TryLock(p) \/ DoubleCheck(p) \/ FindRatings(p) \/ FillCache(p)
    \/ EndWarmUp(p) \/ SetScore(p) \/ RemoveDummy(p) \/ Publish(p) \/ HandlerFails(p)

Listen(c) ==
    \/ Receive(c) \/ FindOldRating(c) \/ FindPost(c) \/ SaveRating(c) \/ UpdateAverage(c)
    \/ Notify(c) \/ ListenerFails(c)

Next ==
    \/ \E p \in Procs, u \in Users, s \in Scores : Begin(p, u, s)
    \/ \E p \in Procs : Rate(p)
    \/ \E c \in Consumers : Listen(c)
    \/ Expire

Spec == Init /\ [][Next]_vars
-----------------------------------------------------------------------------
(* Properties. *)

Settled ==
    /\ queue = <<>>
    /\ \A p \in Procs : pc[p] = "idle"
    /\ \A c \in Consumers : lpc[c] = "idle"

\* ratingCount never counts a rating that is not stored, nor one twice: events
\* that are redelivered, overlap or stop half-way.
CountNeverAhead == post.count <= Cardinality(Raters(stored))

\* Once everything is handled the average and the count are those of the stored
\* ratings, if events were handled one by one and no step failed.
AverageMatches ==
    Settled /\ ~broken =>
        /\ post.count = Cardinality(Raters(stored))
        /\ post.count > 0 => post.num * post.count = Total(stored) * post.den

CacheAgrees == \A u \in Users : cache[u] # None => cache[u] = stored[u]

\* ... and the hash shows each user what he gave last, unless he gave it while
\* somebody was filling the hash.
SettledScores == Settled /\ ~broken /\ ~raced => CacheAgrees /\ stored = latest
=============================================================================
