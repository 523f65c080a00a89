---------------------------- MODULE RatingsProofs ----------------------------
(***************************************************************************)
(* What Ratings guarantees for every set of users, handlers and consumers  *)
(* and any number of failures.                                             *)
(***************************************************************************)
EXTENDS Ratings, FiniteSetTheorems, WellFoundedInduction, TLAPS

-----------------------------------------------------------------------------
(* What handlers and consumers hold. *)

\* TypeOK but for the average, which starts as a sum over the old scores.
Types ==
    /\ cache \in [Fields -> Scores \cup {0, None}]
    /\ pc \in [Procs -> Steps]
    /\ req \in [Procs -> Event \cup {None}]
    /\ snap \in [Procs -> [Users -> Scores \cup {None}]]
    /\ queue \in Seq(Event)
    /\ lpc \in [Consumers -> ListenerSteps]
    /\ event \in [Consumers -> Event \cup {None}]
    /\ old \in [Consumers -> Scores \cup {None}]
    /\ stored \in [Users -> Scores \cup {None}]
    /\ post.count \in Nat
    /\ latest \in [Users -> Scores \cup {None}]
    /\ raced \in BOOLEAN /\ broken \in BOOLEAN

\* No two requests of one user are under way.
RequestsOK ==
    /\ \A p \in Procs : pc[p] = "idle" <=> req[p] = None
    /\ \A p, q \in Procs : req[p] # None /\ req[q] # None /\ req[p].user = req[q].user => p = q

ConsumersOK ==
    \A c \in Consumers : /\ lpc[c] # "idle" => event[c] # None
                         /\ lpc[c] = "average" => stored[event[c].user] # None

TypeInv == Types /\ RequestsOK /\ ConsumersOK

\* First ratings that are stored and not counted yet.
Uncounted == {c \in Consumers : lpc[c] = "average" /\ old[c] = None}

CountInv == post.count + Cardinality(Uncounted) <= Cardinality(Raters(stored))

(* Where u's last score is on its way to MongoDB. *)

Telling(u) == \E p \in Procs : pc[p] \in {"hdel", "publish"} /\ req[p].user = u
Queued(u)  == \E i \in 1..Len(queue) : queue[i].user = u
Handling(u) == \E c \in Consumers : lpc[c] \in {"rating", "post", "save"} /\ event[c].user = u
Pending(u) == Telling(u) \/ Queued(u) \/ Handling(u)

Held(u) == \E c \in Consumers : lpc[c] # "idle" /\ event[c].user = u

\* The hash does not expire before the score is stored and its event acknowledged.
CachedInv == \A u \in Users : Pending(u) \/ Held(u) => cache[u] # None

OneConsumer ==
    /\ \A c, d \in Consumers : lpc[c] # "idle" /\ lpc[d] # "idle" => c = d
    /\ \A c \in Consumers : lpc[c] \in {"post", "save"} => old[c] = stored[event[c].user]

\* The last score is with the handler that publishes it, else the last event of the
\* user, else with the consumer, else stored.
LastTold == \A p \in Procs : pc[p] \in {"hdel", "publish"} => latest[req[p].user] = req[p].score

LastQueued ==
    \A i \in 1..Len(queue) :
        ~Telling(queue[i].user) /\ (\A j \in 1..Len(queue) : j > i => queue[j].user # queue[i].user)
            => latest[queue[i].user] = queue[i].score

LastHandled ==
    \A c \in Consumers :
        lpc[c] \in {"rating", "post", "save"} /\ ~Telling(event[c].user) /\ ~Queued(event[c].user)
            => latest[event[c].user] = event[c].score

LastStored == \A u \in Users : ~Pending(u) => latest[u] = stored[u]

OrderInv == ~broken => OneConsumer /\ LastTold /\ LastQueued /\ LastHandled /\ LastStored

\* Whoever fills the hash found none, so that all is stored; and nobody wrote since.
FillInv ==
    ~broken /\ ~raced =>
        /\ Filling => \A u \in Users : ~Pending(u)
        /\ \A p \in Procs : pc[p] = "fill" => \A u \in Users : snap[p][u] \in {None, latest[u]}
        /\ \A u \in Users : cache[u] \in {None, latest[u]}

-----------------------------------------------------------------------------
(* Types. *)

LEMMA QueueTypes ==
  ASSUME NEW q \in Seq(Event), NEW e \in Event
  PROVE  /\ Append(q, e) \in Seq(Event) /\ <<e>> \o q \in Seq(Event)
         /\ Len(q) \in Nat /\ Len(Append(q, e)) = Len(q) + 1
         /\ \A i \in 1..Len(q) : Append(q, e)[i] = q[i]
         /\ Append(q, e)[Len(q) + 1] = e
<1>1. Append(q, e) \in Seq(Event) /\ Len(q) \in Nat /\ Len(Append(q, e)) = Len(q) + 1
  OBVIOUS
<1>2. \A i \in 1..Len(q) : Append(q, e)[i] = q[i]
  OBVIOUS
<1>3. Append(q, e)[Len(q) + 1] = e
  OBVIOUS
<1>4. <<e>> \in Seq(Event)
  OBVIOUS
<1>5. <<e>> \o q \in Seq(Event)
  BY <1>4
<1> QED BY <1>1, <1>2, <1>3, <1>5

LEMMA TailTypes ==
  ASSUME NEW q \in Seq(Event), q # <<>>
  PROVE  /\ Head(q) \in Event /\ Head(q) = q[1]
         /\ Len(q) \in Nat /\ 1 \in 1..Len(q)
         /\ Tail(q) \in Seq(Event)
         /\ Len(Tail(q)) = Len(q) - 1
         /\ \A i \in 1..Len(Tail(q)) : i + 1 \in 1..Len(q) /\ Tail(q)[i] = q[i + 1]
         /\ \A i \in 1..Len(q) : i # 1 => i - 1 \in 1..Len(Tail(q)) /\ Tail(q)[i - 1] = q[i]
OBVIOUS

LEMMA RatersFinite ==
  ASSUME NEW s
  PROVE  IsFiniteSet(Raters(s)) /\ Cardinality(Raters(s)) \in Nat
BY RatingAssumption, FS_Subset, FS_CardinalityType DEF Raters

LEMMA InitTypeInv == Init => TypeInv
<1> SUFFICES ASSUME Init PROVE TypeInv
  OBVIOUS
<1>1. post.count \in Nat
  BY RatersFinite DEF Init
<1>2. snap \in [Procs -> [Users -> Scores \cup {None}]]
  BY DEF Init, Nothing
<1>3. cache \in [Fields -> Scores \cup {0, None}] /\ stored \in [Users -> Scores \cup {None}]
      /\ latest \in [Users -> Scores \cup {None}]
  BY RatingAssumption DEF Init
<1>4. pc \in [Procs -> Steps] /\ req \in [Procs -> Event \cup {None}]
      /\ lpc \in [Consumers -> ListenerSteps] /\ event \in [Consumers -> Event \cup {None}]
      /\ old \in [Consumers -> Scores \cup {None}]
  BY DEF Init, Steps, ListenerSteps
<1>5. queue \in Seq(Event)
  BY DEF Init
<1>7. raced \in BOOLEAN /\ broken \in BOOLEAN
  BY DEF Init
<1>6. RequestsOK /\ ConsumersOK
  BY DEF Init, RequestsOK, ConsumersOK
<1> QED BY <1>1, <1>2, <1>3, <1>4, <1>5, <1>6, <1>7 DEF TypeInv, Types

\* A command that only moves a handler on.
Moved(p, from, to) ==
    /\ pc[p] \in from /\ pc'[p] \in to
    /\ pc' \in [Procs -> Steps] /\ \A q \in Procs \ {p} : pc'[q] = pc[q]
    /\ UNCHANGED <<req, queue, listenerVars, stored, post, broken>>

LEMMA GoToTypes ==
  ASSUME TypeInv, NEW p \in Procs, NEW s \in Steps, GoTo(p, s)
  PROVE  pc' \in [Procs -> Steps] /\ pc'[p] = s /\ \A q \in Procs \ {p} : pc'[q] = pc[q]
BY DEF GoTo, TypeInv, Types

LEMMA MovedTypes ==
  ASSUME TypeInv, NEW p \in Procs, Moved(p, Steps \ {"idle"}, Steps \ {"idle"}),
         cache' \in [Fields -> Scores \cup {0, None}],
         snap' \in [Procs -> [Users -> Scores \cup {None}]],
         latest' \in [Users -> Scores \cup {None}], raced' \in BOOLEAN
  PROVE  TypeInv'
<1>1. pc' \in [Procs -> Steps] /\ \A q \in Procs : pc'[q] = "idle" <=> pc[q] = "idle"
  BY DEF Moved
<1>2. /\ req' = req /\ queue' = queue /\ lpc' = lpc /\ event' = event /\ old' = old /\ stored' = stored
      /\ post' = post /\ broken' = broken
  BY DEF Moved, listenerVars
<1>3. Types'
  BY <1>1, <1>2 DEF TypeInv, Types
<1>4. RequestsOK' /\ ConsumersOK'
  BY <1>1, <1>2 DEF TypeInv, RequestsOK, ConsumersOK
<1> QED BY <1>3, <1>4 DEF TypeInv

Walking == {"exists", "setnx", "wait", "double", "find", "fill", "expire", "hset"}

\* The warm-up.
LEMMA WalkMoves ==
  ASSUME TypeInv, NEW p \in Procs,
         LookAtCache(p) \/ TryLock(p) \/ DoubleCheck(p) \/ FindRatings(p) \/ FillCache(p) \/ EndWarmUp(p)
  PROVE  /\ Moved(p, Walking, Walking) /\ UNCHANGED <<latest, raced>>
         /\ cache' \in [Fields -> Scores \cup {0, None}]
         /\ snap' \in [Procs -> [Users -> Scores \cup {None}]]
<1> USE DEF historyVars, listenerVars
<1>1. \E s \in Walking : GoTo(p, s)
  BY DEF LookAtCache, TryLock, DoubleCheck, FindRatings, FillCache, EndWarmUp, Walking
<1>2. pc[p] \in Walking
  BY DEF LookAtCache, TryLock, DoubleCheck, FindRatings, FillCache, EndWarmUp, Walking
<1>3. UNCHANGED <<req, queue, listenerVars, stored, post, broken, latest, raced>>
  BY DEF LookAtCache, TryLock, DoubleCheck, FindRatings, FillCache, EndWarmUp
<1>4. Moved(p, Walking, Walking) /\ UNCHANGED <<latest, raced>>
  <2>1. PICK s \in Walking : GoTo(p, s)
    BY <1>1
  <2>2. s \in Steps
    BY DEF Walking, Steps
  <2> QED BY <1>2, <1>3, <2>1, <2>2, GoToTypes DEF Moved
<1>5. cache \in [Fields -> Scores \cup {0, None}] /\ snap \in [Procs -> [Users -> Scores \cup {None}]]
  BY DEF TypeInv, Types
<1>6. CASE LookAtCache(p) \/ TryLock(p) \/ DoubleCheck(p) \/ EndWarmUp(p)
  <2>1. cache' = cache /\ snap' = snap
    BY <1>6 DEF LookAtCache, TryLock, DoubleCheck, EndWarmUp
  <2> QED BY <1>4, <1>5, <2>1
<1>7. CASE FindRatings(p)
  <2>1. cache' = cache /\ snap' = [snap EXCEPT ![p] = stored] /\ stored \in [Users -> Scores \cup {None}]
    BY <1>7 DEF FindRatings, TypeInv, Types
  <2> QED BY <1>4, <1>5, <2>1
<1>8. CASE FillCache(p)
  <2>1. CASE cache' = (IF cache[Dummy] = None THEN [cache EXCEPT ![Dummy] = 0] ELSE cache) /\ snap' = snap
    BY <1>4, <1>5, <2>1
  <2>2. CASE \E u \in Raters(snap[p]) : /\ cache' = [cache EXCEPT ![u] = snap[p][u]]
                                        /\ snap' = [snap EXCEPT ![p][u] = None]
    <3>1. PICK u \in Raters(snap[p]) : /\ cache' = [cache EXCEPT ![u] = snap[p][u]]
                                       /\ snap' = [snap EXCEPT ![p] = [snap[p] EXCEPT ![u] = None]]
      BY <2>2
    <3>2. u \in Users /\ snap[p] \in [Users -> Scores \cup {None}] /\ snap[p][u] \in Scores \cup {None}
      BY <1>5 DEF Raters
    <3>3. [snap[p] EXCEPT ![u] = None] \in [Users -> Scores \cup {None}]
      BY <3>2
    <3> QED BY <1>4, <1>5, <3>1, <3>2, <3>3
  <2> QED BY <1>8, <2>1, <2>2 DEF FillCache
<1> QED BY <1>6, <1>7, <1>8

LEMMA SetScoreTypes ==
  ASSUME TypeInv, NEW p \in Procs, SetScore(p)
  PROVE  /\ TypeInv' /\ Moved(p, {"hset"}, {"hdel"}) /\ req[p] \in Event
         /\ cache' = [cache EXCEPT ![req[p].user] = req[p].score]
         /\ latest' = [latest EXCEPT ![req[p].user] = req[p].score]
         /\ raced' = (raced \/ Filling)
         /\ req[p].user \in Users /\ req[p].score \in Scores
<1>1. pc[p] = "hset" /\ GoTo(p, "hdel") /\ req[p] \in Event
  BY DEF SetScore, TypeInv, Types, RequestsOK
<1>2. req[p].user \in Users /\ req[p].score \in Scores
  BY <1>1 DEF Event
<1>4. Moved(p, {"hset"}, {"hdel"})
  BY <1>1, GoToTypes DEF SetScore, Moved, Steps
<1>5. /\ cache' \in [Fields -> Scores \cup {0, None}] /\ latest' \in [Users -> Scores \cup {None}]
      /\ snap' \in [Procs -> [Users -> Scores \cup {None}]]
  BY <1>2 DEF SetScore, TypeInv, Types
<1>6. raced' \in BOOLEAN
  BY DEF SetScore
<1>7. Moved(p, Steps \ {"idle"}, Steps \ {"idle"})
  BY <1>4 DEF Moved, Steps
<1> QED BY <1>1, <1>2, <1>4, <1>5, <1>6, <1>7, MovedTypes DEF SetScore

LEMMA RemoveDummyTypes ==
  ASSUME TypeInv, NEW p \in Procs, RemoveDummy(p)
  PROVE  /\ TypeInv' /\ Moved(p, {"hdel"}, {"publish"}) /\ UNCHANGED <<latest, raced>>
         /\ \A u \in Users : cache'[u] = cache[u]
<1>1. pc[p] = "hdel" /\ GoTo(p, "publish")
  BY DEF RemoveDummy
<1>2. Moved(p, {"hdel"}, {"publish"})
  BY <1>1, GoToTypes DEF RemoveDummy, Moved, Steps, historyVars
<1>3. cache' \in [Fields -> Scores \cup {0, None}] /\ \A u \in Users : cache'[u] = cache[u]
  BY RatingAssumption DEF RemoveDummy, TypeInv, Types, Fields
<1>4. Moved(p, Steps \ {"idle"}, Steps \ {"idle"})
  BY <1>2 DEF Moved, Steps
<1> QED BY <1>2, <1>3, <1>4, MovedTypes DEF RemoveDummy, historyVars, TypeInv, Types

LEMMA BeginTypes ==
  ASSUME TypeInv, NEW p \in Procs, NEW u \in Users, NEW s \in Scores, Begin(p, u, s)
  PROVE  /\ TypeInv' /\ pc[p] = "idle" /\ pc'[p] = "exists"
         /\ \A q \in Procs \ {p} : pc'[q] = pc[q] /\ req'[q] = req[q]
<1>1. pc[p] = "idle" /\ GoTo(p, "exists") /\ req' = [req EXCEPT ![p] = [user |-> u, score |-> s]]
      /\ \A q \in Procs : req[q] # None => req[q].user # u
  BY DEF Begin
<1>2. pc' \in [Procs -> Steps] /\ pc'[p] = "exists" /\ \A q \in Procs \ {p} : pc'[q] = pc[q]
  BY <1>1, GoToTypes DEF Steps
<1>3. [user |-> u, score |-> s] \in Event /\ [user |-> u, score |-> s] # None
  BY RatingAssumption DEF Event
<1>4. req' \in [Procs -> Event \cup {None}] /\ req'[p] = [user |-> u, score |-> s]
      /\ \A q \in Procs \ {p} : req'[q] = req[q]
  BY <1>1, <1>3 DEF TypeInv, Types
<1>5. UNCHANGED <<cache, snap, queue, lpc, event, old, stored, post, latest, raced, broken>>
  BY DEF Begin, listenerVars, historyVars
<1>6. RequestsOK'
  <2>1. \A q \in Procs : pc'[q] = "idle" <=> req'[q] = None
    BY <1>2, <1>3, <1>4 DEF TypeInv, RequestsOK
  <2>2. \A q, r \in Procs : req'[q] # None /\ req'[r] # None /\ req'[q].user = req'[r].user => q = r
    BY <1>1, <1>4 DEF TypeInv, RequestsOK
  <2> QED BY <2>1, <2>2 DEF RequestsOK
<1>7. ConsumersOK'
  BY <1>5 DEF TypeInv, ConsumersOK
<1>8. Types'
  BY <1>2, <1>4, <1>5 DEF TypeInv, Types
<1> QED BY <1>1, <1>2, <1>4, <1>6, <1>7, <1>8 DEF TypeInv

\* A request ends.
LEMMA EndTypes ==
  ASSUME TypeInv, NEW p \in Procs, GoTo(p, "idle"), req' = [req EXCEPT ![p] = None],
         UNCHANGED <<cache, listenerVars, stored, post, latest, raced>>,
         snap' \in [Procs -> [Users -> Scores \cup {None}]], queue' \in Seq(Event), broken' \in BOOLEAN
  PROVE  /\ TypeInv' /\ pc'[p] = "idle"
         /\ \A q \in Procs \ {p} : pc'[q] = pc[q] /\ req'[q] = req[q]
<1>1. pc' \in [Procs -> Steps] /\ pc'[p] = "idle" /\ \A q \in Procs \ {p} : pc'[q] = pc[q]
  BY GoToTypes DEF Steps
<1>2. req' \in [Procs -> Event \cup {None}] /\ req'[p] = None /\ \A q \in Procs \ {p} : req'[q] = req[q]
  BY DEF TypeInv, Types
<1>3. RequestsOK'
  BY <1>1, <1>2 DEF TypeInv, RequestsOK
<1>4. ConsumersOK'
  BY DEF TypeInv, ConsumersOK, listenerVars
<1>5. Types'
  BY <1>1, <1>2 DEF TypeInv, Types, listenerVars
<1> QED BY <1>1, <1>2, <1>3, <1>4, <1>5 DEF TypeInv

LEMMA PublishTypes ==
  ASSUME TypeInv, NEW p \in Procs, Publish(p)
  PROVE  /\ TypeInv' /\ pc[p] = "publish" /\ pc'[p] = "idle"
         /\ \A q \in Procs \ {p} : pc'[q] = pc[q] /\ req'[q] = req[q]
         /\ req[p] \in Event /\ queue' = Append(queue, req[p])
<1>1. pc[p] = "publish" /\ req[p] \in Event
  BY DEF Publish, TypeInv, Types, RequestsOK
<1>2. Message(p) = req[p]
  BY <1>1 DEF Message, Value, Event
<1>3. queue' \in Seq(Event) /\ queue' = Append(queue, req[p])
  BY <1>1, <1>2, QueueTypes DEF Publish, TypeInv, Types
<1>4. broken' \in BOOLEAN /\ snap' \in [Procs -> [Users -> Scores \cup {None}]]
  BY DEF Publish, historyVars, TypeInv, Types
<1> QED BY <1>1, <1>3, <1>4, EndTypes DEF Publish, historyVars

LEMMA HandlerFailsTypes ==
  ASSUME TypeInv, NEW p \in Procs, HandlerFails(p)
  PROVE  /\ TypeInv' /\ pc[p] # "idle" /\ broken'
         /\ \A q \in Procs \ {p} : pc'[q] = pc[q] /\ req'[q] = req[q]
         /\ pc[p] \notin {"hdel", "publish"} => pc'[p] = "idle"
         /\ pc'[p] \in {"hdel", "publish"} => req'[p] = req[p]
<1>1. pc[p] # "idle" /\ broken' = TRUE
      /\ UNCHANGED <<cache, queue, listenerVars, stored, post, latest, raced>>
  BY DEF HandlerFails
<1>2. CASE pc[p] = "hdel" /\ GoTo(p, "publish") /\ UNCHANGED <<req, snap, lock>>
  <2>1. pc' \in [Procs -> Steps] /\ pc'[p] = "publish" /\ \A q \in Procs \ {p} : pc'[q] = pc[q]
    BY <1>2, GoToTypes DEF Steps
  <2>2. Types'
    BY <1>1, <1>2, <2>1 DEF TypeInv, Types, listenerVars
  <2>3. RequestsOK' /\ ConsumersOK'
    BY <1>1, <1>2, <2>1 DEF TypeInv, RequestsOK, ConsumersOK, listenerVars
  <2> QED BY <1>1, <1>2, <2>1, <2>2, <2>3 DEF TypeInv
<1>3. CASE GoTo(p, "idle") /\ req' = [req EXCEPT ![p] = None] /\ snap' = [snap EXCEPT ![p] = Nothing]
  <2>1. snap' \in [Procs -> [Users -> Scores \cup {None}]]
    BY <1>3 DEF TypeInv, Types, Nothing
  <2>2. queue' \in Seq(Event)
    BY <1>1 DEF TypeInv, Types
  <2> QED BY <1>1, <1>3, <2>1, <2>2, EndTypes
<1> QED BY <1>2, <1>3 DEF HandlerFails

LEMMA ExpireTypes ==
  ASSUME TypeInv, Expire
  PROVE  TypeInv'
<1>1. cache' \in [Fields -> Scores \cup {0, None}]
  BY DEF Expire
<1>2. UNCHANGED <<pc, req, snap, queue, lpc, event, old, stored, post, latest, raced, broken>>
  BY DEF Expire, handlerVars, listenerVars, historyVars
<1> QED BY <1>1, <1>2 DEF TypeInv, Types, RequestsOK, ConsumersOK

\* A step of a consumer.
LEMMA ConsumerTypes ==
  ASSUME TypeInv, NEW c \in Consumers, Listen(c)
  PROVE  /\ TypeInv'
         /\ \A d \in Consumers \ {c} : lpc'[d] = lpc[d] /\ event'[d] = event[d] /\ old'[d] = old[d]
         /\ UNCHANGED <<cache, handlerVars, latest, raced>>
<1> USE DEF historyVars, handlerVars
<1>1. UNCHANGED <<cache, pc, req, snap, latest, raced>>
  BY DEF Listen, Receive, FindOldRating, FindPost, SaveRating, UpdateAverage, Notify, ListenerFails
<1>2. /\ lpc' \in [Consumers -> ListenerSteps] /\ old' \in [Consumers -> Scores \cup {None}]
      /\ event' \in [Consumers -> Event \cup {None}] /\ queue' \in Seq(Event) /\ broken' \in BOOLEAN
      /\ \A d \in Consumers \ {c} : lpc'[d] = lpc[d] /\ event'[d] = event[d] /\ old'[d] = old[d]
      /\ lpc'[c] # "idle" => event'[c] # None
  <2>1. CASE Receive(c)
    <3>1. Head(queue) \in Event /\ Tail(queue) \in Seq(Event) /\ Head(queue) # None
      BY <2>1, TailTypes, RatingAssumption DEF Receive, TypeInv, Types
    <3>2. broken' \in BOOLEAN
      BY <2>1 DEF Receive
    <3> QED BY <2>1, <3>1, <3>2 DEF Receive, At, TypeInv, Types, ListenerSteps
  <2>2. CASE FindOldRating(c)
    <3>1. event[c] \in Event
      BY <2>2 DEF FindOldRating, TypeInv, Types, ConsumersOK
    <3>2. stored[event[c].user] \in Scores \cup {None}
      BY <3>1 DEF Event, TypeInv, Types
    <3> QED BY <2>2, <3>1, <3>2 DEF FindOldRating, At, TypeInv, Types, ListenerSteps, ConsumersOK
  <2>3. CASE FindPost(c)
    BY <2>3 DEF FindPost, At, TypeInv, Types, ListenerSteps, ConsumersOK
  <2>4. CASE Done(c) /\ queue' \in Seq(Event) /\ broken' \in BOOLEAN
    BY <2>4 DEF Done, At, TypeInv, Types, ListenerSteps
  <2>5. CASE (\E s \in {"average", "notify"} : At(c, s)) /\ lpc[c] # "idle"
             /\ UNCHANGED <<event, old, queue, broken>>
    BY <2>5 DEF At, TypeInv, Types, ListenerSteps, ConsumersOK
  <2>6. CASE SaveRating(c)
    BY <2>4, <2>5, <2>6 DEF SaveRating, TypeInv, Types
  <2>7. CASE UpdateAverage(c)
    BY <2>4, <2>5, <2>7 DEF UpdateAverage, TypeInv, Types
  <2>8. CASE Notify(c)
    BY <2>4, <2>8 DEF Notify, TypeInv, Types
  <2>9. CASE ListenerFails(c)
    <3>1. event[c] \in Event
      BY <2>9 DEF ListenerFails, TypeInv, Types, ConsumersOK
    <3>2. queue' \in Seq(Event)
      <4> DEFINE again == <<event[c]>> \o queue
      <4>1. queue \in Seq(Event)
        BY DEF TypeInv, Types
      <4>2. again \in Seq(Event)
        BY <3>1, <4>1, QueueTypes
      <4>3. queue' \in {queue, again}
        BY <2>9 DEF ListenerFails
      <4> HIDE DEF again
      <4> QED BY <4>1, <4>2, <4>3
    <3> QED BY <2>4, <2>9, <3>2 DEF ListenerFails
  <2> QED BY <2>1, <2>2, <2>3, <2>6, <2>7, <2>8, <2>9 DEF Listen
<1>3. /\ stored' \in [Users -> Scores \cup {None}] /\ \A u \in Users : stored[u] # None => stored'[u] # None
      /\ lpc'[c] = "average" => stored'[event'[c].user] # None
  <2>1. CASE SaveRating(c) /\ stored' = [stored EXCEPT ![event[c].user] = event[c].score]
             /\ event' = event
    <3>1. event[c] \in Event /\ event[c].user \in Users /\ event[c].score \in Scores /\ event[c].score # None
      BY <2>1, RatingAssumption DEF SaveRating, TypeInv, Types, ConsumersOK, Event
    <3> QED BY <2>1, <3>1 DEF TypeInv, Types
  <2>2. CASE stored' = stored /\ lpc'[c] # "average"
    BY <2>2 DEF TypeInv, Types
  <2>3. ASSUME NEW s, At(c, s) PROVE lpc'[c] = s
    BY <2>3 DEF At, TypeInv, Types
  <2> QED BY <2>1, <2>2, <2>3 DEF Listen, Receive, FindOldRating, FindPost, SaveRating, UpdateAverage, Notify,
                                ListenerFails, Done
<1>4. post'.count \in Nat
  <2>1. CASE UpdateAverage(c)
    <3>1. post'.count = post.count + (IF old[c] = None THEN 1 ELSE 0)
      BY <2>1 DEF UpdateAverage
    <3> QED BY <3>1 DEF TypeInv, Types
  <2>2. CASE post' = post
    BY <2>2 DEF TypeInv, Types
  <2> QED BY <2>1, <2>2 DEF Listen, Receive, FindOldRating, FindPost, SaveRating, Notify, ListenerFails
<1>5. Types'
  BY <1>1, <1>2, <1>3, <1>4 DEF TypeInv, Types
<1>6. RequestsOK'
  BY <1>1 DEF TypeInv, RequestsOK
<1>7. ConsumersOK'
  <2> SUFFICES ASSUME NEW d \in Consumers
               PROVE  /\ lpc'[d] # "idle" => event'[d] # None
                      /\ lpc'[d] = "average" => stored'[event'[d].user] # None
    BY DEF ConsumersOK
  <2>1. CASE d = c
    BY <1>2, <1>3, <2>1
  <2>2. CASE d # c
    <3>1. lpc'[d] = lpc[d] /\ event'[d] = event[d] /\ (lpc[d] # "idle" => event[d] # None)
          /\ (lpc[d] = "average" => stored[event[d].user] # None)
      BY <1>2, <2>2 DEF TypeInv, ConsumersOK
    <3>2. lpc[d] = "average" => event[d].user \in Users
      BY <3>1 DEF TypeInv, Types, Event
    <3> QED BY <1>3, <3>1, <3>2
  <2> QED BY <2>1, <2>2
<1> QED BY <1>1, <1>2, <1>5, <1>6, <1>7 DEF TypeInv

\* Types, that a user has one request under way, and that a consumer counts only
\* what is stored.
LEMMA TypesHold == Spec => []TypeInv
<1>1. TypeInv /\ [Next]_vars => TypeInv'
  <2> SUFFICES ASSUME TypeInv, [Next]_vars PROVE TypeInv'
    OBVIOUS
  <2>1. ASSUME NEW p \in Procs, NEW u \in Users, NEW s \in Scores, Begin(p, u, s) PROVE TypeInv'
    BY <2>1, BeginTypes
  <2>2. ASSUME NEW p \in Procs, LookAtCache(p) \/ TryLock(p) \/ DoubleCheck(p) \/ FindRatings(p)
                                \/ FillCache(p) \/ EndWarmUp(p)
        PROVE  TypeInv'
    <3>1. /\ Moved(p, Walking, Walking) /\ UNCHANGED <<latest, raced>>
          /\ cache' \in [Fields -> Scores \cup {0, None}]
          /\ snap' \in [Procs -> [Users -> Scores \cup {None}]]
      BY <2>2, WalkMoves
    <3>2. Moved(p, Steps \ {"idle"}, Steps \ {"idle"})
      BY <3>1 DEF Moved, Walking, Steps
    <3>3. latest' \in [Users -> Scores \cup {None}] /\ raced' \in BOOLEAN
      BY <3>1 DEF TypeInv, Types
    <3> QED BY <3>1, <3>2, <3>3, MovedTypes
  <2>3. ASSUME NEW p \in Procs, SetScore(p) \/ RemoveDummy(p) \/ Publish(p) \/ HandlerFails(p)
        PROVE  TypeInv'
    BY <2>3, SetScoreTypes, RemoveDummyTypes, PublishTypes, HandlerFailsTypes
  <2>4. ASSUME NEW c \in Consumers, Listen(c) PROVE TypeInv'
    BY <2>4, ConsumerTypes
  <2>5. CASE Expire
    BY <2>5, ExpireTypes
  <2>6. CASE UNCHANGED vars
    BY <2>6 DEF vars, handlerVars, listenerVars, historyVars, TypeInv, Types, RequestsOK, ConsumersOK
  <2> QED BY <2>1, <2>2, <2>3, <2>4, <2>5, <2>6 DEF Next, Rate
<1> QED BY <1>1, InitTypeInv, PTL DEF Spec
-----------------------------------------------------------------------------
(* The count. *)

LEMMA UncountedFinite ==
  ASSUME TRUE
  PROVE  IsFiniteSet(Uncounted) /\ Cardinality(Uncounted) \in Nat
BY RatingAssumption, FS_Subset, FS_CardinalityType DEF Uncounted

\* The count and the ratings still to be counted never grow alone.
LEMMA CountStep ==
  ASSUME TypeInv, TypeInv', CountInv,
         \/ post'.count = post.count /\ Uncounted' \subseteq Uncounted /\ Raters(stored) \subseteq Raters(stored')
         \/ /\ post'.count = post.count
            /\ \E c : Uncounted' = Uncounted \cup {c}
            /\ \E u : u \notin Raters(stored) /\ Raters(stored') = Raters(stored) \cup {u}
         \/ /\ post'.count = post.count + 1 /\ stored' = stored
            /\ \E c \in Uncounted : Uncounted' = Uncounted \ {c}
  PROVE  CountInv'
<1>1. /\ IsFiniteSet(Uncounted) /\ Cardinality(Uncounted) \in Nat
      /\ IsFiniteSet(Uncounted') /\ Cardinality(Uncounted') \in Nat
      /\ Raters(stored)' = Raters(stored')
      /\ IsFiniteSet(Raters(stored)) /\ Cardinality(Raters(stored)) \in Nat
      /\ IsFiniteSet(Raters(stored')) /\ Cardinality(Raters(stored')) \in Nat
      /\ post.count \in Nat /\ post'.count \in Nat
  <2>1. IsFiniteSet(Uncounted') /\ Cardinality(Uncounted') \in Nat
    BY RatingAssumption, FS_Subset, FS_CardinalityType DEF Uncounted
  <2> QED BY <2>1, UncountedFinite, RatersFinite DEF Raters, TypeInv, Types
<1>2. CASE post'.count = post.count /\ Uncounted' \subseteq Uncounted /\ Raters(stored) \subseteq Raters(stored')
  <2>1. Cardinality(Uncounted') <= Cardinality(Uncounted)
    BY <1>1, <1>2, FS_Subset
  <2>2. Cardinality(Raters(stored)) <= Cardinality(Raters(stored'))
    BY <1>1, <1>2, FS_Subset
  <2> QED BY <1>1, <1>2, <2>1, <2>2 DEF CountInv
<1>3. CASE /\ post'.count = post.count
           /\ \E c : Uncounted' = Uncounted \cup {c}
           /\ \E u : u \notin Raters(stored) /\ Raters(stored') = Raters(stored) \cup {u}
  <2>1. Cardinality(Uncounted') <= Cardinality(Uncounted) + 1
    BY <1>1, <1>3, FS_AddElement
  <2>2. Cardinality(Raters(stored')) = Cardinality(Raters(stored)) + 1
    BY <1>1, <1>3, FS_AddElement
  <2> QED BY <1>1, <1>3, <2>1, <2>2 DEF CountInv
<1>4. CASE /\ post'.count = post.count + 1 /\ stored' = stored
           /\ \E c \in Uncounted : Uncounted' = Uncounted \ {c}
  <2>1. Cardinality(Uncounted') = Cardinality(Uncounted) - 1
    BY <1>1, <1>4, FS_RemoveElement
  <2> QED BY <1>1, <1>4, <2>1 DEF CountInv
<1> QED BY <1>2, <1>3, <1>4

LEMMA AtSteps ==
  ASSUME TypeInv, NEW c \in Consumers, NEW s, At(c, s)
  PROVE  lpc'[c] = s
BY DEF At, TypeInv, Types

LEMMA SaveRatingCount ==
  ASSUME TypeInv, TypeInv', CountInv, NEW c \in Consumers, SaveRating(c)
  PROVE  CountInv'
<1>1. /\ lpc[c] = "save" /\ post' = post /\ event[c] \in Event
      /\ \A d \in Consumers \ {c} : lpc'[d] = lpc[d] /\ old'[d] = old[d]
  BY ConsumerTypes DEF SaveRating, Listen, TypeInv, Types, ConsumersOK
<1>2. CASE Done(c) /\ stored' = stored
  <2>1. lpc'[c] = "idle"
    BY <1>2, AtSteps DEF Done
  <2>2. Uncounted' \subseteq Uncounted
    BY <1>1, <2>1 DEF Uncounted
  <2> QED BY <1>1, <1>2, <2>2, CountStep
<1>3. CASE /\ Saved(c) /\ stored' = [stored EXCEPT ![event[c].user] = event[c].score]
           /\ At(c, "average") /\ old' = old
  <2> DEFINE u == event[c].user
  <2>1. u \in Users /\ event[c].score \in Scores /\ event[c].score # None
    BY <1>1, RatingAssumption DEF Event
  <2>2. Raters(stored') = Raters(stored) \cup {u}
    BY <1>3, <2>1 DEF Raters, TypeInv, Types
  <2>3. lpc'[c] = "average"
    BY <1>3, AtSteps
  <2>4. CASE old[c] = None
    <3>1. u \notin Raters(stored)
      BY <1>3, <2>4 DEF Saved, Raters
    <3>2. Uncounted' = Uncounted \cup {c}
      BY <1>1, <1>3, <2>3, <2>4 DEF Uncounted
    <3> QED BY <1>1, <2>2, <3>1, <3>2, CountStep
  <2>5. CASE old[c] # None
    <3>1. Uncounted' \subseteq Uncounted
      BY <1>1, <1>3, <2>5 DEF Uncounted
    <3> QED BY <1>1, <2>2, <3>1, CountStep
  <2> QED BY <2>4, <2>5
<1> QED BY <1>2, <1>3 DEF SaveRating

LEMMA ConsumerCount ==
  ASSUME TypeInv, TypeInv', CountInv, NEW c \in Consumers, Listen(c)
  PROVE  CountInv'
<1>1. \A d \in Consumers \ {c} : lpc'[d] = lpc[d] /\ event'[d] = event[d] /\ old'[d] = old[d]
  BY ConsumerTypes
<1>2. ASSUME lpc'[c] # "average", post' = post, stored' = stored PROVE CountInv'
  <2>1. Uncounted' \subseteq Uncounted
    BY <1>1, <1>2 DEF Uncounted
  <2> QED BY <1>2, <2>1, CountStep
<1>3. CASE Receive(c) \/ FindOldRating(c) \/ FindPost(c) \/ Notify(c) \/ ListenerFails(c)
  <2>1. lpc'[c] # "average"
    BY <1>3, AtSteps DEF Receive, FindOldRating, FindPost, Notify, ListenerFails, Done
  <2> QED BY <1>2, <1>3, <2>1 DEF Receive, FindOldRating, FindPost, Notify, ListenerFails
<1>4. CASE UpdateAverage(c)
  <2>1. lpc[c] = "average" /\ stored' = stored
        /\ post'.count = post.count + (IF old[c] = None THEN 1 ELSE 0)
    BY <1>4 DEF UpdateAverage
  <2>2. lpc'[c] # "average"
    BY <1>4, AtSteps DEF UpdateAverage, Done
  <2>3. CASE old[c] = None
    <3>1. c \in Uncounted /\ Uncounted' = Uncounted \ {c}
      BY <1>1, <2>1, <2>2, <2>3 DEF Uncounted
    <3> QED BY <2>1, <2>3, <3>1, CountStep
  <2>4. CASE old[c] # None
    <3>1. Uncounted' \subseteq Uncounted
      BY <1>1, <2>2 DEF Uncounted
    <3>2. post'.count = post.count
      BY <2>1, <2>4 DEF TypeInv, Types
    <3> QED BY <2>1, <3>1, <3>2, CountStep
  <2> QED BY <2>3, <2>4
<1> QED BY <1>3, <1>4, SaveRatingCount DEF Listen

\* No redelivery, overlap of consumers or failure makes ratingCount count a rating
\* that is not stored, or one twice.
THEOREM CountsStored == Spec => []CountNeverAhead
<1>1. Init => CountInv
  <2> SUFFICES ASSUME Init PROVE CountInv
    OBVIOUS
  <2>1. Uncounted = {}
    BY DEF Init, Uncounted
  <2>2. Cardinality(Uncounted) = 0 /\ post.count = Cardinality(Raters(stored))
    BY <2>1, FS_EmptySet DEF Init
  <2> QED BY <2>2, RatersFinite DEF CountInv
<1>2. TypeInv /\ TypeInv' /\ CountInv /\ [Next]_vars => CountInv'
  <2> SUFFICES ASSUME TypeInv, TypeInv', CountInv, [Next]_vars PROVE CountInv'
    OBVIOUS
  <2>1. CASE UNCHANGED <<lpc, old, post, stored>>
    BY <2>1 DEF CountInv, Uncounted, Raters
  <2>2. ASSUME NEW p \in Procs, Rate(p) \/ \E u \in Users, s \in Scores : Begin(p, u, s)
        PROVE  UNCHANGED <<lpc, old, post, stored>>
    BY <2>2 DEF Rate, Begin, LookAtCache, TryLock, DoubleCheck, FindRatings, FillCache, EndWarmUp, SetScore,
                RemoveDummy, Publish, HandlerFails, listenerVars
  <2>3. CASE Expire \/ UNCHANGED vars
    BY <2>1, <2>3 DEF Expire, vars, listenerVars
  <2> QED BY <2>1, <2>2, <2>3, ConsumerCount DEF Next
<1>3. TypeInv /\ CountInv => CountNeverAhead
  <2> SUFFICES ASSUME TypeInv, CountInv PROVE CountNeverAhead
    OBVIOUS
  <2>1. post.count \in Nat /\ Cardinality(Uncounted) \in Nat /\ Cardinality(Raters(stored)) \in Nat
    BY UncountedFinite, RatersFinite DEF TypeInv, Types
  <2> QED BY <2>1 DEF CountInv, CountNeverAhead
<1> QED BY <1>1, <1>2, <1>3, TypesHold, PTL DEF Spec
-----------------------------------------------------------------------------
(* The last score of a user on its way. *)

ScoreInv == CachedInv /\ OrderInv /\ FillInv

\* What is on its way stays the same.
SameWay ==
    /\ queue' = queue /\ lpc' = lpc /\ event' = event /\ old' = old /\ stored' = stored
    /\ \A p \in Procs : pc'[p] \in {"hdel", "publish"} <=> pc[p] \in {"hdel", "publish"}
    /\ \A p \in Procs : pc[p] \in {"hdel", "publish"} => req'[p] = req[p]
    /\ latest' = latest /\ broken' = broken

LEMMA SameWayPending ==
  ASSUME SameWay
  PROVE  \A u : /\ Telling(u)' <=> Telling(u)
                /\ Queued(u)' <=> Queued(u)
                /\ Handling(u)' <=> Handling(u)
                /\ Pending(u)' <=> Pending(u)
                /\ Held(u)' <=> Held(u)
BY DEF SameWay, Telling, Queued, Handling, Pending, Held

LEMMA SameWayOrder ==
  ASSUME SameWay, OrderInv
  PROVE  OrderInv'
<1>1. \A u : /\ Telling(u)' <=> Telling(u)
             /\ Queued(u)' <=> Queued(u)
             /\ Pending(u)' <=> Pending(u)
  BY SameWayPending
<1> SUFFICES ASSUME ~broken' PROVE (OneConsumer /\ LastTold /\ LastQueued /\ LastHandled /\ LastStored)'
  BY DEF OrderInv
<1>2. OneConsumer /\ LastTold /\ LastQueued /\ LastHandled /\ LastStored
  BY DEF OrderInv, SameWay
<1>3. OneConsumer'
  BY <1>2 DEF OneConsumer, SameWay
<1>4. LastTold'
  BY <1>2 DEF LastTold, SameWay
<1>5. LastQueued'
  BY <1>1, <1>2 DEF LastQueued, SameWay
<1>6. LastHandled'
  BY <1>1, <1>2 DEF LastHandled, SameWay
<1>7. LastStored'
  BY <1>1, <1>2 DEF LastStored, SameWay
<1> QED BY <1>3, <1>4, <1>5, <1>6, <1>7

LEMMA SameWayCached ==
  ASSUME SameWay, CachedInv, \A u \in Users : cache[u] # None => cache'[u] # None
  PROVE  CachedInv'
BY SameWayPending DEF CachedInv

\* Without a hash nothing is on its way, and what is stored is the last.
LEMMA NoHash ==
  ASSUME ScoreInv, ~Exists
  PROVE  \A u \in Users : ~Pending(u) /\ (~broken => latest[u] = stored[u])
BY DEF ScoreInv, CachedInv, Exists, Fields, OrderInv, LastStored

LEMMA FillingMoves ==
  ASSUME TypeInv, NEW p \in Procs, Moved(p, Walking, Walking)
  PROVE  /\ Filling' => Filling \/ pc'[p] \in {"find", "fill"}
         /\ pc[p] \in {"find", "fill"} => Filling
BY DEF Moved, Filling

LEMMA WalkWay ==
  ASSUME TypeInv, NEW p \in Procs, Moved(p, Walking, Walking), latest' = latest
  PROVE  SameWay
BY DEF SameWay, Moved, Walking, listenerVars

LEMMA WalkScores ==
  ASSUME TypeInv, ScoreInv, NEW p \in Procs,
         LookAtCache(p) \/ TryLock(p) \/ DoubleCheck(p) \/ FindRatings(p) \/ FillCache(p) \/ EndWarmUp(p)
  PROVE  ScoreInv'
<1>1. Moved(p, Walking, Walking) /\ UNCHANGED <<latest, raced>>
  BY WalkMoves
<1>2. SameWay /\ UNCHANGED <<stored, broken>>
  BY <1>1, WalkWay DEF Moved
<1>3. OrderInv'
  BY <1>2, SameWayOrder DEF ScoreInv
<1>4. /\ Filling' => Filling \/ pc'[p] \in {"find", "fill"}
      /\ pc[p] \in {"find", "fill"} => Filling
      /\ \A u : Pending(u)' <=> Pending(u)
      /\ pc' \in [Procs -> Steps] /\ \A q \in Procs \ {p} : pc'[q] = pc[q]
  BY <1>1, <1>2, FillingMoves, SameWayPending DEF Moved
\* All that is left are the hash and the scores read to fill it.
<1>5. ASSUME \A u \in Users : cache[u] # None => cache'[u] # None,
             ~broken /\ ~raced /\ pc'[p] \in {"find", "fill"} => \A u \in Users : ~Pending(u),
             ~broken /\ ~raced => \A q \in Procs : pc'[q] = "fill" =>
                \A u \in Users : snap'[q][u] \in {None, latest[u]},
             ~broken /\ ~raced => \A u \in Users : cache'[u] \in {None, latest[u]}
      PROVE  ScoreInv'
  <2>1. CachedInv'
    BY <1>2, <1>5, SameWayCached DEF ScoreInv
  <2>2. FillInv'
    <3> SUFFICES ASSUME ~broken, ~raced
                 PROVE  /\ Filling' => \A u \in Users : ~Pending(u)'
                        /\ \A q \in Procs : pc'[q] = "fill" =>
                              \A u \in Users : snap'[q][u] \in {None, latest[u]}
                        /\ \A u \in Users : cache'[u] \in {None, latest[u]}
      BY <1>1, <1>2 DEF FillInv
    <3>1. Filling' => \A u \in Users : ~Pending(u)
      BY <1>4, <1>5 DEF ScoreInv, FillInv
    <3> QED BY <1>4, <1>5, <3>1
  <2> QED BY <1>3, <2>1, <2>2 DEF ScoreInv
<1>6. ~broken /\ ~raced => /\ \A q \in Procs : pc[q] = "fill" => \A u \in Users : snap[q][u] \in {None, latest[u]}
                           /\ \A u \in Users : cache[u] \in {None, latest[u]}
                           /\ Filling => \A u \in Users : ~Pending(u)
  BY DEF ScoreInv, FillInv
<1>7. CASE LookAtCache(p) \/ TryLock(p) \/ EndWarmUp(p)
  <2>1. cache' = cache /\ snap' = snap
    BY <1>7 DEF LookAtCache, TryLock, EndWarmUp
  <2>2. \E s \in {"hset", "setnx", "double", "wait"} : GoTo(p, s)
    BY <1>7 DEF LookAtCache, TryLock, EndWarmUp
  <2>3. pc'[p] \notin {"find", "fill"}
    BY <2>2, GoToTypes DEF Steps
  <2> QED BY <1>4, <1>5, <1>6, <2>1, <2>3
<1>8. CASE DoubleCheck(p)
  <2>1. cache' = cache /\ snap' = snap
    BY <1>8 DEF DoubleCheck
  <2>2. (Exists /\ GoTo(p, "hset")) \/ (~Exists /\ GoTo(p, "find"))
    BY <1>8 DEF DoubleCheck
  <2>3. pc'[p] # "fill" /\ (pc'[p] = "find" => ~Exists)
    BY <2>2, GoToTypes DEF Steps
  <2> QED BY <1>4, <1>5, <1>6, <2>1, <2>3, NoHash
<1>9. CASE FindRatings(p)
  <2>1. cache' = cache /\ snap' = [snap EXCEPT ![p] = stored] /\ pc[p] = "find"
    BY <1>9 DEF FindRatings
  <2>2. snap'[p] = stored /\ \A q \in Procs \ {p} : snap'[q] = snap[q]
    BY <2>1 DEF TypeInv, Types
  <2>3. Filling
    BY <1>4, <2>1
  <2>4. ~broken /\ ~raced => \A u \in Users : latest[u] = stored[u]
    BY <1>6, <2>3 DEF ScoreInv, OrderInv, LastStored
  <2> QED BY <1>4, <1>5, <1>6, <2>1, <2>2, <2>3, <2>4
<1>10. CASE FillCache(p)
  <2>1. pc[p] = "fill" /\ Filling
    BY <1>4, <1>10 DEF FillCache
  <2>2. CASE cache' = (IF cache[Dummy] = None THEN [cache EXCEPT ![Dummy] = 0] ELSE cache) /\ snap' = snap
    <3>1. \A u \in Users : cache'[u] = cache[u]
      BY <2>2, RatingAssumption DEF Fields, TypeInv, Types
    <3> QED BY <1>4, <1>5, <1>6, <2>1, <2>2, <3>1
  <2>3. CASE \E u \in Raters(snap[p]) : /\ cache' = [cache EXCEPT ![u] = snap[p][u]]
                                        /\ snap' = [snap EXCEPT ![p][u] = None]
    <3>1. PICK u \in Raters(snap[p]) : /\ cache' = [cache EXCEPT ![u] = snap[p][u]]
                                       /\ snap' = [snap EXCEPT ![p] = [snap[p] EXCEPT ![u] = None]]
      BY <2>3
    <3>2. u \in Users /\ snap[p][u] # None /\ snap[p] \in [Users -> Scores \cup {None}]
      BY DEF Raters, TypeInv, Types
    <3>3. cache'[u] = snap[p][u] /\ \A v \in Users \ {u} : cache'[v] = cache[v]
      BY <3>1, <3>2 DEF TypeInv, Types, Fields
    <3>4. /\ \A q \in Procs \ {p} : snap'[q] = snap[q]
          /\ snap'[p][u] = None /\ \A v \in Users \ {u} : snap'[p][v] = snap[p][v]
      BY <3>1, <3>2 DEF TypeInv, Types
    <3>5. \A v \in Users : cache[v] # None => cache'[v] # None
      BY <3>2, <3>3
    <3>6. ~broken /\ ~raced => \A v \in Users : cache'[v] \in {None, latest[v]}
      BY <1>6, <2>1, <3>2, <3>3
    <3>7. ~broken /\ ~raced => \A q \in Procs : pc'[q] = "fill" =>
             \A v \in Users : snap'[q][v] \in {None, latest[v]}
      BY <1>4, <1>6, <2>1, <3>4
    <3> QED BY <1>5, <1>6, <2>1, <3>5, <3>6, <3>7
  <2> QED BY <1>10, <2>2, <2>3 DEF FillCache
<1> QED BY <1>7, <1>8, <1>9, <1>10

LEMMA BeginScores ==
  ASSUME TypeInv, ScoreInv, NEW p \in Procs, NEW u \in Users, NEW s \in Scores, Begin(p, u, s)
  PROVE  ScoreInv'
<1>1. pc[p] = "idle" /\ pc'[p] = "exists" /\ \A q \in Procs \ {p} : pc'[q] = pc[q] /\ req'[q] = req[q]
  BY BeginTypes
<1>2. UNCHANGED <<cache, snap, queue, lpc, event, old, stored, latest, raced, broken>>
  BY DEF Begin, listenerVars, historyVars
<1>3. SameWay
  BY <1>1, <1>2 DEF SameWay
<1>4. OrderInv' /\ CachedInv'
  BY <1>2, <1>3, SameWayOrder, SameWayCached DEF ScoreInv
<1>5. (Filling' => Filling) /\ \A v : Pending(v)' <=> Pending(v)
  BY <1>1, <1>3, SameWayPending DEF Filling
<1>6. FillInv'
  BY <1>1, <1>2, <1>5 DEF ScoreInv, FillInv
<1> QED BY <1>4, <1>6 DEF ScoreInv

LEMMA SetScoreScores ==
  ASSUME TypeInv, ScoreInv, NEW p \in Procs, SetScore(p)
  PROVE  ScoreInv'
<1> PICK u : u = req[p].user
  OBVIOUS
<1>1. /\ Moved(p, {"hset"}, {"hdel"}) /\ u \in Users /\ req[p].score \in Scores /\ req[p] # None
      /\ cache' = [cache EXCEPT ![u] = req[p].score] /\ latest' = [latest EXCEPT ![u] = req[p].score]
      /\ raced' = (raced \/ Filling)
  BY SetScoreTypes, RatingAssumption
<1>2. /\ pc[p] = "hset" /\ pc'[p] = "hdel" /\ \A q \in Procs \ {p} : pc'[q] = pc[q]
      /\ UNCHANGED <<req, queue, lpc, event, old, stored, broken>>
  BY <1>1 DEF Moved, listenerVars
<1>3. /\ cache'[u] = req[p].score /\ \A v \in Users \ {u} : cache'[v] = cache[v]
      /\ latest'[u] = req[p].score /\ \A v \in Users \ {u} : latest'[v] = latest[v]
      /\ req[p].score # None
  BY <1>1, RatingAssumption DEF TypeInv, Types, Fields
<1>4. Telling(u)' /\ \A v : v # u => (Telling(v)' <=> Telling(v))
  BY <1>2 DEF Telling
<1>5. \A v : (Queued(v)' <=> Queued(v)) /\ (Handling(v)' <=> Handling(v)) /\ (Held(v)' <=> Held(v))
  BY <1>2 DEF Queued, Handling, Held
<1>6. \A v : v # u => (Pending(v)' <=> Pending(v))
  BY <1>4, <1>5 DEF Pending
<1>7. CachedInv'
  BY <1>3, <1>5, <1>6 DEF ScoreInv, CachedInv
<1>8. OrderInv'
  <2> SUFFICES ASSUME ~broken' PROVE (OneConsumer /\ LastTold /\ LastQueued /\ LastHandled /\ LastStored)'
    BY DEF OrderInv
  <2>1. OneConsumer /\ LastTold /\ LastQueued /\ LastHandled /\ LastStored
    BY <1>2 DEF ScoreInv, OrderInv
  <2>2. OneConsumer'
    BY <1>2, <2>1 DEF OneConsumer
  <2>3. ASSUME NEW q \in Procs, pc'[q] \in {"hdel", "publish"} PROVE latest'[req'[q].user] = req'[q].score
    <3>1. CASE q = p
      BY <1>2, <1>3, <3>1
    <3>2. CASE q # p
      <4>1. pc[q] \in {"hdel", "publish"} /\ req[q] # None /\ req[q] \in Event
        BY <1>2, <2>3, <3>2 DEF TypeInv, Types, RequestsOK
      <4>2. req[q].user # u /\ req[q].user \in Users
        BY <1>1, <3>2, <4>1 DEF TypeInv, RequestsOK, Event
      <4> QED BY <1>2, <1>3, <2>1, <4>1, <4>2 DEF LastTold
    <3> QED BY <3>1, <3>2
  <2>4. LastQueued'
    <3>1. ASSUME NEW i \in 1..Len(queue), NEW v, v = queue[i].user, ~Telling(v)',
                 \A j \in 1..Len(queue) : j > i => queue[j].user # v
          PROVE  latest'[v] = queue[i].score
      <4>1. queue[i] \in Event
        BY DEF TypeInv, Types
      <4>2. v # u /\ v \in Users
        BY <1>4, <3>1, <4>1 DEF Event
      <4> QED BY <1>3, <1>4, <2>1, <3>1, <4>2 DEF LastQueued
    <3> QED BY <1>2, <3>1 DEF LastQueued
  <2>5. LastHandled'
    <3>1. ASSUME NEW c \in Consumers, lpc[c] \in {"rating", "post", "save"}, NEW v, v = event[c].user,
                 ~Telling(v)', ~Queued(v)'
          PROVE  latest'[v] = event[c].score
      <4>1. event[c] \in Event
        BY <3>1 DEF TypeInv, Types, ConsumersOK
      <4>2. v # u /\ v \in Users
        BY <1>4, <3>1, <4>1 DEF Event
      <4> QED BY <1>3, <1>4, <1>5, <2>1, <3>1, <4>2 DEF LastHandled
    <3> QED BY <1>2, <3>1 DEF LastHandled
  <2>6. LastStored'
    BY <1>2, <1>3, <1>4, <1>6, <2>1 DEF LastStored, Pending
  <2> QED BY <2>2, <2>3, <2>4, <2>5, <2>6 DEF LastTold
<1>9. FillInv'
  <2> SUFFICES ASSUME ~broken', ~raced'
               PROVE  /\ ~Filling' /\ \A q \in Procs : pc'[q] # "fill"
                      /\ \A v \in Users : cache'[v] \in {None, latest'[v]}
    BY DEF FillInv
  <2>1. ~broken /\ ~raced /\ ~Filling
    BY <1>1, <1>2
  <2>2. ~Filling' /\ \A q \in Procs : pc'[q] # "fill"
    BY <1>2, <2>1 DEF Filling
  <2> QED BY <1>3, <2>1, <2>2 DEF ScoreInv, FillInv
<1> QED BY <1>7, <1>8, <1>9 DEF ScoreInv

LEMMA RemoveDummyScores ==
  ASSUME TypeInv, ScoreInv, NEW p \in Procs, RemoveDummy(p)
  PROVE  ScoreInv'
<1>1. Moved(p, {"hdel"}, {"publish"}) /\ UNCHANGED <<latest, raced>> /\ \A u \in Users : cache'[u] = cache[u]
  BY RemoveDummyTypes
<1>2. snap' = snap
  BY DEF RemoveDummy
<1>3. SameWay
  BY <1>1 DEF SameWay, Moved, listenerVars
<1>4. OrderInv' /\ CachedInv'
  BY <1>1, <1>3, SameWayOrder, SameWayCached DEF ScoreInv
<1>5. /\ Filling' => Filling
      /\ \A q \in Procs : pc'[q] = "fill" => pc[q] = "fill"
      /\ \A v : Pending(v)' <=> Pending(v)
  BY <1>1, <1>3, SameWayPending DEF Filling, Moved
<1>6. FillInv'
  BY <1>1, <1>2, <1>3, <1>5 DEF ScoreInv, FillInv, SameWay
<1> QED BY <1>4, <1>6 DEF ScoreInv

LEMMA PublishScores ==
  ASSUME TypeInv, ScoreInv, NEW p \in Procs, Publish(p)
  PROVE  ScoreInv'
<1> PICK u, n : u = req[p].user /\ n = Len(queue) + 1
  OBVIOUS
<1>1. /\ pc[p] = "publish" /\ pc'[p] = "idle" /\ req[p] \in Event /\ queue' = Append(queue, req[p])
      /\ \A q \in Procs \ {p} : pc'[q] = pc[q] /\ req'[q] = req[q]
  BY PublishTypes
<1>2. UNCHANGED <<cache, snap, lpc, event, old, stored, latest, raced, broken>>
  BY DEF Publish, listenerVars, historyVars
<1>3. /\ Len(queue) \in Nat /\ Len(queue') = n /\ queue'[n] = req[p]
      /\ \A i \in 1..Len(queue) : queue'[i] = queue[i]
  BY <1>1, QueueTypes DEF TypeInv, Types
<1>4. u \in Users /\ req[p] # None
  BY <1>1, RatingAssumption DEF Event
<1>5. Telling(u) /\ ~Telling(u)' /\ \A v : v # u => (Telling(v)' <=> Telling(v))
  <2>1. ASSUME NEW q \in Procs \ {p}, pc[q] \in {"hdel", "publish"} PROVE req[q].user # u
    BY <1>4, <2>1 DEF TypeInv, RequestsOK
  <2> QED BY <1>1, <2>1 DEF Telling
<1>6. Queued(u)' /\ \A v : v # u => (Queued(v)' <=> Queued(v))
  <2>1. n \in 1..n /\ \A i \in 1..n : i = n \/ i \in 1..Len(queue)
    BY <1>3
  <2>2. \A i \in 1..Len(queue) : i \in 1..n
    BY <1>3
  <2> QED BY <1>3, <2>1, <2>2 DEF Queued
<1>7. \A v : (Handling(v)' <=> Handling(v)) /\ (Held(v)' <=> Held(v))
  BY <1>2 DEF Handling, Held
<1>8. Pending(u) /\ \A v : v # u => (Pending(v)' <=> Pending(v))
  BY <1>5, <1>6, <1>7 DEF Pending
<1>9. CachedInv'
  BY <1>2, <1>4, <1>7, <1>8 DEF ScoreInv, CachedInv
<1>10. OrderInv'
  <2> SUFFICES ASSUME ~broken' PROVE (OneConsumer /\ LastTold /\ LastQueued /\ LastHandled /\ LastStored)'
    BY DEF OrderInv
  <2>1. OneConsumer /\ LastTold /\ LastQueued /\ LastHandled /\ LastStored
    BY <1>2 DEF ScoreInv, OrderInv
  <2>2. OneConsumer'
    BY <1>2, <2>1 DEF OneConsumer
  <2>3. LastTold'
    BY <1>1, <1>2, <2>1 DEF LastTold
  <2>4. LastQueued'
    <3> SUFFICES ASSUME NEW i \in 1..n, NEW v, v = queue'[i].user, ~Telling(v)',
                        \A j \in 1..n : j > i => queue'[j].user # v
                 PROVE  latest[v] = queue'[i].score
      BY <1>2, <1>3 DEF LastQueued
    <3>1. CASE i = n
      BY <1>1, <1>3, <2>1, <3>1 DEF LastTold
    <3>2. CASE i # n
      <4>1. i \in 1..Len(queue) /\ n > i /\ n \in 1..n /\ \A j \in 1..Len(queue) : j \in 1..n
        BY <1>3, <3>2
      <4>2. queue'[i] = queue[i] /\ v # u /\ v = queue[i].user
        BY <1>3, <4>1
      <4>3. ~Telling(v)
        BY <1>5, <4>2
      <4>4. \A j \in 1..Len(queue) : j > i => queue[j].user # v
        BY <1>3, <4>1, <4>2
      <4> QED BY <2>1, <4>1, <4>2, <4>3, <4>4 DEF LastQueued
    <3> QED BY <3>1, <3>2
  <2>5. LastHandled'
    BY <1>2, <1>5, <1>6, <2>1 DEF LastHandled
  <2>6. LastStored'
    BY <1>2, <1>6, <1>8, <2>1 DEF LastStored, Pending
  <2> QED BY <2>2, <2>3, <2>4, <2>5, <2>6
<1>11. FillInv'
  <2> SUFFICES ASSUME ~broken', ~raced'
               PROVE  /\ ~Filling' /\ \A q \in Procs : pc'[q] # "fill"
                      /\ \A v \in Users : cache'[v] \in {None, latest'[v]}
    BY DEF FillInv
  <2>1. ~broken /\ ~raced /\ ~Filling
    BY <1>2, <1>4, <1>8 DEF ScoreInv, FillInv
  <2>2. ~Filling' /\ \A q \in Procs : pc'[q] # "fill"
    BY <1>1, <2>1 DEF Filling
  <2> QED BY <1>2, <2>1, <2>2 DEF ScoreInv, FillInv
<1> QED BY <1>9, <1>10, <1>11 DEF ScoreInv

LEMMA HandlerFailsScores ==
  ASSUME TypeInv, ScoreInv, NEW p \in Procs, HandlerFails(p)
  PROVE  ScoreInv'
<1>1. /\ broken' /\ \A q \in Procs \ {p} : pc'[q] = pc[q] /\ req'[q] = req[q]
      /\ pc[p] \notin {"hdel", "publish"} => pc'[p] = "idle"
      /\ pc'[p] \in {"hdel", "publish"} => req'[p] = req[p]
  BY HandlerFailsTypes
<1>2. UNCHANGED <<cache, queue, lpc, event>>
  BY DEF HandlerFails, listenerVars
<1>3. \A u : Pending(u)' \/ Held(u)' => Pending(u) \/ Held(u)
  BY <1>1, <1>2 DEF Pending, Telling, Queued, Handling, Held
<1> QED BY <1>1, <1>2, <1>3 DEF ScoreInv, CachedInv, OrderInv, FillInv

LEMMA ExpireScores ==
  ASSUME TypeInv, ScoreInv, Expire
  PROVE  ScoreInv'
<1>1. /\ queue = <<>> /\ (\A p \in Procs : pc[p] = "idle") /\ (\A c \in Consumers : lpc[c] = "idle")
      /\ cache' = [f \in Fields |-> None]
      /\ UNCHANGED <<pc, req, snap, queue, lpc, event, old, stored, latest, raced, broken>>
  BY DEF Expire, handlerVars, listenerVars, historyVars
<1>2. SameWay
  BY <1>1 DEF SameWay
<1>3. Len(queue) = 0
  BY <1>1
<1>4. \A u : ~Pending(u) /\ ~Held(u) /\ ~Filling
  BY <1>1, <1>3 DEF Pending, Telling, Queued, Handling, Held, Filling
<1>5. \A u : ~Pending(u)' /\ ~Held(u)'
  BY <1>2, <1>4, SameWayPending
<1>6. ~Filling' /\ \A p \in Procs : pc'[p] # "fill"
  BY <1>1 DEF Filling
<1>7. CachedInv'
  BY <1>5 DEF CachedInv
<1>8. FillInv'
  BY <1>1, <1>6 DEF FillInv, Fields
<1> QED BY <1>2, <1>7, <1>8, SameWayOrder DEF ScoreInv

\* A step of a consumer leaves the hash and its handlers alone.
LEMMA ConsumerCarries ==
  ASSUME TypeInv, ScoreInv, NEW c \in Consumers, Listen(c),
         \A u : Pending(u)' \/ Held(u)' => Pending(u) \/ Held(u),
         ~broken' => ~broken /\ \A u : Pending(u)' => Pending(u),
         OrderInv'
  PROVE  ScoreInv'
<1>1. UNCHANGED <<cache, pc, snap, latest, raced>>
  BY ConsumerTypes DEF handlerVars
<1>2. CachedInv'
  BY <1>1 DEF ScoreInv, CachedInv
<1>3. Filling' <=> Filling
  BY <1>1 DEF Filling
<1>4. FillInv'
  BY <1>1, <1>3 DEF ScoreInv, FillInv
<1> QED BY <1>2, <1>4 DEF ScoreInv

LEMMA TellingStays ==
  ASSUME TypeInv, NEW c \in Consumers, Listen(c)
  PROVE  \A u : Telling(u)' <=> Telling(u)
<1>1. UNCHANGED <<pc, req>>
  BY ConsumerTypes DEF handlerVars
<1> QED BY <1>1 DEF Telling

LEMMA ReceiveScores ==
  ASSUME TypeInv, ScoreInv, NEW c \in Consumers, Receive(c)
  PROVE  ScoreInv'
<1>0. Listen(c)
  BY DEF Listen
<1>1. /\ lpc[c] = "idle" /\ queue # <<>> /\ queue' = Tail(queue) /\ queue \in Seq(Event)
      /\ UNCHANGED <<pc, req, old, stored, latest>>
      /\ broken' = (broken \/ \E d \in Consumers : lpc[d] # "idle")
  BY DEF Receive, handlerVars, TypeInv, Types
<1>2. /\ lpc'[c] = "rating" /\ event'[c] = queue[1]
      /\ \A d \in Consumers \ {c} : lpc'[d] = lpc[d] /\ event'[d] = event[d]
  BY <1>0, <1>1, AtSteps, ConsumerTypes, TailTypes DEF Receive, TypeInv, Types
<1>3. PICK u, n : u = queue[1].user /\ n = Len(queue)
  OBVIOUS
<1>4. /\ n \in Nat /\ 1 \in 1..n
      /\ \A i \in 1..Len(queue') : i + 1 \in 1..n /\ queue'[i] = queue[i + 1]
      /\ \A i \in 1..n : i # 1 => i - 1 \in 1..Len(queue') /\ queue'[i - 1] = queue[i]
      /\ Len(queue') \in Nat
  BY <1>1, <1>3, TailTypes
<1>5. \A v : Telling(v)' <=> Telling(v)
  BY <1>0, TellingStays
<1>6. Queued(u) /\ \A v : /\ Queued(v)' => Queued(v)
                          /\ v # u /\ Queued(v) => Queued(v)'
  BY <1>3, <1>4 DEF Queued
<1>7. Handling(u)' /\ \A v : v # u => (Handling(v)' <=> Handling(v))
  BY <1>1, <1>2, <1>3 DEF Handling
<1>8. \A v : v # u => (Held(v)' <=> Held(v))
  BY <1>1, <1>2, <1>3 DEF Held
<1>9. Pending(u) /\ Pending(u)' /\ \A v : v # u => (Pending(v)' <=> Pending(v))
  BY <1>5, <1>6, <1>7 DEF Pending
<1>10. OrderInv'
  <2> SUFFICES ASSUME ~broken' PROVE (OneConsumer /\ LastTold /\ LastQueued /\ LastHandled /\ LastStored)'
    BY DEF OrderInv
  <2>1. OneConsumer /\ LastTold /\ LastQueued /\ LastHandled /\ LastStored
    BY <1>1 DEF ScoreInv, OrderInv
  <2>2. \A d \in Consumers \ {c} : lpc'[d] = "idle"
    BY <1>1, <1>2
  <2>3. OneConsumer'
    BY <1>2, <2>2 DEF OneConsumer
  <2>4. LastTold'
    BY <1>1, <2>1 DEF LastTold
  <2>5. LastQueued'
    <3> SUFFICES ASSUME NEW i \in 1..Len(queue'), NEW v, v = queue'[i].user, ~Telling(v)',
                        \A j \in 1..Len(queue') : j > i => queue'[j].user # v
                 PROVE  latest[v] = queue'[i].score
      BY <1>1 DEF LastQueued
    <3>1. i + 1 \in 1..n /\ queue'[i] = queue[i + 1] /\ ~Telling(v)
      BY <1>4, <1>5
    <3>2. ASSUME NEW j \in 1..n, j > i + 1 PROVE queue[j].user # v
      <4>1. j # 1 /\ j - 1 > i
        BY <1>4, <3>2
      <4>2. j - 1 \in 1..Len(queue') /\ queue'[j - 1] = queue[j]
        BY <1>4, <4>1
      <4> QED BY <4>1, <4>2
    <3> QED BY <1>3, <2>1, <3>1, <3>2 DEF LastQueued
  <2>6. LastHandled'
    <3> SUFFICES ASSUME ~Telling(u)', ~Queued(u)' PROVE latest[u] = queue[1].score
      BY <1>1, <1>2, <1>3, <2>2 DEF LastHandled
    <3>1. ~Telling(u)
      BY <1>5
    <3>2. ASSUME NEW j \in 1..n, j > 1 PROVE queue[j].user # u
      <4>1. j # 1
        BY <1>4, <3>2
      <4>2. j - 1 \in 1..Len(queue') /\ queue'[j - 1] = queue[j]
        BY <1>4, <4>1
      <4> QED BY <4>2 DEF Queued
    <3> QED BY <1>3, <1>4, <2>1, <3>1, <3>2 DEF LastQueued
  <2>7. LastStored'
    BY <1>1, <1>9, <2>1 DEF LastStored
  <2> QED BY <2>3, <2>4, <2>5, <2>6, <2>7
<1> QED BY <1>0, <1>1, <1>8, <1>9, <1>10, ConsumerCarries

\* Reading, counting and telling the author move no score.
LEMMA QuietScores ==
  ASSUME TypeInv, ScoreInv, NEW c \in Consumers,
         FindOldRating(c) \/ FindPost(c) \/ UpdateAverage(c) \/ Notify(c)
  PROVE  ScoreInv'
<1>0. Listen(c)
  BY DEF Listen
<1>1. UNCHANGED <<pc, req, queue, stored, broken, latest>>
  BY DEF FindOldRating, FindPost, UpdateAverage, Notify, handlerVars, historyVars
<1>2. \A d \in Consumers \ {c} : lpc'[d] = lpc[d] /\ event'[d] = event[d] /\ old'[d] = old[d]
  BY <1>0, ConsumerTypes
<1>3. /\ lpc[c] # "idle"
      /\ lpc'[c] \in {"rating", "post", "save"} <=> lpc[c] \in {"rating", "post", "save"}
      /\ lpc'[c] # "idle" => event'[c] = event[c]
      /\ lpc'[c] = "post" => old'[c] = stored[event[c].user]
      /\ lpc'[c] = "save" => lpc[c] = "post" /\ old'[c] = old[c]
  <2>1. CASE FindOldRating(c)
    BY <2>1, AtSteps DEF FindOldRating, TypeInv, Types
  <2>2. CASE FindPost(c)
    BY <2>2, AtSteps DEF FindPost, TypeInv, Types
  <2>3. CASE UpdateAverage(c) \/ Notify(c)
    <3>1. (At(c, "notify") /\ event' = event) \/ At(c, "idle")
      BY <2>3 DEF UpdateAverage, Notify, Done
    <3>2. lpc'[c] = "idle" \/ (lpc'[c] = "notify" /\ event' = event)
      BY <3>1, AtSteps
    <3>3. lpc[c] \in {"average", "notify"}
      BY <2>3 DEF UpdateAverage, Notify
    <3> QED BY <3>2, <3>3
  <2> QED BY <2>1, <2>2, <2>3
<1>4. \A u : /\ Telling(u)' <=> Telling(u)
             /\ Queued(u)' <=> Queued(u)
             /\ Handling(u)' <=> Handling(u)
             /\ Held(u)' => Held(u)
  BY <1>1, <1>2, <1>3 DEF Telling, Queued, Handling, Held
<1>5. \A u : Pending(u)' <=> Pending(u)
  BY <1>4 DEF Pending
<1>6. OrderInv'
  <2> SUFFICES ASSUME ~broken' PROVE (OneConsumer /\ LastTold /\ LastQueued /\ LastHandled /\ LastStored)'
    BY DEF OrderInv
  <2>1. OneConsumer /\ LastTold /\ LastQueued /\ LastHandled /\ LastStored
    BY <1>1 DEF ScoreInv, OrderInv
  <2>2. OneConsumer'
    <3>1. \A d, e \in Consumers : lpc'[d] # "idle" /\ lpc'[e] # "idle" => d = e
      BY <1>2, <1>3, <2>1 DEF OneConsumer
    <3>2. \A d \in Consumers : lpc'[d] \in {"post", "save"} => old'[d] = stored'[event'[d].user]
      BY <1>1, <1>2, <1>3, <2>1 DEF OneConsumer
    <3> QED BY <3>1, <3>2 DEF OneConsumer
  <2>3. LastTold'
    BY <1>1, <2>1 DEF LastTold
  <2>4. LastQueued'
    BY <1>1, <1>4, <2>1 DEF LastQueued
  <2>5. LastHandled'
    <3> SUFFICES ASSUME NEW d \in Consumers, lpc'[d] \in {"rating", "post", "save"}, NEW v,
                        v = event'[d].user, ~Telling(v)', ~Queued(v)'
                 PROVE  latest[v] = event'[d].score
      BY <1>1 DEF LastHandled
    <3>1. lpc[d] \in {"rating", "post", "save"} /\ event'[d] = event[d]
      BY <1>2, <1>3
    <3> QED BY <1>4, <2>1, <3>1 DEF LastHandled
  <2>6. LastStored'
    BY <1>1, <1>5, <2>1 DEF LastStored
  <2> QED BY <2>2, <2>3, <2>4, <2>5, <2>6
<1> QED BY <1>0, <1>1, <1>4, <1>5, <1>6, ConsumerCarries

\* The score reaches MongoDB.
LEMMA SaveRatingScores ==
  ASSUME TypeInv, ScoreInv, NEW c \in Consumers, SaveRating(c)
  PROVE  ScoreInv'
<1>0. Listen(c)
  BY DEF Listen
<1>1. /\ lpc[c] = "save" /\ event[c] \in Event
      /\ UNCHANGED <<pc, req, queue, broken, latest>>
  BY DEF SaveRating, handlerVars, historyVars, TypeInv, Types, ConsumersOK
<1>2. PICK u, s : u = event[c].user /\ s = event[c].score /\ u \in Users /\ s \in Scores
  BY <1>1 DEF Event
<1>3. \A d \in Consumers \ {c} : lpc'[d] = lpc[d] /\ event'[d] = event[d] /\ old'[d] = old[d]
  BY <1>0, ConsumerTypes
<1>4. /\ lpc'[c] \in {"idle", "average"}
      /\ lpc'[c] # "idle" => event'[c] = event[c]
      /\ \A v \in Users \ {u} : stored'[v] = stored[v]
      /\ old[c] = stored[u] => stored'[u] = s
  <2>1. CASE (old[c] = s \/ ~Saved(c)) /\ Done(c) /\ stored' = stored
    <3>1. lpc'[c] = "idle"
      BY <2>1, AtSteps DEF Done
    <3>2. old[c] = stored[u] => old[c] = s
      BY <1>2, <2>1 DEF Saved
    <3> QED BY <2>1, <3>1, <3>2
  <2>2. CASE stored' = [stored EXCEPT ![u] = s] /\ At(c, "average") /\ event' = event
    <3>1. lpc'[c] = "average"
      BY <2>2, AtSteps
    <3> QED BY <1>2, <2>2, <3>1 DEF TypeInv, Types
  <2> QED BY <1>2, <2>1, <2>2 DEF SaveRating
<1>5. \A v : /\ Telling(v)' <=> Telling(v)
             /\ Queued(v)' <=> Queued(v)
             /\ Handling(v)' => Handling(v)
             /\ v # u => (Handling(v)' <=> Handling(v))
             /\ Held(v)' => Held(v)
  BY <1>1, <1>2, <1>3, <1>4 DEF Telling, Queued, Handling, Held
<1>6. \A v : (Pending(v)' => Pending(v)) /\ (v # u => (Pending(v)' <=> Pending(v)))
  BY <1>5 DEF Pending
<1>7. OrderInv'
  <2> SUFFICES ASSUME ~broken' PROVE (OneConsumer /\ LastTold /\ LastQueued /\ LastHandled /\ LastStored)'
    BY DEF OrderInv
  <2>1. OneConsumer /\ LastTold /\ LastQueued /\ LastHandled /\ LastStored
    BY <1>1 DEF ScoreInv, OrderInv
  <2>2. \A d \in Consumers \ {c} : lpc'[d] = "idle"
    BY <1>1, <1>3, <2>1 DEF OneConsumer
  <2>3. OneConsumer'
    BY <1>4, <2>2 DEF OneConsumer
  <2>4. LastTold'
    BY <1>1, <2>1 DEF LastTold
  <2>5. LastQueued'
    BY <1>1, <1>5, <2>1 DEF LastQueued
  <2>6. LastHandled'
    BY <1>4, <2>2 DEF LastHandled
  <2>7. stored'[u] = s
    BY <1>1, <1>2, <1>4, <2>1 DEF OneConsumer
  <2>8. ~Telling(u) /\ ~Queued(u) => latest[u] = s
    BY <1>1, <1>2, <2>1 DEF LastHandled
  <2>9. ASSUME NEW v \in Users, ~Pending(v)' PROVE latest[v] = stored'[v]
    <3>1. CASE v = u
      BY <1>5, <2>7, <2>8, <2>9, <3>1 DEF Pending
    <3>2. CASE v # u
      BY <1>4, <1>6, <2>1, <2>9, <3>2 DEF LastStored
    <3> QED BY <3>1, <3>2
  <2>10. LastStored'
    BY <1>1, <2>9 DEF LastStored
  <2> QED BY <2>3, <2>4, <2>5, <2>6, <2>10
<1> QED BY <1>0, <1>1, <1>5, <1>6, <1>7, ConsumerCarries

LEMMA ListenerFailsScores ==
  ASSUME TypeInv, ScoreInv, NEW c \in Consumers, ListenerFails(c)
  PROVE  ScoreInv'
<1>0. Listen(c)
  BY DEF Listen
<1>1. /\ broken' /\ lpc[c] # "idle" /\ event[c] \in Event /\ queue \in Seq(Event)
      /\ queue' = queue \/ queue' = <<event[c]>> \o queue
  BY DEF ListenerFails, TypeInv, Types, ConsumersOK
<1>2. lpc'[c] = "idle" /\ \A d \in Consumers \ {c} : lpc'[d] = lpc[d] /\ event'[d] = event[d]
  BY <1>0, AtSteps, ConsumerTypes DEF ListenerFails, Done
<1>3. \A v : (Telling(v)' <=> Telling(v)) /\ (Handling(v)' => Handling(v)) /\ (Held(v)' => Held(v))
  BY <1>0, <1>2, TellingStays DEF Handling, Held
<1>4. \A i \in 1..Len(queue') : queue'[i] = event[c] \/ \E j \in 1..Len(queue) : queue'[i] = queue[j]
  <2>1. CASE queue' = queue
    BY <2>1
  <2>2. CASE queue' = <<event[c]>> \o queue
    <3>1. <<event[c]>> \in Seq(Event) /\ Len(<<event[c]>>) = 1 /\ <<event[c]>>[1] = event[c]
      BY <1>1
    <3>2. \A i \in 1..Len(queue') : IF i <= 1 THEN queue'[i] = <<event[c]>>[i] ELSE queue'[i] = queue[i - 1]
      BY <1>1, <2>2, <3>1
    <3>3. \A i \in 1..Len(queue') : i <= 1 \/ i - 1 \in 1..Len(queue)
      BY <1>1, <2>2, <3>1
    <3> QED BY <3>1, <3>2, <3>3
  <2> QED BY <1>1, <2>1, <2>2
<1>5. \A v : Queued(v)' => Queued(v) \/ Held(v)
  BY <1>1, <1>4 DEF Queued, Held
<1>6. \A v : Pending(v)' \/ Held(v)' => Pending(v) \/ Held(v)
  BY <1>3, <1>5 DEF Pending
<1> QED BY <1>0, <1>1, <1>6, ConsumerCarries DEF OrderInv

LEMMA InitScores == Init => ScoreInv
<1> SUFFICES ASSUME Init PROVE ScoreInv
  OBVIOUS
<1>1. /\ queue = <<>> /\ (\A p \in Procs : pc[p] = "idle") /\ (\A c \in Consumers : lpc[c] = "idle")
      /\ (\A f \in Fields : cache[f] = None) /\ stored = latest
  BY DEF Init
<1>2. Len(queue) = 0 /\ 1..Len(queue) = {}
  BY <1>1
<1>3. \A u : ~Pending(u) /\ ~Held(u)
  BY <1>1, <1>2 DEF Pending, Telling, Queued, Handling, Held
<1>4. CachedInv
  BY <1>3 DEF CachedInv
<1>5. OrderInv
  BY <1>1, <1>2 DEF OrderInv, OneConsumer, LastTold, LastQueued, LastHandled, LastStored
<1>6. FillInv
  BY <1>1, <1>3 DEF FillInv, Filling, Fields
<1> QED BY <1>4, <1>5, <1>6 DEF ScoreInv

LEMMA ScoresKept == Spec => []ScoreInv
<1>1. TypeInv /\ ScoreInv /\ [Next]_vars => ScoreInv'
  <2> SUFFICES ASSUME TypeInv, ScoreInv, [Next]_vars PROVE ScoreInv'
    OBVIOUS
  <2>1. ASSUME NEW p \in Procs, NEW u \in Users, NEW s \in Scores, Begin(p, u, s) PROVE ScoreInv'
    BY <2>1, BeginScores
  <2>2. ASSUME NEW p \in Procs, Rate(p) PROVE ScoreInv'
    BY <2>2, WalkScores, SetScoreScores, RemoveDummyScores, PublishScores, HandlerFailsScores DEF Rate
  <2>3. ASSUME NEW c \in Consumers, Listen(c) PROVE ScoreInv'
    BY <2>3, ReceiveScores, QuietScores, SaveRatingScores, ListenerFailsScores DEF Listen
  <2>4. CASE Expire
    BY <2>4, ExpireScores
  <2>5. CASE UNCHANGED vars
    <3>1. SameWay /\ UNCHANGED <<pc, snap, cache, latest, raced, broken>>
      BY <2>5 DEF vars, handlerVars, listenerVars, historyVars, SameWay
    <3>2. OrderInv' /\ CachedInv'
      BY <3>1, SameWayOrder, SameWayCached DEF ScoreInv
    <3>3. (Filling' <=> Filling) /\ \A u : Pending(u)' <=> Pending(u)
      BY <3>1, SameWayPending DEF Filling
    <3>4. FillInv'
      BY <3>1, <3>3 DEF ScoreInv, FillInv
    <3> QED BY <3>2, <3>4 DEF ScoreInv
  <2> QED BY <2>1, <2>2, <2>3, <2>4, <2>5 DEF Next
<1> QED BY <1>1, InitScores, TypesHold, PTL DEF Spec

\* Once everything is handled, MongoDB and the hash have what each user gave last, if
\* events were handled one by one, no step failed, and nobody rated while a handler
\* was filling the hash.
THEOREM ScoresSettle == Spec => []SettledScores
<1>1. TypeInv /\ ScoreInv => SettledScores
  <2> SUFFICES ASSUME TypeInv, ScoreInv, Settled, ~broken, ~raced PROVE CacheAgrees /\ stored = latest
    BY DEF SettledScores
  <2>1. \A u \in Users : ~Pending(u)
    <3>1. 1..Len(queue) = {}
      BY DEF Settled
    <3> QED BY <3>1 DEF Settled, Pending, Telling, Queued, Handling
  <2>2. \A u \in Users : latest[u] = stored[u]
    BY <2>1 DEF ScoreInv, OrderInv, LastStored
  <2>3. stored = latest
    BY <2>2 DEF TypeInv, Types
  <2>4. \A u \in Users : cache[u] \in {None, latest[u]}
    BY DEF ScoreInv, FillInv
  <2> QED BY <2>2, <2>3, <2>4 DEF CacheAgrees
<1> QED BY <1>1, TypesHold, ScoresKept, PTL DEF Spec

-----------------------------------------------------------------------------
(* Induction and sums. *)

LEMMA Smallest ==
  ASSUME NEW T \in SUBSET Nat, T # {}
  PROVE  \E n \in T : \A m \in T : n <= m
<1> DEFINE Less == {ss \in Nat \X Nat : ss[1] < ss[2]}
<1>1. IsWellFoundedOn(Less, Nat)
  BY NatLessThanWellFounded DEF OpToRel
<1>2. PICK n \in T : \A m \in T : <<m, n>> \notin Less
  <2> HIDE DEF Less
  <2> QED BY <1>1, WFMin
<1>3. ASSUME NEW m \in T, m < n
      PROVE  FALSE
  <2>1. <<m, n>> \in Nat \X Nat /\ <<m, n>>[1] = m /\ <<m, n>>[2] = n
    OBVIOUS
  <2>2. <<m, n>> \in Less
    BY <1>3, <2>1
  <2> QED BY <1>2, <2>2
<1> QED BY <1>3

LEMMA NatInd ==
  ASSUME NEW T \in SUBSET Nat, 0 \in T, \A n \in T : n + 1 \in T
  PROVE  T = Nat
<1> SUFFICES ASSUME T # Nat PROVE FALSE
  OBVIOUS
<1>1. PICK n \in Nat \ T : \A m \in Nat \ T : n <= m
  BY Smallest
<1>2. n # 0 /\ n - 1 \in Nat
  BY <1>1
<1>3. n - 1 \in T
  BY <1>1, <1>2
<1> QED BY <1>1, <1>2, <1>3

Chosen(S) == CHOOSE x \in S : TRUE

\* g adds up the numbers s gives to the members of each subset of U.
Sums(g, s, U) ==
    /\ g[{}] = 0
    /\ \A S \in SUBSET U : S # {} => g[S] = s[Chosen(S)] + g[S \ {Chosen(S)}]

LEMMA Smaller ==
  ASSUME NEW S, IsFiniteSet(S), NEW x \in S
  PROVE  /\ IsFiniteSet(S \ {x}) /\ Cardinality(S) # 0
         /\ Cardinality(S \ {x}) = Cardinality(S) - 1
<1>1. Cardinality(S) \in Nat /\ IsFiniteSet(S \ {x})
  BY FS_CardinalityType, FS_RemoveElement
<1>2. Cardinality(S \ {x}) = Cardinality(S) - 1 /\ Cardinality(S \ {x}) \in Nat
  BY <1>1, FS_RemoveElement, FS_CardinalityType
<1>3. Cardinality(S) # 0
  BY <1>1, <1>2
<1> QED BY <1>1, <1>2, <1>3

LEMMA NextIn ==
  ASSUME NEW S, S # {}
  PROVE  Chosen(S) \in S
BY DEF Chosen

\* Finite sets by their size.
LEMMA SumsExist ==
  ASSUME NEW U, IsFiniteSet(U), NEW s, \A u \in U : s[u] \in Nat
  PROVE  \E g \in [SUBSET U -> Nat] : Sums(g, s, U)
<1> DEFINE UpTo(n, g) == /\ g[{}] = 0
                         /\ \A S \in SUBSET U : S # {} /\ Cardinality(S) <= n
                               => g[S] = s[Chosen(S)] + g[S \ {Chosen(S)}]
           T == {n \in Nat : \E g \in [SUBSET U -> Nat] : UpTo(n, g)}
<1>0. \A S \in SUBSET U : IsFiniteSet(S) /\ Cardinality(S) \in Nat
  BY FS_Subset, FS_CardinalityType
<1>a. \A S \in SUBSET U : S # {} => /\ Chosen(S) \in U /\ S \ {Chosen(S)} \in SUBSET U
                                    /\ Cardinality(S) # 0
                                    /\ Cardinality(S \ {Chosen(S)}) = Cardinality(S) - 1
  BY <1>0, NextIn, Smaller
<1>1. 0 \in T
  <2> DEFINE g == [S \in SUBSET U |-> 0]
  <2>1. g \in [SUBSET U -> Nat] /\ g[{}] = 0
    OBVIOUS
  <2>2. ASSUME NEW S \in SUBSET U, S # {} PROVE ~(Cardinality(S) <= 0)
    <3>1. Cardinality(S) \in Nat /\ Cardinality(S) # 0
      BY <1>0, <1>a, <2>2
    <3> QED BY <3>1
  <2> HIDE DEF g
  <2>3. UpTo(0, g)
    BY <2>1, <2>2
  <2> QED BY <2>1, <2>3
<1>2. ASSUME NEW n \in T PROVE n + 1 \in T
  <2>1. PICK g \in [SUBSET U -> Nat] : UpTo(n, g)
    OBVIOUS
  <2> DEFINE h == [S \in SUBSET U |-> IF S # {} /\ Cardinality(S) = n + 1
                                      THEN s[Chosen(S)] + g[S \ {Chosen(S)}] ELSE g[S]]
  <2>2. h \in [SUBSET U -> Nat]
    BY <1>a
  <2>3. \A S \in SUBSET U : /\ S # {} /\ Cardinality(S) = n + 1 => h[S] = s[Chosen(S)] + g[S \ {Chosen(S)}]
                            /\ ~(S # {} /\ Cardinality(S) = n + 1) => h[S] = g[S]
    OBVIOUS
  <2> HIDE DEF h
  <2>4. h[{}] = 0
    BY <2>1, <2>3
  <2>5. ASSUME NEW S \in SUBSET U, S # {}, Cardinality(S) <= n + 1
        PROVE  h[S] = s[Chosen(S)] + h[S \ {Chosen(S)}]
    <3>1. Cardinality(S \ {Chosen(S)}) # n + 1
      <4>1. Cardinality(S) \in Nat /\ n \in Nat /\ Cardinality(S \ {Chosen(S)}) = Cardinality(S) - 1
        BY <1>0, <1>a, <2>5
      <4> QED BY <2>5, <4>1
    <3>2. h[S \ {Chosen(S)}] = g[S \ {Chosen(S)}]
      BY <1>a, <2>3, <2>5, <3>1
    <3>3. CASE Cardinality(S) = n + 1
      BY <2>3, <2>5, <3>2, <3>3
    <3>4. CASE Cardinality(S) # n + 1
      <4>1. Cardinality(S) <= n
        <5>1. Cardinality(S) \in Nat /\ n \in Nat
          BY <1>0
        <5> QED BY <2>5, <3>4, <5>1
      <4> QED BY <2>1, <2>3, <2>5, <3>2, <3>4, <4>1
    <3> QED BY <3>3, <3>4
  <2>6. UpTo(n + 1, h)
    BY <2>4, <2>5
  <2>7. n + 1 \in Nat
    OBVIOUS
  <2> HIDE DEF UpTo
  <2> QED BY <2>2, <2>6, <2>7
<1>3. T = Nat
  <2> HIDE DEF T
  <2>1. T \in SUBSET Nat
    BY DEF T
  <2> QED BY <1>1, <1>2, <2>1, NatInd
<1>4. PICK g \in [SUBSET U -> Nat] : UpTo(Cardinality(U), g)
  BY <1>0, <1>3
<1>5. \A S \in SUBSET U : Cardinality(S) <= Cardinality(U)
  BY FS_Subset
<1> QED BY <1>4, <1>5 DEF Sums

\* Two sums agree where the numbers do.
LEMMA SumsAgree ==
  ASSUME NEW U, IsFiniteSet(U), NEW V, NEW s, NEW t, NEW g, NEW h,
         Sums(g, s, U), Sums(h, t, V), U \subseteq V, \A u \in U : s[u] = t[u]
  PROVE  g[U] = h[U]
<1> DEFINE T == {n \in Nat : \A S \in SUBSET U : Cardinality(S) = n => g[S] = h[S]}
<1>0. \A S \in SUBSET U : IsFiniteSet(S) /\ Cardinality(S) \in Nat
  BY FS_Subset, FS_CardinalityType
<1>a. \A S \in SUBSET U : S # {} => /\ Chosen(S) \in U /\ S \ {Chosen(S)} \in SUBSET U
                                    /\ Cardinality(S) # 0
                                    /\ Cardinality(S \ {Chosen(S)}) = Cardinality(S) - 1
  BY <1>0, NextIn, Smaller
<1>1. 0 \in T
  <2>1. \A S \in SUBSET U : Cardinality(S) = 0 => S = {}
    BY <1>a
  <2> QED BY <2>1 DEF Sums
<1>2. ASSUME NEW n \in T PROVE n + 1 \in T
  <2> SUFFICES ASSUME NEW S \in SUBSET U, Cardinality(S) = n + 1 PROVE g[S] = h[S]
    OBVIOUS
  <2>0. n \in Nat
    OBVIOUS
  <2>1. S # {}
    <3>1. Cardinality({}) = 0 /\ Cardinality(S) # 0
      BY <2>0, FS_EmptySet
    <3> QED BY <3>1
  <2>2. Cardinality(S \ {Chosen(S)}) = n /\ S \ {Chosen(S)} \in SUBSET U
    <3>1. Cardinality(S \ {Chosen(S)}) = (n + 1) - 1 /\ S \ {Chosen(S)} \in SUBSET U
      BY <1>a, <2>1
    <3> QED BY <2>0, <3>1
  <2>3. g[S \ {Chosen(S)}] = h[S \ {Chosen(S)}]
    BY <2>2
  <2>4. s[Chosen(S)] = t[Chosen(S)] /\ S \in SUBSET V
    BY <1>a, <2>1
  <2> QED BY <2>1, <2>3, <2>4 DEF Sums
<1>3. T = Nat
  <2> HIDE DEF T
  <2>1. T \in SUBSET Nat
    BY DEF T
  <2> QED BY <1>1, <1>2, <2>1, NatInd
<1> QED BY <1>0, <1>3

\* A sum is the same in whatever order its members are taken.
LEMMA SumsRemove ==
  ASSUME NEW U, IsFiniteSet(U), NEW s, NEW g \in [SUBSET U -> Nat],
         \A u \in U : s[u] \in Nat, Sums(g, s, U), NEW y \in U
  PROVE  g[U] = s[y] + g[U \ {y}]
<1> DEFINE T == {n \in Nat : \A S \in SUBSET U : Cardinality(S) = n =>
                    \A x \in S : g[S] = s[x] + g[S \ {x}]}
<1>0. \A S \in SUBSET U : IsFiniteSet(S) /\ Cardinality(S) \in Nat
  BY FS_Subset, FS_CardinalityType
<1>a. \A S \in SUBSET U : \A x \in S : /\ S \ {x} \in SUBSET U
                                       /\ Cardinality(S) # 0
                                       /\ Cardinality(S \ {x}) = Cardinality(S) - 1
  BY <1>0, Smaller
<1>1. 0 \in T
  <2>1. \A S \in SUBSET U : \A x \in S : Cardinality(S) # 0
    BY <1>a
  <2> QED BY <2>1
<1>2. ASSUME NEW n \in T PROVE n + 1 \in T
  <2> SUFFICES ASSUME NEW S \in SUBSET U, Cardinality(S) = n + 1, NEW x \in S
               PROVE g[S] = s[x] + g[S \ {x}]
    OBVIOUS
  <2> DEFINE z == Chosen(S)
  <2>1. z \in S /\ g[S] = s[z] + g[S \ {z}]
    BY NextIn DEF Sums
  <2>2. /\ Cardinality(S \ {x}) = n /\ S \ {x} \in SUBSET U
        /\ Cardinality(S \ {z}) = n /\ S \ {z} \in SUBSET U
    <3>1. /\ Cardinality(S \ {x}) = (n + 1) - 1 /\ S \ {x} \in SUBSET U
          /\ Cardinality(S \ {z}) = (n + 1) - 1 /\ S \ {z} \in SUBSET U
      BY <1>a, <2>1
    <3>2. n \in Nat
      OBVIOUS
    <3> QED BY <3>1, <3>2
  <2> HIDE DEF z
  <2>3. CASE x # z
    <3>1. g[S \ {z}] = s[x] + g[(S \ {z}) \ {x}]
      BY <2>2, <2>3
    <3>2. g[S \ {x}] = s[z] + g[(S \ {x}) \ {z}]
      BY <2>1, <2>2, <2>3
    <3>3. (S \ {x}) \ {z} = (S \ {z}) \ {x} /\ (S \ {x}) \ {z} \in SUBSET U
      OBVIOUS
    <3>4. s[x] \in Nat /\ s[z] \in Nat /\ g[(S \ {x}) \ {z}] \in Nat
      BY <2>1, <3>3
    <3>5. \A a, b, c \in Nat : a + (b + c) = b + (a + c)
      OBVIOUS
    <3>6. g[S] = s[z] + (s[x] + g[(S \ {x}) \ {z}])
      BY <2>1, <3>1, <3>3
    <3> QED BY <3>2, <3>4, <3>5, <3>6
  <2> QED BY <2>1, <2>3
<1>3. T = Nat
  <2> HIDE DEF T
  <2>1. T \in SUBSET Nat
    BY DEF T
  <2> QED BY <1>1, <1>2, <2>1, NatInd
<1> QED BY <1>0, <1>3

ScoresOf == [Users -> Scores \cup {None}]

\* The fold that Total is made of.
LEMMA TotalFold ==
  ASSUME NEW s \in ScoresOf
  PROVE  \E g \in [SUBSET Raters(s) -> Nat] :
            /\ Sums(g, s, Raters(s)) /\ g[Raters(s)] = Total(s)
            /\ \A u \in Raters(s) : g[Raters(s)] = s[u] + g[Raters(s) \ {u}]
<1> DEFINE R == Raters(s)
           Iter(f) == f = [S \in SUBSET R |->
                              IF S = {} THEN 0
                              ELSE s[CHOOSE x \in S : TRUE] + f[S \ {CHOOSE x \in S : TRUE}]]
           iter == CHOOSE f : Iter(f)
<1>1. Total(s) = iter[R]
  BY DEF Total, MapThenSumSet, MapThenFoldSet
<1>2. IsFiniteSet(R) /\ \A u \in R : s[u] \in Nat
  BY RatersFinite, RatingAssumption DEF Raters, ScoresOf
<1> HIDE DEF R
<1>3. PICK g \in [SUBSET R -> Nat] : Sums(g, s, R)
  BY <1>2, SumsExist
<1>4. g = [S \in SUBSET R |-> g[S]]
  OBVIOUS
<1>5. \A S \in SUBSET R : g[S] = IF S = {} THEN 0
                              ELSE s[CHOOSE x \in S : TRUE] + g[S \ {CHOOSE x \in S : TRUE}]
  BY <1>3 DEF Sums, Chosen
<1>6. Iter(g)
  BY <1>4, <1>5
<1>7. Iter(iter)
  BY <1>6
<1> HIDE DEF iter
<1>8. Sums(iter, s, R)
  <2>1. \A S \in SUBSET R : iter[S] = IF S = {} THEN 0
                              ELSE s[CHOOSE x \in S : TRUE] + iter[S \ {CHOOSE x \in S : TRUE}]
    BY <1>7
  <2>2. {} \in SUBSET R
    OBVIOUS
  <2> QED BY <2>1, <2>2 DEF Sums, Chosen
<1>9. g[R] = iter[R]
  BY <1>2, <1>3, <1>8, SumsAgree
<1>10. ASSUME NEW u \in R PROVE g[R] = s[u] + g[R \ {u}]
  BY <1>2, <1>3, SumsRemove
<1> QED BY <1>1, <1>3, <1>9, <1>10 DEF R

LEMMA TotalNat ==
  ASSUME NEW s \in ScoresOf
  PROVE  Total(s) \in Nat
BY TotalFold

\* A new score adds itself and takes the old one off.
LEMMA TotalStep ==
  ASSUME NEW s \in ScoresOf, NEW u \in Users, NEW x \in Scores
  PROVE  Total([s EXCEPT ![u] = x]) = Total(s) + (IF s[u] = None THEN x ELSE x - s[u])
<1> DEFINE t == [s EXCEPT ![u] = x]
           R == Raters(s)
           Q == Raters(t)
<1>1. t \in ScoresOf /\ x \in Nat /\ x # None /\ t[u] = x /\ \A v \in Users \ {u} : t[v] = s[v]
  BY RatingAssumption DEF ScoresOf
<1>2. Q = R \cup {u} /\ Q \ {u} = R \ {u}
  BY <1>1 DEF Raters, ScoresOf
<1>3. /\ IsFiniteSet(R) /\ IsFiniteSet(Q) /\ IsFiniteSet(R \ {u})
      /\ (\A v \in R : s[v] \in Nat) /\ \A v \in Q : t[v] \in Nat
  <2>1. IsFiniteSet(R) /\ IsFiniteSet(Q)
    BY RatersFinite
  <2>2. IsFiniteSet(R \ {u})
    BY <2>1, FS_Subset
  <2> QED BY <1>1, <2>1, <2>2, RatingAssumption DEF Raters, ScoresOf
<1>4. \A v \in R \ {u} : s[v] = t[v]
  BY <1>1 DEF Raters
<1>5. (u \in R <=> s[u] # None) /\ (s[u] # None => s[u] \in Nat)
  BY RatingAssumption DEF Raters, ScoresOf
<1> HIDE DEF t
<1>6. PICK f \in [SUBSET R -> Nat] : Sums(f, s, R) /\ f[R] = Total(s)
                                   /\ \A v \in R : f[R] = s[v] + f[R \ {v}]
  BY TotalFold
<1>7. PICK g \in [SUBSET Q -> Nat] : Sums(g, t, Q) /\ g[Q] = Total(t)
                                   /\ \A v \in Q : g[Q] = t[v] + g[Q \ {v}]
  BY <1>1, TotalFold
<1> HIDE DEF R, Q
<1>8. g[Q] = x + g[R \ {u}]
  BY <1>1, <1>2, <1>7
<1>9. f[R \ {u}] = g[R \ {u}]
  <2>1. Sums(f, s, R \ {u})
    BY <1>6 DEF Sums
  <2>2. R \ {u} \subseteq Q
    BY <1>2
  <2> QED BY <1>3, <1>4, <1>7, <2>1, <2>2, SumsAgree
<1>10. g[R \ {u}] \in Nat /\ f[R] \in Nat
  BY <1>2, <1>6, <1>7
<1>11. CASE s[u] = None
  <2>1. R \ {u} = R
    BY <1>5, <1>11
  <2>2. Total(t) = x + g[R \ {u}] /\ Total(s) = g[R \ {u}]
    BY <1>6, <1>7, <1>8, <1>9, <2>1
  <2>3. \A a, b \in Nat : a + b = b + a
    OBVIOUS
  <2> QED BY <1>1, <1>10, <1>11, <2>2, <2>3 DEF t
<1>12. CASE s[u] # None
  <2>1. f[R] = s[u] + f[R \ {u}]
    BY <1>5, <1>6, <1>12
  <2>2. Total(t) = x + g[R \ {u}] /\ Total(s) = s[u] + g[R \ {u}]
    BY <1>6, <1>7, <1>8, <1>9, <2>1
  <2>3. \A a, b, c \in Nat : a + c = (b + c) + (a - b)
    OBVIOUS
  <2> QED BY <1>1, <1>5, <1>10, <1>12, <2>2, <2>3 DEF t
<1> QED BY <1>11, <1>12

LEMMA NoScores == 
  ASSUME NEW s \in ScoresOf, Raters(s) = {}
  PROVE  Total(s) = 0
BY TotalFold DEF Sums

-----------------------------------------------------------------------------
(* The average.  Whoever is to change it has read it as it is, and the stored *)
(* scores are ahead of it by what he is to add.                               *)

\* How many ratings, and by how much the total, a consumer at "average" adds.
New(c) == IF old[c] = None THEN 1 ELSE 0

\* The average and count are those of n scores that add up to t.
Shows(n, t) == post.count = n /\ post.num * post.count = t * post.den

SeenInv ==
    /\ post \in Post
    /\ seen \in [Consumers -> Post \cup {None}]
    /\ \A c \in Consumers : lpc[c] \in {"save", "average"} => seen[c] \in Post

OtherTypes ==
    /\ lock \in Procs \cup {None}
    /\ notified \subseteq Users
    /\ requests \in Nat /\ faults \in Nat

AverageInv ==
    ~broken =>
        /\ post.den # 0
        /\ \A c \in Consumers : lpc[c] \in {"save", "average"} => seen[c] = post
        /\ (\A c \in Consumers : lpc[c] # "average")
             => Shows(Cardinality(Raters(stored)), Total(stored))
        /\ \A c \in Consumers : lpc[c] = "average"
             => Shows(Cardinality(Raters(stored)) - New(c), Total(stored) - Gain(c))

LEMMA Products ==
  /\ \A a, b \in Nat : a * b \in Nat /\ (a # 0 /\ b # 0 => a * b # 0)
  /\ \A a, b \in Int : a * b \in Int
  /\ \A a, b, c \in Int : a * (b * c) = (a * b) * c
  /\ \A a, b, c \in Int : (a + b) * c = a * c + b * c
  /\ \A a, b, c \in Int : (a - b) * c = a * c - b * c
<1>1. \A a, b \in Nat : a * b \in Nat
  OBVIOUS
<1>2. \A a, b \in Nat : a # 0 /\ b # 0 => a * b # 0
  OBVIOUS
<1>3. \A a, b \in Int : a * b \in Int
  OBVIOUS
<1>4. \A a, b, c \in Int : a * (b * c) = (a * b) * c
  OBVIOUS
<1>5. \A a, b, c \in Int : (a + b) * c = a * c + b * c
  OBVIOUS
<1>6. \A a, b, c \in Int : (a - b) * c = a * c - b * c
  OBVIOUS
<1> QED BY <1>1, <1>2, <1>3, <1>4, <1>5, <1>6

LEMMA InitAverage == Init => SeenInv /\ OtherTypes /\ AverageInv
<1> SUFFICES ASSUME Init PROVE SeenInv /\ OtherTypes /\ AverageInv
  OBVIOUS
<1> DEFINE n == Cardinality(Raters(stored))
<1>1. stored \in ScoresOf /\ n \in Nat /\ Total(stored) \in Nat
  BY RatingAssumption, RatersFinite, TotalNat DEF Init, ScoresOf
<1>2. post = [num |-> Total(stored), den |-> IF n = 0 THEN 1 ELSE n, count |-> n]
  BY DEF Init
<1>3. n = 0 => Total(stored) = 0
  BY <1>1, RatersFinite, FS_EmptySet, NoScores
<1> HIDE DEF n
<1>4. post \in Post /\ post.den # 0 /\ post.count = n
  BY <1>1, <1>2 DEF Post
<1>5. post.num * post.count = Total(stored) * post.den
  <2>1. CASE n = 0
    BY <1>1, <1>2, <1>3, <2>1
  <2>2. CASE n # 0
    BY <1>1, <1>2, <2>2
  <2> QED BY <2>1, <2>2
<1>6. SeenInv /\ OtherTypes
  BY <1>4 DEF Init, SeenInv, OtherTypes
<1>7. AverageInv
  BY <1>4, <1>5 DEF Init, AverageInv, Shows, n
<1> QED BY <1>6, <1>7

\* What leaves the listener alone leaves the average alone.
LEMMA BystanderAverage ==
  ASSUME TypeInv, SeenInv, OtherTypes, AverageInv,
         UNCHANGED <<post, seen, lpc, old, event, stored>>, ~broken' => ~broken,
         lock' \in Procs \cup {None}, requests' \in Nat, faults' \in Nat, notified' = notified
  PROVE  SeenInv' /\ OtherTypes' /\ AverageInv'
<1>1. Raters(stored') = Raters(stored) /\ Total(stored') = Total(stored)
  OBVIOUS
<1>2. SeenInv' /\ OtherTypes'
  BY DEF SeenInv, OtherTypes
<1>3. AverageInv'
  BY <1>1 DEF AverageInv, Shows, New, Gain
<1> QED BY <1>2, <1>3

LEMMA HandlerAverage ==
  ASSUME TypeInv, SeenInv, OtherTypes, AverageInv,
         \/ \E p \in Procs : Rate(p) \/ \E u \in Users, s \in Scores : Begin(p, u, s)
         \/ Expire \/ UNCHANGED vars
  PROVE  SeenInv' /\ OtherTypes' /\ AverageInv'
<1>1. ASSUME NEW p \in Procs, Rate(p) \/ \E u \in Users, s \in Scores : Begin(p, u, s)
      PROVE  /\ UNCHANGED <<post, seen, lpc, old, event, stored, notified>> /\ (~broken' => ~broken)
             /\ lock' \in Procs \cup {None} /\ requests' \in Nat /\ faults' \in Nat
  <2>1. CASE Begin(p, req'[p].user, req'[p].score) \/ \E u \in Users, s \in Scores : Begin(p, u, s)
    BY <2>1 DEF Begin, listenerVars, historyVars, OtherTypes
  <2>2. CASE LookAtCache(p) \/ TryLock(p) \/ DoubleCheck(p) \/ FindRatings(p) \/ FillCache(p)
             \/ EndWarmUp(p)
    BY <2>2 DEF LookAtCache, TryLock, DoubleCheck, FindRatings, FillCache, EndWarmUp, Leave,
                listenerVars, historyVars, OtherTypes
  <2>3. CASE SetScore(p) \/ RemoveDummy(p) \/ Publish(p) \/ HandlerFails(p)
    BY <2>3 DEF SetScore, RemoveDummy, Publish, HandlerFails, Leave, listenerVars, historyVars, OtherTypes
  <2> QED BY <1>1, <2>1, <2>2, <2>3 DEF Rate
<1>2. ASSUME Expire \/ UNCHANGED vars
      PROVE  /\ UNCHANGED <<post, seen, lpc, old, event, stored, notified>> /\ (~broken' => ~broken)
             /\ lock' \in Procs \cup {None} /\ requests' \in Nat /\ faults' \in Nat
  BY <1>2 DEF Expire, vars, listenerVars, historyVars, OtherTypes
<1> QED BY <1>1, <1>2, BystanderAverage

\* The others of a consumer's step, and what it does to the small variables.
LEMMA ListenFrame ==
  ASSUME TypeInv, SeenInv, OtherTypes, NEW c \in Consumers, Listen(c)
  PROVE  /\ \A d \in Consumers \ {c} : /\ lpc'[d] = lpc[d] /\ event'[d] = event[d]
                                       /\ old'[d] = old[d] /\ seen'[d] = seen[d]
         /\ OtherTypes' /\ (~broken' => ~broken)
<1>1. \A d \in Consumers \ {c} : lpc'[d] = lpc[d] /\ event'[d] = event[d] /\ old'[d] = old[d]
  BY ConsumerTypes
<1>2. \A d \in Consumers \ {c} : seen'[d] = seen[d]
  BY DEF Listen, Receive, FindOldRating, FindPost, SaveRating, UpdateAverage, Notify, ListenerFails,
         Done, SeenInv
<1>3. ~broken' => ~broken
  BY DEF Listen, Receive, FindOldRating, FindPost, SaveRating, UpdateAverage, Notify, ListenerFails,
         historyVars
<1>4. OtherTypes'
  <2>1. CASE Notify(c)
    <3>1. event[c] \in Event
      BY <2>1 DEF Notify, TypeInv, Types, ConsumersOK
    <3> QED BY <2>1, <3>1 DEF Notify, OtherTypes, Event
  <2>2. CASE ~Notify(c)
    BY <2>2 DEF Listen, Receive, FindOldRating, FindPost, SaveRating, UpdateAverage, ListenerFails,
                OtherTypes
  <2> QED BY <2>1, <2>2
<1> QED BY <1>1, <1>2, <1>3, <1>4

LEMMA GainTypes ==
  ASSUME TypeInv, NEW c \in Consumers, lpc[c] # "idle"
  PROVE  /\ event[c] \in Event /\ event[c].user \in Users /\ event[c].score \in Scores
         /\ Gain(c) \in Int
<1>1. event[c] \in Event /\ old[c] \in Scores \cup {None}
  BY DEF TypeInv, Types, ConsumersOK
<1>2. event[c].user \in Users /\ event[c].score \in Scores
  BY <1>1 DEF Event
<1>3. Scores \subseteq Int
  BY RatingAssumption
<1>4. Gain(c) \in Int
  <2>1. CASE old[c] = None
    BY <1>2, <1>3, <2>1 DEF Gain
  <2>2. CASE old[c] # None
    <3>1. old[c] \in Int /\ event[c].score \in Int
      BY <1>1, <1>2, <1>3, <2>2
    <3> QED BY <2>2, <3>1 DEF Gain
  <2> QED BY <2>1, <2>2
<1> QED BY <1>1, <1>2, <1>4

LEMMA SeenTypes ==
  ASSUME TypeInv, SeenInv, NEW c \in Consumers, Listen(c)
  PROVE  SeenInv'
<1>1. \A d \in Consumers \ {c} : lpc'[d] = lpc[d]
  BY ConsumerTypes
<1>2. CASE UpdateAverage(c)
  <2> DEFINE s == seen[c]
             n == IF old[c] = None THEN 1 ELSE 0
             a == NewAverage(s, Gain(c), n)
  <2>1. s \in Post /\ Gain(c) \in Int /\ n \in Nat
    <3>1. lpc[c] = "average"
      BY <1>2 DEF UpdateAverage
    <3>2. s \in Post
      BY <3>1 DEF SeenInv
    <3> QED BY <3>1, <3>2, GainTypes
  <2>2. s.num * s.count \in Int /\ Gain(c) * s.den \in Int /\ s.den * (s.count + n) \in Nat
    <3>1. s.num \in Int /\ s.count \in Nat /\ s.den \in Nat /\ s.count + n \in Nat
      BY <2>1 DEF Post
    <3>2. s.count \in Int /\ s.den \in Int
      BY <3>1
    <3> HIDE DEF s, n
    <3> QED BY <2>1, <3>1, <3>2, Products
  <2>3. a.num \in Int /\ a.den \in Nat
    <3> HIDE DEF s, n
    <3>1. \A x, y \in Int : x + y \in Int
      OBVIOUS
    <3> QED BY <2>2, <3>1 DEF NewAverage
  <2>4. post' = [num |-> a.num, den |-> a.den, count |-> post.count + n]
    BY <1>2 DEF UpdateAverage
  <2> HIDE DEF a, s
  <2>5. post' \in Post
    BY <2>1, <2>3, <2>4 DEF Post, SeenInv
  <2>6. seen' \in [Consumers -> Post \cup {None}] /\ \A d \in Consumers \ {c} : seen'[d] = seen[d]
    BY <1>2 DEF UpdateAverage, Done, SeenInv
  <2>7. lpc'[c] \in {"notify", "idle"}
    BY <1>2, AtSteps DEF UpdateAverage, Done
  <2> QED BY <1>1, <2>5, <2>6, <2>7 DEF SeenInv
<1>3. CASE FindPost(c)
  <2>1. /\ seen' \in [Consumers -> Post \cup {None}] /\ seen'[c] = post /\ post' = post
        /\ \A d \in Consumers \ {c} : seen'[d] = seen[d]
    BY <1>3 DEF FindPost, SeenInv
  <2> QED BY <1>1, <2>1 DEF SeenInv
<1>4. CASE SaveRating(c)
  <2>1. /\ seen' \in [Consumers -> Post \cup {None}] /\ post' = post /\ lpc[c] = "save"
        /\ \A d \in Consumers \ {c} : seen'[d] = seen[d]
        /\ At(c, "idle") \/ seen' = seen
    BY <1>4 DEF SaveRating, Done, SeenInv
  <2>2. lpc'[c] = "idle" \/ seen' = seen
    BY <2>1, AtSteps
  <2> QED BY <1>1, <2>1, <2>2 DEF SeenInv
<1>5. CASE Receive(c) \/ FindOldRating(c) \/ Notify(c) \/ ListenerFails(c)
  <2>1. /\ seen' \in [Consumers -> Post \cup {None}] /\ post' = post
        /\ \A d \in Consumers \ {c} : seen'[d] = seen[d]
        /\ At(c, "rating") \/ At(c, "post") \/ At(c, "idle")
    BY <1>5 DEF Receive, FindOldRating, Notify, ListenerFails, Done, SeenInv
  <2>2. lpc'[c] \in {"rating", "post", "idle"}
    BY <2>1, AtSteps
  <2> QED BY <1>1, <2>1, <2>2 DEF SeenInv
<1> QED BY <1>2, <1>3, <1>4, <1>5 DEF Listen

\* Of events handled one by one, the others are not under way.
LEMMA OthersIdle ==
  ASSUME TypeInv, ScoreInv, NEW c \in Consumers, Listen(c), lpc[c] # "idle", ~broken'
  PROVE  /\ ~broken
         /\ \A d \in Consumers \ {c} : lpc[d] = "idle" /\ lpc'[d] = "idle"
         /\ lpc[c] = "save" => old[c] = stored[event[c].user]
<1>1. ~broken
  BY DEF Listen, Receive, FindOldRating, FindPost, SaveRating, UpdateAverage, Notify, ListenerFails,
         historyVars
<1>2. OneConsumer
  BY <1>1 DEF ScoreInv, OrderInv
<1>3. \A d \in Consumers \ {c} : lpc[d] = "idle"
  BY <1>2 DEF OneConsumer
<1>4. \A d \in Consumers \ {c} : lpc'[d] = "idle"
  BY <1>3, ConsumerTypes
<1>5. lpc[c] = "save" => old[c] = stored[event[c].user]
  BY <1>2 DEF OneConsumer
<1> QED BY <1>1, <1>3, <1>4, <1>5

LEMMA FindPostAverage ==
  ASSUME TypeInv, ScoreInv, SeenInv, AverageInv, NEW c \in Consumers, FindPost(c), ~broken'
  PROVE  AverageInv'
<1>1. lpc[c] = "post" /\ Listen(c)
  BY DEF FindPost, Listen
<1>2. ~broken /\ \A d \in Consumers \ {c} : lpc[d] = "idle" /\ lpc'[d] = "idle"
  BY <1>1, OthersIdle
<1>3. lpc'[c] = "save" /\ seen'[c] = post /\ post' = post /\ stored' = stored
  BY AtSteps DEF FindPost, SeenInv
<1>4. post.den # 0 /\ Shows(Cardinality(Raters(stored)), Total(stored))
  BY <1>1, <1>2 DEF AverageInv
<1> QED BY <1>2, <1>3, <1>4 DEF AverageInv, Shows

\* Steps after which the consumer has neither read the post nor stored a score.
LEMMA QuietAverage ==
  ASSUME TypeInv, ScoreInv, SeenInv, AverageInv, NEW c \in Consumers, Listen(c), lpc[c] # "average",
         post' = post, stored' = stored, lpc'[c] \notin {"save", "average"}, ~broken'
  PROVE  AverageInv'
<1>1. ~broken
  BY DEF Listen, Receive, FindOldRating, FindPost, SaveRating, UpdateAverage, Notify, ListenerFails,
         historyVars
<1>2. \A d \in Consumers \ {c} : lpc'[d] = lpc[d] /\ event'[d] = event[d] /\ old'[d] = old[d]
  BY ConsumerTypes
<1>3. \A d \in Consumers \ {c} : seen'[d] = seen[d]
  BY DEF Listen, Receive, FindOldRating, FindPost, SaveRating, UpdateAverage, Notify, ListenerFails,
         Done, SeenInv
<1>4. post.den # 0 /\ \A d \in Consumers : lpc[d] \in {"save", "average"} => seen[d] = post
  BY <1>1 DEF AverageInv
<1>5. \A d \in Consumers : lpc'[d] \in {"save", "average"} => seen'[d] = post
  BY <1>2, <1>3, <1>4
<1>6. (\A d \in Consumers : lpc'[d] # "average") => Shows(Cardinality(Raters(stored)), Total(stored))
  BY <1>1, <1>2 DEF AverageInv
<1>7. ASSUME NEW d \in Consumers, lpc'[d] = "average"
      PROVE  /\ Shows(Cardinality(Raters(stored)) - New(d), Total(stored) - Gain(d))
             /\ New(d)' = New(d) /\ Gain(d)' = Gain(d)
  <2>1. d # c /\ lpc[d] = "average" /\ event'[d] = event[d] /\ old'[d] = old[d]
    BY <1>2, <1>7
  <2> QED BY <1>1, <2>1 DEF AverageInv, New, Gain
<1>8. \A n, t : Shows(n, t)' <=> Shows(n, t)
  BY DEF Shows
<1> QED BY <1>4, <1>5, <1>6, <1>7, <1>8 DEF AverageInv

\* A stored score is what its consumer is to add.
LEMMA SaveAverage ==
  ASSUME TypeInv, ScoreInv, SeenInv, AverageInv, NEW c \in Consumers, SaveRating(c),
         stored' = [stored EXCEPT ![event[c].user] = event[c].score], At(c, "average"),
         UNCHANGED <<event, old, seen>>, ~broken'
  PROVE  AverageInv'
<1>0. lpc[c] = "save" /\ Listen(c) /\ post' = post
  BY DEF SaveRating, Listen
<1>1. /\ ~broken /\ old[c] = stored[event[c].user]
      /\ \A d \in Consumers \ {c} : lpc[d] = "idle" /\ lpc'[d] = "idle"
  BY <1>0, OthersIdle
<1>2. lpc'[c] = "average"
  BY AtSteps
<1>3. /\ post.den # 0 /\ seen[c] = post
      /\ Shows(Cardinality(Raters(stored)), Total(stored))
  BY <1>0, <1>1 DEF AverageInv
<1>4. PICK u \in Users, x \in Scores : u = event[c].user /\ x = event[c].score
  BY <1>0, GainTypes
<1>5. stored \in ScoresOf /\ stored' = [stored EXCEPT ![u] = x] /\ old[c] = stored[u]
  BY <1>1, <1>4 DEF TypeInv, Types, ScoresOf
<1>6. x \in Nat /\ x # None /\ (old[c] # None => old[c] \in Nat)
  BY <1>4, <1>5, RatingAssumption DEF ScoresOf
<1>7. Total(stored') - Gain(c) = Total(stored)
  <2>1. Total(stored') = Total(stored) + Gain(c)
    <3>1. Total([stored EXCEPT ![u] = x])
            = Total(stored) + (IF stored[u] = None THEN x ELSE x - stored[u])
      BY <1>5, TotalStep
    <3>2. Gain(c) = IF stored[u] = None THEN x ELSE x - stored[u]
      BY <1>4, <1>5 DEF Gain
    <3> QED BY <1>5, <3>1, <3>2
  <2>2. Total(stored) \in Nat /\ Gain(c) \in Int
    BY <1>0, <1>5, TotalNat, GainTypes
  <2>3. \A a \in Nat, b \in Int : (a + b) - b = a
    OBVIOUS
  <2> QED BY <2>1, <2>2, <2>3
<1>8. Cardinality(Raters(stored')) - New(c) = Cardinality(Raters(stored))
  <2>1. Raters(stored') = Raters(stored) \cup {u} /\ (u \in Raters(stored) <=> old[c] # None)
    BY <1>5, <1>6 DEF Raters, ScoresOf
  <2>2. IsFiniteSet(Raters(stored)) /\ Cardinality(Raters(stored)) \in Nat
    BY RatersFinite
  <2>3. CASE old[c] = None
    <3>1. Cardinality(Raters(stored')) = Cardinality(Raters(stored)) + 1
      BY <2>1, <2>2, <2>3, FS_AddElement
    <3> QED BY <2>2, <2>3, <3>1 DEF New
  <2>4. CASE old[c] # None
    <3>1. Raters(stored') = Raters(stored)
      BY <2>1, <2>4
    <3> QED BY <2>2, <2>4, <3>1 DEF New
  <2> QED BY <2>3, <2>4
<1>9. New(c)' = New(c) /\ Gain(c)' = Gain(c)
  BY DEF New, Gain
<1>10. \A d \in Consumers : lpc'[d] \in {"save", "average"} => d = c
  BY <1>1
<1>11. /\ post.count = Cardinality(Raters(stored')) - New(c)
       /\ post.num * post.count = (Total(stored') - Gain(c)) * post.den
  BY <1>3, <1>7, <1>8 DEF Shows
<1> QED BY <1>0, <1>2, <1>3, <1>9, <1>10, <1>11 DEF AverageInv, Shows

\* The new average is that of the stored scores.
LEMMA UpdateAverageAverage ==
  ASSUME TypeInv, ScoreInv, SeenInv, AverageInv, NEW c \in Consumers, UpdateAverage(c), ~broken'
  PROVE  AverageInv'
<1>0. lpc[c] = "average" /\ Listen(c) /\ stored' = stored
  BY DEF UpdateAverage, Listen
<1>1. ~broken /\ \A d \in Consumers \ {c} : lpc[d] = "idle" /\ lpc'[d] = "idle"
  BY <1>0, OthersIdle
<1>2. lpc'[c] \in {"notify", "idle"}
  BY AtSteps DEF UpdateAverage, Done
<1> DEFINE N == Cardinality(Raters(stored))
           T == Total(stored)
           n == New(c)
           d == Gain(c)
<1>3. post.den # 0 /\ seen[c] = post /\ post.count = N - n /\ post.num * post.count = (T - d) * post.den
  BY <1>0, <1>1 DEF AverageInv, Shows
<1>4. N \in Nat /\ N # 0 /\ T \in Int /\ d \in Int /\ n \in {0, 1} /\ post \in Post
  <2>1. event[c] \in Event /\ stored[event[c].user] # None /\ stored \in ScoresOf
    BY <1>0 DEF TypeInv, Types, ConsumersOK, ScoresOf
  <2>2. event[c].user \in Raters(stored)
    BY <2>1 DEF Raters, Event
  <2>3. N \in Nat /\ N # 0
    BY <2>2, RatersFinite, Smaller
  <2>4. T \in Nat
    BY <2>1, TotalNat
  <2>5. d \in Int
    BY <1>0, GainTypes
  <2>6. n \in {0, 1}
    BY DEF New
  <2> HIDE DEF T, d, n, N
  <2> QED BY <2>3, <2>4, <2>5, <2>6 DEF SeenInv
<1>5. post' = [num |-> NewAverage(post, d, n).num, den |-> NewAverage(post, d, n).den,
               count |-> post.count + n]
  BY <1>3 DEF UpdateAverage, New
<1> HIDE DEF N, T, n, d
<1>6. post.num \in Int /\ post.den \in Nat /\ post.count \in Nat
  BY <1>4 DEF Post
<1>7. post.count + n = N
  BY <1>3, <1>4
<1>8. post'.num = post.num * post.count + d * post.den /\ post'.den = post.den * N /\ post'.count = N
  BY <1>3, <1>4, <1>5, <1>7 DEF NewAverage
<1>9. post'.num = T * post.den
  <2>1. post'.num = (T - d) * post.den + d * post.den
    BY <1>3, <1>8
  <2>2. (T - d) * post.den = T * post.den - d * post.den
    BY <1>4, <1>6, Products
  <2>3. T * post.den \in Int /\ d * post.den \in Int
    BY <1>4, <1>6, Products
  <2>4. \A a, b \in Int : (a - b) + b = a
    OBVIOUS
  <2> QED BY <2>1, <2>2, <2>3, <2>4
<1>10. post'.num * post'.count = T * post'.den
  BY <1>4, <1>6, <1>8, <1>9, Products
<1>11. post'.den # 0
  BY <1>3, <1>4, <1>6, <1>8, Products
<1>12. \A e \in Consumers : lpc'[e] \notin {"save", "average"}
  BY <1>1, <1>2
<1>13. Shows(N, T)'
  BY <1>0, <1>8, <1>10 DEF Shows, N, T
<1> QED BY <1>0, <1>11, <1>12, <1>13 DEF AverageInv, N, T

LEMMA ListenAverage ==
  ASSUME TypeInv, ScoreInv, SeenInv, OtherTypes, AverageInv, NEW c \in Consumers, Listen(c)
  PROVE  SeenInv' /\ OtherTypes' /\ AverageInv'
<1>1. SeenInv' /\ OtherTypes'
  BY SeenTypes, ListenFrame
<1>2. ASSUME ~broken' PROVE AverageInv'
  <2>1. CASE Receive(c) \/ FindOldRating(c) \/ Notify(c) \/ ListenerFails(c)
    <3>1. /\ lpc[c] # "average" \/ ListenerFails(c)
          /\ post' = post /\ stored' = stored
          /\ At(c, "rating") \/ At(c, "post") \/ At(c, "idle")
      BY <2>1 DEF Receive, FindOldRating, Notify, ListenerFails, Done
    <3>2. ~ListenerFails(c)
      BY <1>2 DEF ListenerFails
    <3>3. lpc'[c] \in {"rating", "post", "idle"}
      BY <3>1, AtSteps
    <3> QED BY <1>2, <3>1, <3>2, <3>3, QuietAverage
  <2>2. CASE FindPost(c)
    BY <1>2, <2>2, FindPostAverage
  <2>3. CASE SaveRating(c)
    <3>1. CASE Done(c) /\ stored' = stored
      <4>1. lpc'[c] = "idle" /\ lpc[c] # "average" /\ post' = post
        BY <2>3, <3>1, AtSteps DEF SaveRating, Done
      <4> QED BY <1>2, <3>1, <4>1, QuietAverage
    <3>2. CASE /\ stored' = [stored EXCEPT ![event[c].user] = event[c].score] /\ At(c, "average")
               /\ UNCHANGED <<event, old, seen>>
      BY <1>2, <2>3, <3>2, SaveAverage
    <3> QED BY <2>3, <3>1, <3>2 DEF SaveRating
  <2>4. CASE UpdateAverage(c)
    BY <1>2, <2>4, UpdateAverageAverage
  <2> QED BY <2>1, <2>2, <2>3, <2>4 DEF Listen
<1>3. broken' => AverageInv'
  BY DEF AverageInv
<1> QED BY <1>1, <1>2, <1>3

LEMMA AverageKept == Spec => [](SeenInv /\ OtherTypes /\ AverageInv)
<1>1. TypeInv /\ ScoreInv /\ (SeenInv /\ OtherTypes /\ AverageInv) /\ [Next]_vars
        => (SeenInv /\ OtherTypes /\ AverageInv)'
  <2> SUFFICES ASSUME TypeInv, ScoreInv, SeenInv, OtherTypes, AverageInv, [Next]_vars
               PROVE  SeenInv' /\ OtherTypes' /\ AverageInv'
    OBVIOUS
  <2>1. ASSUME NEW c \in Consumers, Listen(c) PROVE SeenInv' /\ OtherTypes' /\ AverageInv'
    BY <2>1, ListenAverage
  <2>2. CASE \/ \E p \in Procs : Rate(p) \/ \E u \in Users, s \in Scores : Begin(p, u, s)
             \/ Expire \/ UNCHANGED vars
    BY <2>2, HandlerAverage
  <2> QED BY <2>1, <2>2 DEF Next
<1> QED BY <1>1, InitAverage, TypesHold, ScoresKept, PTL DEF Spec

\* Every variable of the rating path keeps its type: the average is made of whole
\* numbers whatever the listener has read.
THEOREM RatingTypes == Spec => []TypeOK
<1>1. TypeInv /\ SeenInv /\ OtherTypes => TypeOK
  BY DEF TypeInv, Types, SeenInv, OtherTypes, TypeOK
<1> QED BY <1>1, TypesHold, AverageKept, PTL

\* Once everything is handled the post's count is that of the stored ratings and its
\* average is their sum divided by it, if events were handled one by one and no step
\* failed.
THEOREM AveragesMatch == Spec => []AverageMatches
<1>1. AverageInv => AverageMatches
  <2> SUFFICES ASSUME AverageInv, Settled, ~broken
               PROVE  /\ post.count = Cardinality(Raters(stored))
                      /\ post.num * post.count = Total(stored) * post.den
    BY DEF AverageMatches
  <2> QED BY DEF AverageInv, Settled, Shows
<1> QED BY <1>1, AverageKept, PTL
=============================================================================
