----------------------- MODULE InteractionCacheProofs -----------------------
(***************************************************************************)
(* What InteractionCache guarantees for every set of users, handlers and   *)
(* residents, every fault budget and every bound.                          *)
(***************************************************************************)
EXTENDS InteractionCache, FiniteSetTheorems, SequenceTheorems, TLAPS

-----------------------------------------------------------------------------
(* Type correctness.  That the queue stays a sequence needs one more fact:   *)
(* the listener is past the record step only while the event it applies is   *)
(* still in the queue.                                                       *)

OldestExists == applying # "record" => queue # <<>>

LEMMA CacheFinite == TypeOK => Cardinality(cache) \in Nat
<1>1. IsFiniteSet(Users \cup {Dummy})
  BY UsersAssumption, FS_AddElement
<1>2. QED
  BY <1>1, FS_Subset, FS_CardinalityType DEF TypeOK

LEMMA StoredFinite == TypeOK => IsFiniteSet(stored) /\ Cardinality(stored) \in Nat
BY UsersAssumption, FS_Subset, FS_CardinalityType DEF TypeOK

\* An append keeps the type of a queue and its oldest event.
LEMMA AppendKeepsOldest ==
  ASSUME NEW S, NEW q \in Seq(S), NEW e \in S
  PROVE  /\ Append(q, e) \in Seq(S)
         /\ Append(q, e) # <<>>
         /\ q # <<>> => Head(Append(q, e)) = Head(q)
<1>1. Append(q, e) \in Seq(S) /\ Len(Append(q, e)) = Len(q) + 1
  OBVIOUS
<1>2. Append(q, e) # <<>>
  <2>1. Len(Append(q, e)) # 0
    BY <1>1
  <2>2. Len(<<>>) = 0
    OBVIOUS
  <2>3. QED
    BY <2>1, <2>2
<1>3. ASSUME q # <<>> PROVE Append(q, e)[1] = q[1]
  <2>1. Len(q) \in Nat \ {0}
    BY <1>3
  <2>2. QED
    BY <2>1
<1>4. QED
  BY <1>1, <1>2, <1>3

\* Using up one fault leaves a budget.
LEMMA SpendType ==
  ASSUME faults \in [FaultNames -> Nat], NEW f \in FaultNames, Spend(f)
  PROVE  faults' \in [FaultNames -> Nat]
<1>1. faults[f] - 1 \in Nat
  BY DEF Spend
<1>2. QED
  BY <1>1 DEF Spend

\* Using up one fault leaves the others.
LEMMA SpendOther ==
  ASSUME faults \in [FaultNames -> Nat], NEW f \in FaultNames, Spend(f)
  PROVE  /\ faults'[f] = faults[f] - 1
         /\ \A g \in FaultNames : g # f => faults'[g] = faults[g]
BY DEF Spend

\* The filter stays one of its three states, whether BF.ADD succeeds or not.
LEMMA AddBloomType ==
  ASSUME TypeOK, AddBloom
  PROVE  bloom' \in {"absent", "without", "with"} /\ faults' \in [FaultNames -> Nat]
<1>1. CASE bloom' = "with" /\ UNCHANGED faults
  BY <1>1 DEF TypeOK
<1>2. CASE /\ Spend("bloom")
           /\ bloom' \in {bloom, IF bloom = "absent" THEN "without" ELSE bloom}
  <2>1. "bloom" \in FaultNames
    BY DEF FaultNames
  <2>2. faults' \in [FaultNames -> Nat]
    BY <1>2, <2>1, SpendType DEF TypeOK
  <2>3. bloom' \in {"absent", "without", "with"}
    BY <1>2 DEF TypeOK
  <2>4. QED
    BY <2>2, <2>3
<1>3. QED
  BY <1>1, <1>2 DEF AddBloom

\* Whatever the kind, a handler warms, reads, adds or removes.
LEMMA HandleCases ==
  ASSUME NEW p \in Procs, Handle(p)
  PROVE  Ensure(p) \/ BatchPostStats(p) \/ AddMember(p) \/ RemoveMember(p)
BY DEF Handle, LikePost, UnlikePost, CollectPost, UncollectPost, LikeComment,
       UnlikeComment

\* And the listener writes the record, or counts.
LEMMA HandleInteractionCases ==
  ASSUME HandleInteraction
  PROVE  \/ SkipDuplicate \/ SaveRecord \/ DeleteRecord
         \/ UpdatePostCount
         \/ UpdateCommentCount /\ Kind # "like"
         \/ UpdateESPostCount /\ Kind = "like"
BY DEF HandleInteraction, HandleLike, HandleCollect, HandleCommentLike, SetRecord

\* The steps of a warm-up keep the types.
LEMMA EnsureType ==
  ASSUME TypeOK, NEW p \in Procs, Ensure(p)
  PROVE  TypeOK'
<1> USE UsersAssumption DEF TypeOK, Steps, EnsureSteps, WriteSteps, ReadSteps,
        OpNames, FaultNames, Request, NoRequest
<1> USE DEF redisVars, handlerVars, listenerVars, GoTo, Resume, Warmed
<1>1. CASE EnsureExists(p)
  BY <1>1 DEF EnsureExists
<1>2. CASE TryLock(p)
  BY ZenonT(60), <1>2 DEF TryLock
<1>3. CASE WaitHit(p)
  BY <1>3 DEF WaitHit
<1>4. CASE WaitTimeout(p)
  BY <1>4 DEF WaitTimeout
<1>5. CASE DoubleCheck(p)
  BY <1>5 DEF DoubleCheck
<1>6. CASE FindLikes(p)
  BY <1>6 DEF FindLikes
<1>7. CASE FillCache(p)
  BY <1>7 DEF FillCache
<1>8. CASE FillBloom(p)
  <2>1. bloom' \in {"absent", "without", "with"} /\ faults' \in [FaultNames -> Nat]
    BY <1>8, AddBloomType DEF FillBloom
  <2>2. QED
    BY <1>8, <2>1 DEF FillBloom
<1>9. CASE ReleaseLock(p)
  BY <1>9 DEF ReleaseLock
<1>10. QED
  BY <1>1, <1>2, <1>3, <1>4, <1>5, <1>6, <1>7, <1>8, <1>9 DEF Ensure

\* What is published is an event; when publishing fails the queue stays.
LEMMA PublishAppends ==
  ASSUME TypeOK, NEW p \in Procs, PublishEvent(p)
  PROVE  UNCHANGED queue \/ \E e \in Event : queue' = Append(queue, e)
<1> DEFINE e == [user |-> req[p].user,
                 act |-> IF req[p].op = "like" THEN "ADD" ELSE "REMOVE"]
<1>1. req[p] \in Request
  BY DEF PublishEvent, TypeOK
<1>2. e \in Event
  BY <1>1 DEF Event, Request
<1>3. UNCHANGED queue \/ queue' = Append(queue, e)
  BY DEF PublishEvent
<1> HIDE DEF e
<1>4. QED
  BY <1>2, <1>3

\* Publishing, for a like or an unlike.
LEMMA PublishType ==
  ASSUME TypeOK, NEW p \in Procs, PublishEvent(p)
  PROVE  TypeOK'
<1> USE DEF TypeOK, redisVars, Reply
<1>1. queue' \in Seq(Event)
  <2>1. CASE UNCHANGED queue
    BY <2>1
  <2>2. CASE \E e \in Event : queue' = Append(queue, e)
    BY <2>2, AppendKeepsOldest
  <2>3. QED
    BY <2>1, <2>2, PublishAppends
<1>2. faults' \in [FaultNames -> Nat]
  BY SpendType DEF PublishEvent, FaultNames
<1>3. QED
  BY <1>1, <1>2 DEF PublishEvent, Steps, Request, NoRequest, OpNames

\* So do the steps of a like after the warm-up.
LEMMA AddMemberType ==
  ASSUME TypeOK, NEW p \in Procs, AddMember(p)
  PROVE  TypeOK'
<1> USE UsersAssumption DEF TypeOK, Steps, EnsureSteps, WriteSteps, ReadSteps,
        OpNames, Request, NoRequest
<1> USE DEF redisVars, handlerVars, listenerVars, GoTo, Reply
<1>1. CASE LikeSadd(p)
  BY ZenonT(60), <1>1 DEF LikeSadd
<1>2. CASE RemoveDummyUser(p)
  BY <1>2 DEF RemoveDummyUser
<1>3. CASE LikeBloom(p)
  <2>1. bloom' \in {"absent", "without", "with"} /\ faults' \in [FaultNames -> Nat]
    BY <1>3, AddBloomType DEF LikeBloom
  <2>2. QED
    BY <1>3, <2>1 DEF LikeBloom
<1>4. QED
  BY <1>1, <1>2, <1>3, PublishType DEF AddMember

\* And those of an unlike.
LEMMA RemoveMemberType ==
  ASSUME TypeOK, NEW p \in Procs, RemoveMember(p)
  PROVE  TypeOK'
<1> USE UsersAssumption DEF TypeOK, Steps, EnsureSteps, WriteSteps, ReadSteps,
        OpNames, Request, NoRequest
<1> USE DEF redisVars, handlerVars, listenerVars, GoTo, Reply
<1>1. CASE UnlikeSrem(p)
  BY ZenonT(60), <1>1 DEF UnlikeSrem
<1>2. CASE EmptyCheck(p)
  BY <1>2 DEF EmptyCheck
<1>3. CASE AddDummyUser(p)
  BY <1>3 DEF AddDummyUser
<1>4. QED
  BY <1>1, <1>2, <1>3, PublishType DEF RemoveMember

\* And those of a read.
LEMMA BatchPostStatsType ==
  ASSUME TypeOK, NEW p \in Procs, BatchPostStats(p)
  PROVE  TypeOK'
<1> USE UsersAssumption DEF TypeOK, Steps, EnsureSteps, WriteSteps, ReadSteps,
        OpNames, Request, NoRequest
<1> USE DEF redisVars, handlerVars, listenerVars, GoTo, Reply
<1>1. CASE CheckBloomKey(p)
  BY <1>1 DEF CheckBloomKey
<1>2. CASE CheckBloomMember(p)
  BY <1>2 DEF CheckBloomMember
<1>3. CASE CountMembers(p)
  <2>1. Cardinality(cache) \in Nat
    BY CacheFinite
  <2>2. QED
    BY <1>3, <2>1 DEF CountMembers
<1>4. CASE DiscountDummy(p)
  BY <1>4 DEF DiscountDummy
<1>5. CASE AnswerRead(p)
  BY <1>5 DEF AnswerRead
<1>6. QED
  BY <1>1, <1>2, <1>3, <1>4, <1>5 DEF BatchPostStats

\* The listener's steps.
LEMMA HandleInteractionType ==
  ASSUME TypeOK, OldestExists, HandleInteraction
  PROVE  TypeOK'
<1> USE DEF TypeOK, redisVars, handlerVars, listenerVars, Acknowledge
<1>1. queue # <<>> => Tail(queue) \in Seq(Event) /\ Oldest \in Event
  BY DEF Oldest
<1>2. CASE SkipDuplicate
  BY <1>1, <1>2 DEF SkipDuplicate
<1>3. CASE SaveRecord
  BY <1>1, <1>3 DEF SaveRecord, Event
<1>4. CASE DeleteRecord
  BY <1>4 DEF DeleteRecord
<1>5. CASE UpdatePostCount
  <2>1. likeCount' \in Int
    BY <1>5 DEF UpdatePostCount, Delta
  <2>2. queue' \in Seq(Event) /\ applying' \in {"record", "es"}
    BY <1>1, <1>5 DEF UpdatePostCount, OldestExists
  <2>3. QED
    BY <1>5, <2>1, <2>2 DEF UpdatePostCount
<1>6. CASE UpdateCommentCount
  BY <1>1, <1>6 DEF UpdateCommentCount, Delta, OldestExists
<1>7. CASE UpdateESPostCount
  BY <1>1, <1>7 DEF UpdateESPostCount, Delta, OldestExists
<1>8. QED
  BY <1>2, <1>3, <1>4, <1>5, <1>6, <1>7, HandleInteractionCases

\* Faults, expiry and the other targets.
LEMMA EnvironmentType ==
  ASSUME TypeOK, OldestExists, Environment
  PROVE  TypeOK'
<1> USE UsersAssumption DEF TypeOK, redisVars, handlerVars, listenerVars
<1>1. ASSUME NEW p \in Procs, RequestFails(p)
      PROVE  TypeOK'
  <2>1. faults' \in [FaultNames -> Nat]
    BY <1>1, SpendType DEF RequestFails, FaultNames
  <2>2. CASE GoTo(p, "scard")
    <3>1. pc[p] # "idle"
      BY <1>1 DEF RequestFails, EnsureSteps
    <3>2. QED
      BY <1>1, <2>1, <2>2, <3>1 DEF RequestFails, GoTo, Steps, ReadSteps
  <2>3. CASE Reply(p)
    BY <1>1, <2>1, <2>3 DEF RequestFails, Reply, Steps
  <2>4. QED
    BY <1>1, <2>2, <2>3 DEF RequestFails
<1>2. ASSUME NEW p \in Procs, RequestDies(p)
      PROVE  TypeOK'
  <2>1. faults' \in [FaultNames -> Nat]
    BY <1>2, SpendType DEF RequestDies, FaultNames
  <2>2. QED
    BY <1>2, <2>1 DEF RequestDies, Reply, Steps, Request, NoRequest, OpNames
<1>3. CASE ListenerFails
  <2>1. faults' \in [FaultNames -> Nat]
    BY <1>3, SpendType DEF ListenerFails, FaultNames
  <2>2. queue' \in Seq(Event)
    BY <1>3 DEF ListenerFails, Acknowledge
  <2>3. QED
    BY <1>3, <2>1, <2>2 DEF ListenerFails, Acknowledge
<1>4. CASE Redeliver
  <2>1. faults' \in [FaultNames -> Nat]
    BY <1>4, SpendType DEF Redeliver, FaultNames
  <2>2. QED
    BY <1>4, <2>1 DEF Redeliver
<1>5. CASE KeyExpires
  <2>1. faults' \in [FaultNames -> Nat]
    BY <1>5, SpendType DEF KeyExpires, FaultNames
  <2>2. QED
    BY <1>5, <2>1 DEF KeyExpires
<1>6. CASE LockExpires
  <2>1. faults' \in [FaultNames -> Nat]
    BY <1>6, SpendType DEF LockExpires, FaultNames
  <2>2. QED
    BY <1>6, <2>1 DEF LockExpires
<1>7. CASE RedisRestarts
  <2>1. faults' \in [FaultNames -> Nat]
    BY <1>7, SpendType DEF RedisRestarts, FaultNames
  <2>2. QED
    BY <1>7, <2>1 DEF RedisRestarts
<1>8. CASE OtherTargetLiked
  BY <1>8 DEF OtherTargetLiked
<1>9. ASSUME NEW p \in Procs, CommandIgnored(p)
      PROVE  TypeOK'
  <2>1. faults' \in [FaultNames -> Nat]
    BY <1>9, SpendType DEF CommandIgnored, FaultNames
  <2>2. AfterIgnored(p) \in Steps \ {"idle"}
    BY DEF AfterIgnored, Resume, Steps, WriteSteps, ReadSteps
  <2>3. req[p] # NoRequest
    BY <1>9 DEF CommandIgnored
  <2>4. QED
    BY <1>9, <2>1, <2>2, <2>3 DEF CommandIgnored, GoTo
<1>10. QED
  BY <1>1, <1>2, <1>3, <1>4, <1>5, <1>6, <1>7, <1>8, <1>9 DEF Environment

\* A new request.
LEMMA BeginType ==
  ASSUME TypeOK, NEW p \in Procs, NEW op \in Ops, NEW u \in Actors, Begin(p, op, u)
  PROVE  TypeOK'
<1>1. [op |-> op, user |-> u] \in Request
  BY BoundsAssumption DEF Request, Actors
<1>2. [op |-> op, user |-> u] # NoRequest
  <2>1. op # "none"
    BY BoundsAssumption DEF OpNames
  <2>2. QED
    BY <2>1 DEF NoRequest
<1>3. QED
  BY <1>1, <1>2 DEF TypeOK, Begin, Steps, EnsureSteps, ReadSteps, redisVars,
                    listenerVars

\* While an event is being applied it stays the oldest in the queue.
LEMMA OldestExistsStep ==
  ASSUME TypeOK, OldestExists, [Next]_vars
  PROVE  OldestExists'
<1> USE DEF TypeOK, OldestExists, redisVars, handlerVars, listenerVars
<1>1. ASSUME NEW p \in Procs, Handle(p)
      PROVE  OldestExists'
  <2>1. CASE PublishEvent(p)
    <3>1. CASE UNCHANGED queue
      BY <2>1, <3>1 DEF PublishEvent
    <3>2. CASE \E e \in Event : queue' = Append(queue, e)
      BY <3>2, AppendKeepsOldest
    <3>3. QED
      BY <2>1, <3>1, <3>2, PublishAppends
  <2>2. CASE UNCHANGED <<queue, applying>>
    BY <2>2
  <2>3. PublishEvent(p) \/ UNCHANGED <<queue, applying>>
    BY <1>1, HandleCases DEF Ensure, EnsureExists, TryLock, WaitHit, WaitTimeout,
                DoubleCheck, FindLikes, FillCache, FillBloom, ReleaseLock,
                AddMember, LikeSadd, RemoveDummyUser, LikeBloom, RemoveMember,
                UnlikeSrem, EmptyCheck, AddDummyUser, BatchPostStats,
                CheckBloomKey, CheckBloomMember, CountMembers, DiscountDummy,
                AnswerRead
  <2>4. QED
    BY <2>1, <2>2, <2>3
<1>2. CASE HandleInteraction
  BY <1>2, HandleInteractionCases
     DEF SkipDuplicate, SaveRecord, DeleteRecord, UpdatePostCount,
         UpdateCommentCount, UpdateESPostCount, Acknowledge
<1>3. CASE Environment
  BY <1>3 DEF Environment, RequestFails, CommandIgnored, RequestDies, ListenerFails, Redeliver,
              KeyExpires, LockExpires, RedisRestarts, OtherTargetLiked, Acknowledge
<1>4. ASSUME NEW p \in Procs, NEW op \in Ops, NEW u \in Actors, Begin(p, op, u)
      PROVE  OldestExists'
  BY <1>4 DEF Begin
<1>5. CASE UNCHANGED vars
  BY <1>5 DEF vars
<1>6. QED
  BY <1>1, <1>2, <1>3, <1>4, <1>5 DEF Next

LEMMA TypeStep ==
  ASSUME TypeOK, OldestExists, [Next]_vars
  PROVE  TypeOK'
<1>1. ASSUME NEW p \in Procs, Handle(p)
      PROVE  TypeOK'
  BY <1>1, HandleCases, EnsureType, AddMemberType, RemoveMemberType,
     BatchPostStatsType
<1>2. CASE UNCHANGED vars
  BY <1>2 DEF vars, redisVars, handlerVars, listenerVars, TypeOK
<1>3. QED
  BY <1>1, <1>2, BeginType, HandleInteractionType, EnvironmentType DEF Next

LEMMA TypeInit == Init => TypeOK /\ OldestExists
<1>1. IsFiniteSet(Residents)
  BY UsersAssumption, FS_Subset
<1>2. Cardinality(Residents) \in Int
  BY <1>1, FS_CardinalityType
<1>3. QED
  BY <1>2, UsersAssumption, BoundsAssumption
     DEF Init, TypeOK, OldestExists, Steps, NoRequest

\* Every variable keeps its type, under every fault.
THEOREM TypeCorrect == Spec => [](TypeOK /\ OldestExists)
<1>1. Init => TypeOK /\ OldestExists
  BY TypeInit
<1>2. TypeOK /\ OldestExists /\ [Next]_vars => (TypeOK /\ OldestExists)'
  BY TypeStep, OldestExistsStep
<1>3. QED
  BY <1>1, <1>2, PTL DEF Spec
-----------------------------------------------------------------------------
(* The stored counts never exceed the records by more than the exceptions    *)
(* the listener swallowed.  NoOvercount speaks of the moments between two    *)
(* events; the inductive invariant also says what is still owed while one is *)
(* applied: an ADD whose record is saved is not counted yet, a REMOVE whose  *)
(* record is gone is still counted, a redelivered REMOVE may be either, and  *)
(* its record stays gone until the listener is done with the event.          *)

Owed(act, steps) ==
    IF applying \in steps /\ Oldest.act = act THEN 1 ELSE 0

OvercountInv ==
    /\ likeCount + Owed("ADD", {"count"})
         <= Cardinality(stored) + Owed("REMOVE", {"again", "count"})
              + Spent("listener")
    /\ Kind = "like" =>
         esCount + Owed("ADD", {"count", "es"})
           <= Cardinality(stored) + Owed("REMOVE", {"again", "count", "es"})
                + Spent("listener")
    /\ applying # "record" /\ Oldest.act = "REMOVE" => Oldest.user \notin stored

\* Whatever leaves the listener alone and, at most, appends an event.
LEMMA BystanderKeepsOvercountInv ==
  ASSUME TypeOK, OldestExists, OvercountInv,
         UNCHANGED <<applying, stored, likeCount, esCount>>,
         faults'["listener"] = faults["listener"],
         UNCHANGED queue \/ \E e \in Event : queue' = Append(queue, e)
  PROVE  OvercountInv'
<1>1. applying # "record" => Oldest' = Oldest
  <2>1. CASE UNCHANGED queue
    BY <2>1 DEF Oldest
  <2>2. ASSUME NEW e \in Event, queue' = Append(queue, e), applying # "record"
        PROVE  Oldest' = Oldest
    <3>1. queue # <<>> /\ queue \in Seq(Event)
      BY <2>2 DEF OldestExists, TypeOK
    <3>2. Head(Append(queue, e)) = Head(queue)
      BY <3>1, AppendKeepsOldest
    <3>3. QED
      BY <2>2, <3>2 DEF Oldest
  <2>3. QED
    BY <2>1, <2>2
<1>2. Spent("listener")' = Spent("listener")
  BY DEF Spent
<1>3. \A act, steps : "record" \notin steps => Owed(act, steps)' = Owed(act, steps)
  BY <1>1 DEF Owed
<1>4. /\ Owed("ADD", {"count"})' = Owed("ADD", {"count"})
      /\ Owed("ADD", {"count", "es"})' = Owed("ADD", {"count", "es"})
      /\ Owed("REMOVE", {"again", "count"})' = Owed("REMOVE", {"again", "count"})
      /\ Owed("REMOVE", {"again", "count", "es"})'
           = Owed("REMOVE", {"again", "count", "es"})
  BY <1>3
<1>5. QED
  BY <1>1, <1>2, <1>4 DEF OvercountInv

LEMMA SpentType ==
  TypeOK => Spent("listener") \in Int
BY SMTT(30), BoundsAssumption DEF TypeOK, Spent, FaultNames

\* A record more or less is one more or less in its set.
LEMMA StoredPlus ==
  ASSUME TypeOK, NEW u \in Users
  PROVE  /\ u \notin stored => Cardinality(stored \cup {u}) = Cardinality(stored) + 1
         /\ Cardinality(stored) <= Cardinality(stored \ {u}) + 1
<1>1. IsFiniteSet(stored) /\ Cardinality(stored) \in Nat
  BY StoredFinite
<1>2. Cardinality(stored \cup {u})
        = IF u \in stored THEN Cardinality(stored) ELSE Cardinality(stored) + 1
  BY <1>1, FS_AddElement
<1>3. Cardinality(stored \ {u})
        = IF u \in stored THEN Cardinality(stored) - 1 ELSE Cardinality(stored)
  BY <1>1, FS_RemoveElement
<1>4. QED
  BY <1>1, <1>2, <1>3

LEMMA ListenerKeepsOvercountInv ==
  ASSUME TypeOK, OldestExists, OvercountInv, HandleInteraction
  PROVE  OvercountInv'
<1>1. queue # <<>> /\ Oldest \in Event
  BY HandleInteractionCases
     DEF SkipDuplicate, SaveRecord, DeleteRecord, UpdatePostCount,
         UpdateCommentCount, UpdateESPostCount, OldestExists, Oldest, TypeOK
<1>2. Spent("listener")' = Spent("listener") /\ Spent("listener") \in Int
  BY SpentType, HandleInteractionCases
     DEF SkipDuplicate, SaveRecord, DeleteRecord, UpdatePostCount,
         UpdateCommentCount, UpdateESPostCount, Spent
<1>3. /\ likeCount \in Int /\ esCount \in Int
      /\ Cardinality(stored) \in Int /\ Oldest.user \in Users
      /\ Oldest.act \in {"ADD", "REMOVE"}
  BY <1>1, StoredFinite DEF TypeOK, Event
<1>4. CASE SkipDuplicate
  BY <1>2, <1>3, <1>4 DEF SkipDuplicate, Acknowledge, OvercountInv, Owed,
       listenerVars
<1>5. CASE SaveRecord
  <2>1. Cardinality(stored') = Cardinality(stored) + 1
    BY <1>3, <1>5, StoredPlus DEF SaveRecord
  <2>2. Oldest' = Oldest
    BY <1>5 DEF SaveRecord, Oldest
  <2>3. QED
    BY <1>2, <1>3, <1>5, <2>1, <2>2 DEF SaveRecord, OvercountInv, Owed
<1>6. CASE DeleteRecord
  <2>1. stored' \subseteq stored /\ Cardinality(stored') \in Int
        /\ Cardinality(stored) <= Cardinality(stored') + 1
    BY <1>3, <1>6, StoredPlus, StoredFinite, FS_RemoveElement, FS_CardinalityType
       DEF DeleteRecord
  <2>2. Oldest' = Oldest
    BY <1>6 DEF DeleteRecord, Oldest
  <2>3. CASE applying = "again"
    <3>1. stored' = stored
      BY <1>6, <2>3 DEF DeleteRecord, OvercountInv
    <3>2. QED
      BY <1>2, <1>3, <1>6, <2>2, <2>3, <3>1 DEF DeleteRecord, OvercountInv, Owed
  <2>4. CASE applying = "record"
    BY <1>2, <1>3, <1>6, <2>1, <2>2, <2>4 DEF DeleteRecord, OvercountInv, Owed
  <2>5. QED
    BY <1>6, <2>3, <2>4 DEF DeleteRecord
<1>7. CASE UpdatePostCount
  <2>1. Kind = "like" => Oldest' = Oldest
    BY <1>7 DEF UpdatePostCount, Oldest
  <2>2. CASE Kind = "like"
    BY <1>2, <1>3, <1>7, <2>1, <2>2 DEF UpdatePostCount, Delta, OvercountInv, Owed
  <2>3. CASE Kind # "like"
    BY <1>2, <1>3, <1>7, <2>3
       DEF UpdatePostCount, Delta, Acknowledge, OvercountInv, Owed
  <2>4. QED
    BY <2>2, <2>3
<1>8. CASE UpdateCommentCount /\ Kind # "like"
  BY <1>2, <1>3, <1>8 DEF UpdateCommentCount, Delta, Acknowledge, OvercountInv, Owed
<1>9. CASE UpdateESPostCount /\ Kind = "like"
  BY <1>2, <1>3, <1>9 DEF UpdateESPostCount, Delta, Acknowledge, OvercountInv, Owed
<1>10. QED
  BY <1>4, <1>5, <1>6, <1>7, <1>8, <1>9, HandleInteractionCases

LEMMA OvercountStep ==
  ASSUME TypeOK, OldestExists, OvercountInv, [Next]_vars
  PROVE  OvercountInv'
<1>1. ASSUME NEW p \in Procs, Handle(p)
      PROVE  OvercountInv'
  <2>1. UNCHANGED <<applying, stored, likeCount, esCount>>
    BY <1>1, HandleCases DEF Ensure, EnsureExists, TryLock, WaitHit, WaitTimeout,
                DoubleCheck, FindLikes, FillCache, FillBloom, ReleaseLock,
                AddMember, LikeSadd, RemoveDummyUser, LikeBloom, PublishEvent,
                RemoveMember, UnlikeSrem, EmptyCheck, AddDummyUser, BatchPostStats,
                CheckBloomKey, CheckBloomMember, CountMembers, DiscountDummy,
                AnswerRead, listenerVars
  <2>2. faults'["listener"] = faults["listener"]
    <3>1. /\ faults \in [FaultNames -> Nat]
          /\ {"bloom", "publish", "listener"} \subseteq FaultNames
      BY DEF TypeOK, FaultNames
    <3>2. UNCHANGED faults \/ Spend("bloom") \/ Spend("publish")
      BY <1>1, HandleCases
         DEF Ensure, EnsureExists, TryLock, WaitHit, WaitTimeout,
             DoubleCheck, FindLikes, FillCache, FillBloom, ReleaseLock, AddMember,
             LikeSadd, RemoveDummyUser, LikeBloom, PublishEvent, RemoveMember,
             UnlikeSrem, EmptyCheck, AddDummyUser, BatchPostStats, CheckBloomKey,
             CheckBloomMember, CountMembers, DiscountDummy, AnswerRead, AddBloom
    <3>3. QED
      BY <3>1, <3>2, SpendOther
  <2>3. UNCHANGED queue \/ \E e \in Event : queue' = Append(queue, e)
    <3>1. PublishEvent(p) \/ UNCHANGED queue
      BY <1>1, HandleCases DEF Ensure, EnsureExists, TryLock, WaitHit, WaitTimeout,
                  DoubleCheck, FindLikes, FillCache, FillBloom, ReleaseLock,
                  AddMember, LikeSadd, RemoveDummyUser, LikeBloom, RemoveMember,
                  UnlikeSrem, EmptyCheck, AddDummyUser, BatchPostStats,
                  CheckBloomKey, CheckBloomMember, CountMembers, DiscountDummy,
                  AnswerRead, listenerVars
    <3>2. QED
      BY <3>1, PublishAppends
  <2>4. QED
    BY <2>1, <2>2, <2>3, BystanderKeepsOvercountInv
<1>2. CASE ListenerFails
  <2>1. Spent("listener")' = Spent("listener") + 1 /\ Spent("listener") \in Int
    <3>1. faults'["listener"] = faults["listener"] - 1 /\ faults["listener"] \in Nat
      BY <1>2, SpendOther DEF ListenerFails, TypeOK, FaultNames
    <3>2. Budget["listener"] \in Nat
      BY BoundsAssumption DEF FaultNames
    <3>3. QED
      BY <3>1, <3>2 DEF Spent
  <2>2. /\ likeCount \in Int /\ esCount \in Int /\ Cardinality(stored) \in Int
    BY StoredFinite DEF TypeOK
  <2>3. QED
    BY <1>2, <2>1, <2>2 DEF ListenerFails, Acknowledge, OvercountInv, Owed
<1>3. CASE Redeliver
  <2>1. Oldest' = Oldest /\ Spent("listener")' = Spent("listener")
    BY <1>3 DEF Redeliver, Oldest, Spent, Spend, TypeOK, FaultNames
  <2>2. /\ likeCount \in Int /\ esCount \in Int /\ Cardinality(stored) \in Int
        /\ Spent("listener") \in Int
    BY StoredFinite, SpentType DEF TypeOK
  <2>3. QED
    BY <1>3, <2>1, <2>2 DEF Redeliver, OvercountInv, Owed
<1>4. ASSUME UNCHANGED <<queue, applying, stored, likeCount, esCount>>,
             faults'["listener"] = faults["listener"]
      PROVE  OvercountInv'
  BY <1>4, BystanderKeepsOvercountInv
<1>5. CASE KeyExpires \/ LockExpires \/ RedisRestarts \/ OtherTargetLiked
  BY <1>4, <1>5 DEF KeyExpires, LockExpires, RedisRestarts, OtherTargetLiked,
       Spend, TypeOK, FaultNames, listenerVars
<1>6. ASSUME NEW p \in Procs,
             RequestFails(p) \/ CommandIgnored(p) \/ RequestDies(p)
      PROVE  OvercountInv'
  BY <1>4, <1>6 DEF RequestFails, CommandIgnored, RequestDies, Spend, TypeOK, FaultNames,
       listenerVars
<1>7. CASE Environment
  BY <1>2, <1>3, <1>5, <1>6, <1>7 DEF Environment
<1>8. ASSUME NEW p \in Procs, NEW op \in Ops, NEW u \in Actors, Begin(p, op, u)
      PROVE  OvercountInv'
  BY <1>4, <1>8 DEF Begin, listenerVars
<1>9. CASE UNCHANGED vars
  BY <1>4, <1>9 DEF vars, listenerVars
<1>10. QED
  BY <1>1, <1>7, <1>8, <1>9, ListenerKeepsOvercountInv DEF Next

\* Duplicated and redelivered events, lost keys and locks, races and crashes
\* never inflate a stored count: only an exception the listener swallows can,
\* by one each.
THEOREM NeverOvercounts == Spec => []NoOvercount
<1>1. Init => OvercountInv
  <2>1. Cardinality(Residents) \in Int
    BY UsersAssumption, FS_Subset, FS_CardinalityType
  <2>2. ASSUME Init PROVE Spent("listener") = 0
    BY <2>2, BoundsAssumption DEF Init, Spent, FaultNames
  <2>3. QED
    BY <2>1, <2>2 DEF Init, OvercountInv, Owed
<1>2. TypeOK /\ OldestExists /\ OvercountInv /\ [Next]_vars => OvercountInv'
  BY OvercountStep
<1>3. OvercountInv /\ TypeOK => NoOvercount
  <2>1. TypeOK => Cardinality(stored) \in Int /\ Spent("listener") \in Int
    BY StoredFinite, SpentType
  <2>2. QED
    BY <2>1 DEF OvercountInv, NoOvercount, Owed, TypeOK
<1>4. QED
  BY <1>1, <1>2, <1>3, TypeCorrect, PTL DEF Spec
-----------------------------------------------------------------------------
(* Faults. *)

\* A step changes the budget only by using up one fault.
LEMMA FaultStep ==
  ASSUME [Next]_vars
  PROVE  UNCHANGED faults \/ \E f \in FaultNames : Spend(f)
<1>1. {"expire", "lockttl", "restart", "error", "crash", "bloom", "publish",
       "listener", "redeliver"} \subseteq FaultNames
  BY DEF FaultNames
<1>2. ASSUME NEW p \in Procs, Handle(p)
      PROVE  UNCHANGED faults \/ Spend("bloom") \/ Spend("publish")
  BY <1>2, HandleCases
     DEF Ensure, EnsureExists, TryLock, WaitHit, WaitTimeout,
         DoubleCheck, FindLikes, FillCache, FillBloom, ReleaseLock, AddMember,
         LikeSadd, RemoveDummyUser, LikeBloom, PublishEvent, RemoveMember,
         UnlikeSrem, EmptyCheck, AddDummyUser, BatchPostStats, CheckBloomKey,
         CheckBloomMember, CountMembers, DiscountDummy, AnswerRead, AddBloom
<1>3. HandleInteraction => UNCHANGED faults
  BY HandleInteractionCases
     DEF SkipDuplicate, SaveRecord, DeleteRecord, UpdatePostCount,
         UpdateCommentCount, UpdateESPostCount
<1>4. Environment => UNCHANGED faults \/ \E f \in FaultNames : Spend(f)
  BY <1>1
     DEF Environment, RequestFails, CommandIgnored, RequestDies, ListenerFails,
         Redeliver, KeyExpires, LockExpires, RedisRestarts, OtherTargetLiked
<1>5. ASSUME NEW p \in Procs, NEW op \in Ops, NEW u \in Actors, Begin(p, op, u)
      PROVE  UNCHANGED faults
  BY <1>5 DEF Begin
<1>6. UNCHANGED vars => UNCHANGED faults
  BY DEF vars
<1> QED
  BY <1>1, <1>2, <1>3, <1>4, <1>5, <1>6 DEF Next

\* None of these faults can happen any more.
Over(F) == \A f \in F : faults[f] = 0

LEMMA OverStep ==
  ASSUME TypeOK, NEW F \in SUBSET FaultNames, Over(F), [Next]_vars
  PROVE  Over(F)'
<1>1. ASSUME NEW f \in FaultNames, Spend(f)
      PROVE  Over(F)'
  <2>1. faults[f] # 0
    BY <1>1 DEF Spend, TypeOK
  <2>2. f \notin F
    BY <2>1 DEF Over
  <2> QED
    BY <1>1, <2>2, SpendOther DEF Over, TypeOK
<1> QED
  BY <1>1, FaultStep DEF Over
-----------------------------------------------------------------------------
(* The filter.  A like whose target the filter does not know yet has not     *)
(* reached the queue.                                                       *)

FilterFaults == {"restart", "bloom"}

FilterInv ==
  /\ bloom # "with" =>
       /\ stored = {}
       /\ \A i \in 1..Len(queue) : queue[i].act # "ADD"
       /\ \A p \in Procs : pc[p] = "publish" => req[p].op # "like"
  /\ \A p \in Procs : pc[p] \in {"scardempty", "adddummy"} => req[p].op = "unlike"

\* Without its faults, AddBloom makes the target known.
LEMMA AddBloomKnown ==
  ASSUME Over(FilterFaults), AddBloom
  PROVE  bloom' = "with"
BY DEF Over, FilterFaults, AddBloom, Spend

LEMMA PublishedAct ==
  ASSUME TypeOK, NEW p \in Procs, PublishEvent(p)
  PROVE  \/ UNCHANGED queue
         \/ /\ [user |-> req[p].user,
                act |-> IF req[p].op = "like" THEN "ADD" ELSE "REMOVE"] \in Event
            /\ queue' = Append(queue, [user |-> req[p].user,
                    act |-> IF req[p].op = "like" THEN "ADD" ELSE "REMOVE"])
<1>1. req[p] \in Request
  BY DEF PublishEvent, TypeOK
<1> QED
  BY <1>1 DEF Event, Request, PublishEvent

LEMMA FilterHandle ==
  ASSUME TypeOK, Over(FilterFaults), FilterInv, NEW p \in Procs, Handle(p)
  PROVE  FilterInv'
<1> USE DEF FilterInv, redisVars, handlerVars, listenerVars, GoTo, Reply
<1>1. CASE Ensure(p)
  <2>0. pc' = [pc EXCEPT ![p] = pc'[p]] /\ UNCHANGED <<req, queue, stored>>
        /\ pc'[p] \notin {"publish", "scardempty", "adddummy"}
    BY <1>1 DEF TypeOK, Ensure, EnsureExists, TryLock, WaitHit, WaitTimeout,
           DoubleCheck, FindLikes, FillCache, FillBloom, ReleaseLock, Resume, Warmed
  <2>1. bloom' = bloom \/ bloom' = "with"
    BY <1>1, AddBloomKnown
       DEF Ensure, EnsureExists, TryLock, WaitHit, WaitTimeout,
           DoubleCheck, FindLikes, FillCache, FillBloom, ReleaseLock
  <2> QED
    BY <2>0, <2>1 DEF TypeOK
<1>2. CASE BatchPostStats(p)
  BY ZenonT(60), <1>2 DEF TypeOK, BatchPostStats, CheckBloomKey, CheckBloomMember, CountMembers,
       DiscountDummy, AnswerRead
<1>3. CASE PublishEvent(p)
  <2>1. CASE UNCHANGED queue
    BY <1>3, <2>1 DEF PublishEvent, TypeOK
  <2>2. ASSUME NEW e \in Event, queue' = Append(queue, e), bloom # "with",
               e.act # "ADD"
        PROVE  \A i \in 1..Len(queue') : queue'[i].act # "ADD"
    <3>1. queue \in Seq(Event)
      BY DEF TypeOK
    <3>2. Len(queue') = Len(queue) + 1
      BY <2>2, <3>1
    <3>3. \A i \in 1..Len(queue') : i # Len(queue) + 1 => i \in 1..Len(queue)
      BY <3>1, <3>2
    <3>4. \A i \in 1..Len(queue) : queue'[i] = queue[i]
      BY <2>2, <3>1
    <3>5. queue'[Len(queue) + 1] = e
      BY <2>2, <3>1
    <3> QED
      BY <2>2, <3>3, <3>4, <3>5
  <2>3. bloom' = bloom /\ stored' = stored /\ pc[p] = "publish"
        /\ pc' = [pc EXCEPT ![p] = "idle"]
        /\ req' = [req EXCEPT ![p] = NoRequest]
    BY <1>3 DEF PublishEvent
  <2>4. bloom # "with" => \A i \in 1..Len(queue') : queue'[i].act # "ADD"
    BY <1>3, <2>1, <2>2, <2>3, PublishedAct
  <2> QED
    BY <2>3, <2>4 DEF TypeOK
<1>4. CASE LikeSadd(p) \/ RemoveDummyUser(p)
  BY ZenonT(60), <1>4 DEF LikeSadd, RemoveDummyUser, TypeOK
<1>5. CASE LikeBloom(p)
  <2>1. bloom' = "with"
    BY <1>5, AddBloomKnown DEF LikeBloom
  <2> QED
    BY <1>5, <2>1 DEF LikeBloom, TypeOK
<1>6. CASE req[p].op = "unlike"
           /\ (UnlikeSrem(p) \/ EmptyCheck(p) \/ AddDummyUser(p))
  BY <1>6 DEF UnlikeSrem, EmptyCheck, AddDummyUser, TypeOK
<1> QED
  BY <1>1, <1>2, <1>3, <1>4, <1>5, <1>6, HandleCases DEF AddMember, RemoveMember

\* The listener stores a like only after it was queued.
LEMMA FilterListener ==
  ASSUME TypeOK, OldestExists, FilterInv, HandleInteraction \/ ListenerFails \/ Redeliver
  PROVE  FilterInv'
<1>1. /\ UNCHANGED <<bloom, pc, req>>
      /\ queue' = queue \/ (queue # <<>> /\ queue' = Tail(queue))
  BY HandleInteractionCases
     DEF SkipDuplicate, SaveRecord, DeleteRecord, UpdatePostCount,
         UpdateCommentCount, UpdateESPostCount, ListenerFails, Redeliver, Acknowledge,
         OldestExists, redisVars, handlerVars
<1>2. bloom # "with" => \A i \in 1..Len(queue') : queue'[i].act # "ADD"
  <2>1. CASE queue' = queue
    BY <2>1 DEF FilterInv
  <2>2. CASE queue # <<>> /\ queue' = Tail(queue)
    <3>1. queue \in Seq(Event)
      BY DEF TypeOK
    <3>2. \A i \in 1..Len(queue') : i + 1 \in 1..Len(queue) /\ queue'[i] = queue[i + 1]
      BY <2>2, <3>1
    <3> QED
      BY <3>2 DEF FilterInv
  <2> QED
    BY <1>1, <2>1, <2>2
<1>3. bloom # "with" => stored' = {}
  <2>1. UNCHANGED stored \/ SaveRecord \/ DeleteRecord
    BY HandleInteractionCases
       DEF SkipDuplicate, UpdatePostCount,
         UpdateCommentCount, UpdateESPostCount, ListenerFails, Redeliver
  <2>2. ASSUME SaveRecord PROVE bloom = "with"
    <3>1. Len(queue) \in Nat /\ Len(queue) # 0 /\ Oldest = queue[1]
      BY <2>2 DEF SaveRecord, Oldest, TypeOK
    <3> QED
      BY <2>2, <3>1 DEF SaveRecord, FilterInv
  <2>3. bloom # "with" => stored = {}
    BY DEF FilterInv
  <2> QED
    BY <2>1, <2>2, <2>3 DEF DeleteRecord
<1> QED
  BY <1>1, <1>2, <1>3 DEF FilterInv

LEMMA FilterStep ==
  ASSUME TypeOK, OldestExists, Over(FilterFaults), FilterInv, [Next]_vars
  PROVE  FilterInv'
<1> USE DEF FilterInv, redisVars, handlerVars, listenerVars
<1>1. ASSUME NEW p \in Procs, NEW op \in Ops, NEW u \in Actors, Begin(p, op, u)
      PROVE  FilterInv'
  BY <1>1 DEF Begin, TypeOK
<1>2. ASSUME NEW p \in Procs, RequestFails(p) \/ RequestDies(p)
      PROVE  FilterInv'
  BY ZenonT(60), <1>2 DEF RequestFails, RequestDies, GoTo, Reply, TypeOK
<1>3. ASSUME NEW p \in Procs, CommandIgnored(p)
      PROVE  FilterInv'
  <2>1. AfterIgnored(p) \notin {"scardempty", "adddummy"}
    BY DEF AfterIgnored, Resume
  <2>2. AfterIgnored(p) = "publish" => pc[p] \in {"scardempty", "adddummy"}
    BY <1>3 DEF CommandIgnored, AfterIgnored, Resume, ReadSteps
  <2> QED
    BY <1>3, <2>1, <2>2 DEF CommandIgnored, GoTo, TypeOK
<1>4. ~RedisRestarts
  BY DEF RedisRestarts, Spend, Over, FilterFaults
<1>5. CASE KeyExpires \/ LockExpires \/ OtherTargetLiked
  BY <1>5 DEF KeyExpires, LockExpires, OtherTargetLiked
<1>6. CASE UNCHANGED vars
  BY <1>6 DEF vars
<1> QED
  BY <1>1, <1>2, <1>3, <1>4, <1>5, <1>6, FilterHandle, FilterListener
     DEF Next, Environment

\* As long as Redis keeps the filter and its commands are served, the filter denies
\* no target whose first like is stored or queued, whatever else fails.
THEOREM FilterCoversStore ==
  ASSUME Residents = {}, Budget["restart"] = 0, Budget["bloom"] = 0
  PROVE  Spec => []BloomCoversStore
<1>1. FilterFaults \in SUBSET FaultNames
  BY DEF FilterFaults, FaultNames
<1>2. Init => FilterInv
  BY DEF Init, FilterInv
<1>3. Init => Over(FilterFaults)
  BY DEF Init, Over, FilterFaults
<1>4. TypeOK /\ Over(FilterFaults) /\ [Next]_vars => Over(FilterFaults)'
  BY <1>1, OverStep
<1>5. TypeOK /\ OldestExists /\ Over(FilterFaults) /\ FilterInv /\ [Next]_vars => FilterInv'
  BY FilterStep
<1>6. FilterInv => BloomCoversStore
  BY DEF FilterInv, BloomCoversStore
<1> QED
  BY <1>2, <1>3, <1>4, <1>5, <1>6, TypeCorrect, PTL DEF Spec
-----------------------------------------------------------------------------
(* Warmed sets.  The faults of LossFaults lose a lock, a published change or *)
(* an event; while they stay away, a set is filled by the holder of the lock *)
(* alone, when there is no set and no event, and is never empty again until  *)
(* it is dropped.  Then it is what the users wish, if the database is: what   *)
(* the queue tells of a user, or the record when it tells nothing, is his     *)
(* wish, or the opposite while the change is on its way to the queue.        *)

LossFaults == {"lockttl", "error", "crash", "publish", "listener"}

Warming == {"double", "find", "fill", "fillbloom", "release"}
Telling == {"rmdummy", "addbloom", "scardempty", "adddummy", "publish"}
Warmth  == {"sadd", "srem", "fillbloom", "release"} \cup Telling

\* Exactly the holder of the lock warms the set.
LockInv ==
  \A p \in Procs : /\ holds[p] <=> lock = p
                   /\ holds[p] <=> pc[p] \in Warming

\* A handler's command fits its request, whose user is no resident.
OpInv ==
  \A p \in Procs :
     /\ ~Idle(p) => req[p].user \in Actors
     /\ pc[p] \in {"sadd", "rmdummy", "addbloom"} => req[p].op = "like"
     /\ pc[p] \in {"srem", "scardempty", "adddummy"} => req[p].op = "unlike"
     /\ pc[p] = "publish" => req[p].op # "read"

SerialInv ==
  \A u \in Users : \A p, q \in Procs : Writing(p, u) /\ Writing(q, u) => p = q

WarmInv ==
  /\ Residents \subseteq Wished
  /\ WarmSetIsExact
  /\ cache = {} => queue = <<>>
  /\ \A p \in Procs :
       /\ pc[p] \in Warmth => cache # {}
       /\ pc[p] = "wait" => cache # {} \/ lock # None
       /\ pc[p] \in {"find", "fill"} => cache = {}
       /\ pc[p] = "fill" => snap[p] = stored

\* What the queue q and the records s tell of a user: his last event, or his record.
ToldIn(q, s, u) ==
  \/ \E i \in 1..Len(q) :
       /\ q[i].user = u /\ q[i].act = "ADD"
       /\ \A j \in 1..Len(q) : j > i => q[j].user # u
  \/ u \in s /\ \A i \in 1..Len(q) : q[i].user # u

Tells(p, u) == pc[p] \in Telling /\ req[p].user = u

TellInv ==
  \A u \in Users :
     /\ \A p \in Procs : Tells(p, u) => /\ req[p].op = "like" <=> wish[u]
                                        /\ ToldIn(queue, stored, u) <=> ~wish[u]
     /\ (\A p \in Procs : ~Tells(p, u)) => (ToldIn(queue, stored, u) <=> wish[u])

\* Past its first step the listener has made the record what the event says.
AppliedInv ==
  applying # "record" => (Oldest.act = "ADD" <=> Oldest.user \in stored)

LEMMA ToldAppend ==
  ASSUME NEW q \in Seq(Event), NEW e \in Event, NEW s, NEW u
  PROVE  ToldIn(Append(q, e), s, u) <=>
           IF u = e.user THEN e.act = "ADD" ELSE ToldIn(q, s, u)
<1> DEFINE r == Append(q, e)
<1>1. /\ Len(r) = Len(q) + 1 /\ Len(q) \in Nat
      /\ r[Len(q) + 1] = e
      /\ \A i \in 1..Len(q) : r[i] = q[i]
  OBVIOUS
<1>2. \A i \in 1..Len(r) : i \in 1..Len(q) \/ i = Len(q) + 1
  BY <1>1
<1>3. \A i \in 1..Len(q) : i \in 1..Len(r) /\ Len(q) + 1 > i
  BY <1>1
<1>4. Len(q) + 1 \in 1..Len(r)
  BY <1>1
<1> HIDE DEF r
<1>5. CASE u = e.user
  <2>1. \A j \in 1..Len(r) : ~(j > Len(q) + 1)
    BY <1>1
  <2> QED
    BY <1>1, <1>2, <1>3, <1>4, <1>5, <2>1 DEF ToldIn, r
<1>6. CASE u # e.user
  <2>1. ASSUME NEW i \in 1..Len(q)
        PROVE  (\A j \in 1..Len(r) : j > i => r[j].user # u)
                 <=> (\A j \in 1..Len(q) : j > i => q[j].user # u)
    BY <1>1, <1>2, <1>3, <1>6
  <2>2. (\A j \in 1..Len(r) : r[j].user # u) <=> (\A j \in 1..Len(q) : q[j].user # u)
    BY <1>1, <1>2, <1>3, <1>6
  <2> QED
    BY <1>1, <1>2, <1>3, <1>6, <2>1, <2>2 DEF ToldIn, r
<1> QED
  BY <1>5, <1>6

\* Taking the oldest event away tells the same, once the record says it.
LEMMA ToldTail ==
  ASSUME NEW q \in Seq(Event), q # <<>>, NEW s, NEW u,
         Head(q).act = "ADD" <=> Head(q).user \in s
  PROVE  ToldIn(Tail(q), s, u) <=> ToldIn(q, s, u)
<1> DEFINE t == Tail(q)
<1>1. /\ Len(q) \in Nat \ {0} /\ Len(t) = Len(q) - 1 /\ Head(q) = q[1]
      /\ \A i \in 1..Len(t) : t[i] = q[i + 1] /\ i + 1 \in 1..Len(q)
  OBVIOUS
<1>2. \A i \in 1..Len(q) : i = 1 \/ (i - 1 \in 1..Len(t) /\ t[i - 1] = q[i] /\ i > 1)
  BY <1>1
<1>3. 1 \in 1..Len(q)
  BY <1>1
<1> HIDE DEF t
<1>4. ASSUME NEW i \in 1..Len(t)
      PROVE  (\A j \in 1..Len(t) : j > i => t[j].user # u)
               <=> (\A j \in 1..Len(q) : j > i + 1 => q[j].user # u)
  BY <1>1, <1>2
<1>5. (\A j \in 1..Len(t) : t[j].user # u) <=> (\A j \in 1..Len(q) : j > 1 => q[j].user # u)
  BY <1>1, <1>2
<1>6. (\A j \in 1..Len(q) : q[j].user # u)
        <=> q[1].user # u /\ \A j \in 1..Len(q) : j > 1 => q[j].user # u
  BY <1>2, <1>3
<1>7. (\E i \in 1..Len(t) : /\ t[i].user = u /\ t[i].act = "ADD"
                            /\ \A j \in 1..Len(t) : j > i => t[j].user # u)
        <=> \E i \in 1..Len(q) : /\ i > 1
                                 /\ q[i].user = u /\ q[i].act = "ADD"
                                 /\ \A j \in 1..Len(q) : j > i => q[j].user # u
  <2>1. ASSUME NEW i \in 1..Len(t), t[i].user = u, t[i].act = "ADD",
               \A j \in 1..Len(t) : j > i => t[j].user # u
        PROVE  \E k \in 1..Len(q) : /\ k > 1
                                 /\ q[k].user = u /\ q[k].act = "ADD"
                                 /\ \A j \in 1..Len(q) : j > k => q[j].user # u
    <3>1. i + 1 \in 1..Len(q) /\ i + 1 > 1
      BY <1>1
    <3> QED
      BY <1>1, <1>4, <2>1, <3>1
  <2>2. ASSUME NEW i \in 1..Len(q), i > 1, q[i].user = u, q[i].act = "ADD",
               \A j \in 1..Len(q) : j > i => q[j].user # u
        PROVE  \E k \in 1..Len(t) : /\ t[k].user = u /\ t[k].act = "ADD"
                            /\ \A j \in 1..Len(t) : j > k => t[j].user # u
    <3>1. i - 1 \in 1..Len(t) /\ t[i - 1] = q[i]
      BY <1>2, <2>2
    <3>2. \A j \in 1..Len(t) : j > i - 1 => j + 1 > i
      BY <1>1
    <3> QED
      BY <1>1, <2>2, <3>1, <3>2
  <2> QED
    BY <2>1, <2>2
<1>8. (\E i \in 1..Len(q) : /\ q[i].user = u /\ q[i].act = "ADD"
                            /\ \A j \in 1..Len(q) : j > i => q[j].user # u)
        <=> \/ \E i \in 1..Len(q) : /\ i > 1
                                    /\ q[i].user = u /\ q[i].act = "ADD"
                                    /\ \A j \in 1..Len(q) : j > i => q[j].user # u
            \/ /\ q[1].user = u /\ q[1].act = "ADD"
               /\ \A j \in 1..Len(q) : j > 1 => q[j].user # u
  BY <1>2, <1>3
<1> QED
  BY <1>1, <1>5, <1>6, <1>7, <1>8 DEF ToldIn, t

\* The record of the oldest event's user is told by the queue.
LEMMA ToldStore ==
  ASSUME NEW q \in Seq(Event), q # <<>>, NEW s, NEW t, NEW u,
         u # Head(q).user => (u \in s <=> u \in t)
  PROVE  ToldIn(q, t, u) <=> ToldIn(q, s, u)
<1>1. 1 \in 1..Len(q) /\ Head(q) = q[1]
  OBVIOUS
<1> QED
  BY <1>1 DEF ToldIn

LEMMA ToldEmpty ==
  ASSUME NEW s, NEW u
  PROVE  ToldIn(<<>>, s, u) <=> u \in s
BY DEF ToldIn
-----------------------------------------------------------------------------
LEMMA QuietEnvironment ==
  ASSUME Over(LossFaults)
  PROVE  /\ Environment => Redeliver \/ KeyExpires \/ RedisRestarts \/ OtherTargetLiked
         /\ ~Spend("publish")
<1>1. \A f \in LossFaults : ~Spend(f)
  BY DEF Over, Spend
<1>2. /\ ~Spend("lockttl") /\ ~Spend("error") /\ ~Spend("crash")
      /\ ~Spend("publish") /\ ~Spend("listener")
  BY <1>1 DEF LossFaults
<1> QED
  BY <1>2 DEF Environment, RequestFails, CommandIgnored, RequestDies, ListenerFails,
       LockExpires

\* No waiter gives up: while it waits somebody holds the lock, or there is a set.
LEMMA NoTimeout ==
  ASSUME TypeOK, PatientWaiters, LockInv, WarmInv, NEW p \in Procs
  PROVE  ~WaitTimeout(p)
BY DEF TypeOK, LockInv, WarmInv, WaitTimeout

\* The commands a handler can send.
LEMMA HandleMoves ==
  ASSUME TypeOK, PatientWaiters, LockInv, WarmInv, NEW p \in Procs, Handle(p)
  PROVE  \/ EnsureExists(p) \/ TryLock(p) \/ WaitHit(p) \/ DoubleCheck(p)
         \/ FindLikes(p) \/ FillCache(p) \/ FillBloom(p) \/ ReleaseLock(p)
         \/ BatchPostStats(p)
         \/ req[p].op = "like" /\ (LikeSadd(p) \/ RemoveDummyUser(p) \/ LikeBloom(p))
         \/ req[p].op = "unlike" /\ (UnlikeSrem(p) \/ EmptyCheck(p) \/ AddDummyUser(p))
         \/ req[p].op # "read" /\ PublishEvent(p)
BY HandleCases, NoTimeout DEF Ensure, AddMember, RemoveMember

LEMMA LockStep ==
  ASSUME TypeOK, PatientWaiters, Over(LossFaults), LockInv, WarmInv, QuietExpiry, [Next]_vars
  PROVE  LockInv'
<1> USE UsersAssumption DEF TypeOK, LockInv, Warming, redisVars, handlerVars, listenerVars,
        GoTo, Reply, Resume, Warmed
<1>1. ASSUME NEW p \in Procs, Handle(p)
      PROVE  LockInv'
  <2>1. CASE EnsureExists(p)
    BY <2>1 DEF EnsureExists
  <2>2. CASE TryLock(p)
    BY SMTT(30), <2>2 DEF TryLock
  <2>3. CASE WaitHit(p)
    BY <2>3 DEF WaitHit
  <2>4. CASE DoubleCheck(p)
    BY <2>4 DEF DoubleCheck
  <2>5. CASE FindLikes(p)
    BY <2>5 DEF FindLikes
  <2>6. CASE FillCache(p)
    BY <2>6 DEF FillCache
  <2>7. CASE FillBloom(p)
    BY <2>7 DEF FillBloom
  <2>8. CASE ReleaseLock(p)
    BY <2>8 DEF ReleaseLock
  <2>9. CASE BatchPostStats(p)
    BY ZenonT(60), <2>9 DEF BatchPostStats, CheckBloomKey, CheckBloomMember, CountMembers,
                DiscountDummy, AnswerRead
  <2>10. CASE LikeSadd(p) \/ RemoveDummyUser(p) \/ LikeBloom(p)
    BY ZenonT(60), <2>10 DEF LikeSadd, RemoveDummyUser, LikeBloom
  <2>11. CASE UnlikeSrem(p) \/ EmptyCheck(p) \/ AddDummyUser(p)
    BY ZenonT(60), <2>11 DEF UnlikeSrem, EmptyCheck, AddDummyUser
  <2>12. CASE PublishEvent(p)
    BY <2>12 DEF PublishEvent
  <2> QED
    BY <1>1, <2>1, <2>2, <2>3, <2>4, <2>5, <2>6, <2>7, <2>8, <2>9, <2>10, <2>11,
       <2>12, HandleMoves
<1>2. HandleInteraction \/ Redeliver \/ OtherTargetLiked \/ KeyExpires
        => UNCHANGED <<lock, holds, pc>>
  BY HandleInteractionCases
     DEF SkipDuplicate, SaveRecord, DeleteRecord, UpdatePostCount, UpdateCommentCount,
         UpdateESPostCount, Redeliver, OtherTargetLiked, KeyExpires
<1>3. CASE RedisRestarts
  <2>1. \A p \in Procs : pc[p] = "idle"
    BY <1>3 DEF RedisRestarts, Settled, Busy, Idle
  <2> QED
    BY <1>3, <2>1 DEF RedisRestarts
<1>4. ASSUME NEW p \in Procs, NEW op \in Ops, NEW u \in Actors, Begin(p, op, u)
      PROVE  LockInv'
  BY <1>4 DEF Begin, Idle
<1>5. UNCHANGED vars => UNCHANGED <<lock, holds, pc>>
  BY DEF vars
<1>6. UNCHANGED <<lock, holds, pc>> => LockInv'
  OBVIOUS
<1> QED
  BY <1>1, <1>2, <1>3, <1>4, <1>5, <1>6, QuietEnvironment DEF Next

\* A handler's step is its own, and its request stays until it is answered.
LEMMA HandleFrame ==
  ASSUME TypeOK, NEW p \in Procs, Handle(p)
  PROVE  /\ pc[p] # "idle"
         /\ \A q \in Procs : q # p => pc'[q] = pc[q] /\ req'[q] = req[q]
         /\ req'[p] = req[p] \/ pc'[p] = "idle"
<1> USE DEF TypeOK, GoTo, Reply
<1>1. CASE Ensure(p)
  BY <1>1 DEF Ensure, EnsureExists, TryLock, WaitHit, WaitTimeout, DoubleCheck,
              FindLikes, FillCache, FillBloom, ReleaseLock
<1>2. CASE BatchPostStats(p)
  BY <1>2 DEF BatchPostStats, CheckBloomKey, CheckBloomMember, CountMembers, DiscountDummy,
              AnswerRead
<1>3. CASE AddMember(p)
  BY <1>3 DEF AddMember, LikeSadd, RemoveDummyUser, LikeBloom, PublishEvent
<1>4. CASE RemoveMember(p)
  BY <1>4 DEF RemoveMember, UnlikeSrem, EmptyCheck, AddDummyUser, PublishEvent
<1> QED
  BY <1>1, <1>2, <1>3, <1>4, HandleCases

LEMMA ResumeFits ==
  ASSUME TypeOK, NEW p \in Procs
  PROVE  \/ Resume(p) = "sadd" /\ req[p].op = "like"
         \/ Resume(p) = "srem" /\ req[p].op = "unlike"
         \/ Resume(p) = "scard"
BY DEF Resume

LEMMA OpStep ==
  ASSUME TypeOK, PatientWaiters, Over(LossFaults), LockInv, WarmInv, OpInv, [Next]_vars
  PROVE  OpInv'
<1> USE DEF TypeOK, OpInv, Idle, redisVars, handlerVars, listenerVars,
        GoTo, Reply, Warmed
<1>1. ASSUME NEW p \in Procs, Handle(p)
      PROVE  OpInv'
  <2>1. CASE EnsureExists(p) \/ WaitHit(p)
    BY ResumeFits, <2>1 DEF EnsureExists, WaitHit
  <2>2. CASE TryLock(p)
    BY <2>2 DEF TryLock
  <2>4. CASE DoubleCheck(p)
    BY ResumeFits, <2>4 DEF DoubleCheck
  <2>5. CASE FindLikes(p)
    BY <2>5 DEF FindLikes
  <2>6. CASE FillCache(p)
    BY ResumeFits, <2>6 DEF FillCache
  <2>7. CASE FillBloom(p)
    BY ResumeFits, <2>7 DEF FillBloom
  <2>8. CASE ReleaseLock(p)
    BY ResumeFits, <2>8 DEF ReleaseLock
  <2>9. CASE BatchPostStats(p)
    BY <2>9 DEF BatchPostStats, CheckBloomKey, CheckBloomMember, CountMembers,
                DiscountDummy, AnswerRead
  <2>10. CASE req[p].op = "like" /\ (LikeSadd(p) \/ RemoveDummyUser(p) \/ LikeBloom(p))
    BY <2>10 DEF LikeSadd, RemoveDummyUser, LikeBloom
  <2>11. CASE req[p].op = "unlike" /\ (UnlikeSrem(p) \/ EmptyCheck(p) \/ AddDummyUser(p))
    BY <2>11 DEF UnlikeSrem, EmptyCheck, AddDummyUser
  <2>12. CASE PublishEvent(p)
    BY <2>12 DEF PublishEvent
  <2> QED
    BY <1>1, <2>1, <2>2, <2>4, <2>5, <2>6, <2>7, <2>8, <2>9, <2>10, <2>11,
       <2>12, HandleMoves
<1>2. HandleInteraction \/ Redeliver \/ OtherTargetLiked \/ KeyExpires \/ RedisRestarts
        => UNCHANGED <<req, pc>>
  BY HandleInteractionCases
     DEF SkipDuplicate, SaveRecord, DeleteRecord, UpdatePostCount, UpdateCommentCount,
         UpdateESPostCount, Redeliver, OtherTargetLiked, KeyExpires, RedisRestarts
<1>3. ASSUME NEW p \in Procs, NEW op \in Ops, NEW u \in Actors, Begin(p, op, u)
      PROVE  OpInv'
  BY <1>3 DEF Begin
<1>4. UNCHANGED vars => UNCHANGED <<req, pc>>
  BY DEF vars
<1>5. UNCHANGED <<req, pc>> => OpInv'
  OBVIOUS
<1> QED
  BY <1>1, <1>2, <1>3, <1>4, <1>5, QuietEnvironment DEF Next

LEMMA SerialStep ==
  ASSUME TypeOK, SerialUsers, Over(LossFaults), SerialInv, [Next]_vars
  PROVE  SerialInv'
<1> USE DEF SerialInv, Writing, Idle, TypeOK
<1>1. ASSUME NEW p \in Procs, Handle(p)
      PROVE  SerialInv'
  <2>1. \A q \in Procs, u \in Users : Writing(q, u)' => Writing(q, u)
    BY <1>1, HandleFrame
  <2> HIDE DEF Writing, Idle, TypeOK
  <2> QED
    BY <2>1
<1>2. HandleInteraction \/ Redeliver \/ OtherTargetLiked \/ KeyExpires \/ RedisRestarts
        => UNCHANGED <<req, pc>>
  BY HandleInteractionCases
     DEF SkipDuplicate, SaveRecord, DeleteRecord, UpdatePostCount, UpdateCommentCount,
         UpdateESPostCount, Redeliver, OtherTargetLiked, KeyExpires, RedisRestarts,
         redisVars, handlerVars, listenerVars
<1>3. ASSUME NEW p \in Procs, NEW op \in Ops, NEW u \in Actors, Begin(p, op, u)
      PROVE  SerialInv'
  <2>1. /\ op # "read" => \A q \in Procs : ~Writing(q, u)
        /\ req' = [req EXCEPT ![p] = [op |-> op, user |-> u]]
        /\ \A q \in Procs : q # p => pc'[q] = pc[q]
    BY <1>3 DEF Begin
  <2>2. ASSUME NEW v \in Users, NEW a \in Procs, NEW b \in Procs, Writing(a, v)', Writing(b, v)'
        PROVE  a = b
    <3>1. \A q \in Procs : q # p => (Writing(q, v)' <=> Writing(q, v))
      BY <2>1
    <3>2. Writing(p, v)' => op # "read" /\ v = u
      BY <2>1
    <3> QED
      BY <2>1, <2>2, <3>1, <3>2
  <2> QED
    BY <2>2
<1>4. UNCHANGED vars => UNCHANGED <<req, pc>>
  BY DEF vars, handlerVars
<1>5. UNCHANGED <<req, pc>> => SerialInv'
  OBVIOUS
<1> QED
  BY <1>1, <1>2, <1>3, <1>4, <1>5, QuietEnvironment DEF Next

\* A step of the listener changes the record of the oldest event's user alone, and
\* takes the event away only when the record says what it says.
LEMMA ListenerMoves ==
  ASSUME TypeOK, OldestExists, AppliedInv, HandleInteraction \/ Redeliver
  PROVE  /\ queue # <<>>
         /\ UNCHANGED <<redisVars, handlerVars, wish>>
         /\ \/ /\ queue' = queue
               /\ \A u \in Users : u # Oldest.user => (u \in stored' <=> u \in stored)
               /\ Oldest.act = "ADD" <=> Oldest.user \in stored'
            \/ /\ queue' = Tail(queue) /\ stored' = stored /\ applying' = "record"
               /\ Oldest.act = "ADD" <=> Oldest.user \in stored
<1>1. CASE SkipDuplicate
  BY <1>1 DEF SkipDuplicate, Acknowledge
<1>2. CASE SaveRecord
  BY <1>2 DEF SaveRecord
<1>3. CASE DeleteRecord
  BY <1>3 DEF DeleteRecord
<1>4. CASE UpdatePostCount
  <2>1. applying # "record"
    BY <1>4 DEF UpdatePostCount
  <2> QED
    BY <1>4, <2>1 DEF UpdatePostCount, Acknowledge, OldestExists, AppliedInv
<1>5. CASE UpdateCommentCount
  <2>1. applying # "record"
    BY <1>5 DEF UpdateCommentCount
  <2> QED
    BY <1>5, <2>1 DEF UpdateCommentCount, Acknowledge, OldestExists, AppliedInv
<1>6. CASE UpdateESPostCount
  <2>1. applying # "record"
    BY <1>6 DEF UpdateESPostCount
  <2> QED
    BY <1>6, <2>1 DEF UpdateESPostCount, Acknowledge, OldestExists, AppliedInv
<1>7. CASE Redeliver
  <2>1. applying # "record"
    BY <1>7 DEF Redeliver
  <2> QED
    BY <1>7, <2>1 DEF Redeliver, OldestExists, AppliedInv
<1> QED
  BY <1>1, <1>2, <1>3, <1>4, <1>5, <1>6, <1>7, HandleInteractionCases

LEMMA ListenerTells ==
  ASSUME TypeOK, OldestExists, AppliedInv, HandleInteraction \/ Redeliver, NEW u \in Users
  PROVE  ToldIn(queue', stored', u) <=> ToldIn(queue, stored, u)
<1>1. queue \in Seq(Event) /\ queue # <<>> /\ Oldest = Head(queue)
  BY ListenerMoves DEF TypeOK, Oldest
<1>2. CASE /\ queue' = queue
           /\ \A v \in Users : v # Oldest.user => (v \in stored' <=> v \in stored)
  BY <1>1, <1>2, ToldStore
<1>3. CASE /\ queue' = Tail(queue) /\ stored' = stored
           /\ Oldest.act = "ADD" <=> Oldest.user \in stored
  BY <1>1, <1>3, ToldTail
<1> QED
  BY <1>2, <1>3, ListenerMoves

\* The other handlers, the clients and Redis leave the listener alone; a handler may
\* append an event.
LEMMA BystanderMoves ==
  ASSUME TypeOK, Over(LossFaults), [Next]_vars, ~(HandleInteraction \/ Redeliver)
  PROVE  /\ UNCHANGED <<applying, stored, likeCount, esCount>>
         /\ \/ UNCHANGED queue
            \/ \E p \in Procs : /\ Handle(p) /\ PublishEvent(p)
                                /\ req[p].op # "read"
                                /\ \E e \in Event :
                                     /\ e.user = req[p].user
                                     /\ e.act = "ADD" <=> req[p].op = "like"
                                     /\ queue' = Append(queue, e)
<1>1. ASSUME NEW p \in Procs, Handle(p)
      PROVE  /\ UNCHANGED <<applying, stored, likeCount, esCount>>
             /\ UNCHANGED queue \/ (PublishEvent(p) /\ req[p].op # "read")
  BY <1>1, HandleCases DEF Ensure, EnsureExists, TryLock, WaitHit, WaitTimeout,
                  DoubleCheck, FindLikes, FillCache, FillBloom, ReleaseLock,
                  AddMember, LikeSadd, RemoveDummyUser, LikeBloom, RemoveMember,
                  UnlikeSrem, EmptyCheck, AddDummyUser, BatchPostStats,
                  CheckBloomKey, CheckBloomMember, CountMembers, DiscountDummy,
                  AnswerRead, listenerVars, PublishEvent
<1>2. ASSUME NEW p \in Procs, PublishEvent(p)
      PROVE  \/ UNCHANGED queue
             \/ \E e \in Event : /\ e.user = req[p].user
                                 /\ e.act = "ADD" <=> req[p].op = "like"
                                 /\ queue' = Append(queue, e)
  BY <1>2, PublishedAct
<1>3. KeyExpires \/ RedisRestarts \/ OtherTargetLiked
        => UNCHANGED <<queue, applying, stored, likeCount, esCount>>
  BY DEF KeyExpires, RedisRestarts, OtherTargetLiked, listenerVars
<1>4. ASSUME NEW p \in Procs, NEW op \in Ops, NEW u \in Actors, Begin(p, op, u)
      PROVE  UNCHANGED <<queue, applying, stored, likeCount, esCount>>
  BY <1>4 DEF Begin, listenerVars
<1>5. UNCHANGED vars => UNCHANGED <<queue, applying, stored, likeCount, esCount>>
  BY DEF vars, listenerVars
<1> QED
  BY <1>1, <1>2, <1>3, <1>4, <1>5, QuietEnvironment DEF Next

LEMMA AppliedStep ==
  ASSUME TypeOK, OldestExists, Over(LossFaults), AppliedInv, [Next]_vars
  PROVE  AppliedInv'
<1>1. CASE HandleInteraction \/ Redeliver
  <2>1. queue' = queue => Oldest' = Oldest
    BY DEF Oldest
  <2> QED
    BY <1>1, <2>1, ListenerMoves DEF AppliedInv
<1>2. CASE ~(HandleInteraction \/ Redeliver)
  <2>1. UNCHANGED <<applying, stored>>
    BY <1>2, BystanderMoves
  <2>2. CASE UNCHANGED queue
    BY <2>1, <2>2 DEF AppliedInv, Oldest
  <2>3. ASSUME NEW e \in Event, queue' = Append(queue, e)
        PROVE  AppliedInv'
    <3>1. applying # "record" => Head(queue') = Head(queue)
      BY <2>3, AppendKeepsOldest DEF OldestExists, TypeOK
    <3> QED
      BY <2>1, <3>1 DEF AppliedInv, Oldest
  <2> QED
    BY <1>2, <2>2, <2>3, BystanderMoves
<1> QED
  BY <1>1, <1>2
-----------------------------------------------------------------------------
\* Nothing in the queue and nothing on its way: the records are the wishes.
LEMMA QuietStore ==
  ASSUME TypeOK, TellInv, queue = <<>>, \A p \in Procs : pc[p] \notin Telling
  PROVE  stored = Wished
<1>1. ASSUME NEW u \in Users
      PROVE  u \in stored <=> wish[u]
  <2>1. \A p \in Procs : ~Tells(p, u)
    BY DEF Tells
  <2> QED
    BY <2>1, ToldEmpty DEF TellInv
<1> QED
  BY <1>1 DEF Wished, TypeOK

\* A step that leaves the wishes, the queue and the records alone, and begins or ends
\* no telling.
LEMMA TellFrame ==
  ASSUME TellInv, UNCHANGED <<wish, queue, stored>>,
         \A p \in Procs : pc'[p] \in Telling <=> pc[p] \in Telling,
         \A p \in Procs : pc[p] \in Telling => req'[p] = req[p]
  PROVE  TellInv'
<1>1. \A p \in Procs, u \in Users : Tells(p, u)' <=> Tells(p, u)
  BY DEF Tells
<1>2. \A u \in Users : ToldIn(queue, stored, u)' <=> ToldIn(queue, stored, u)
  BY DEF ToldIn
<1>3. \A p \in Procs, u \in Users :
        Tells(p, u) => (req'[p].op = "like" <=> req[p].op = "like")
  BY DEF Tells
<1> QED
  BY <1>1, <1>2, <1>3 DEF TellInv

\* A change that is made in Redis is on its way.
LEMMA TellChange ==
  ASSUME TypeOK, OpInv, SerialInv, WarmInv, TellInv, NEW p \in Procs,
         LikeSadd(p) \/ UnlikeSrem(p),
         NEW u, u = req[p].user, NEW c \in BOOLEAN, c <=> pc[p] = "sadd"
  PROVE  TellInv'
<1>1. /\ pc[p] \in {"sadd", "srem"} /\ pc[p] \notin Telling
      /\ UNCHANGED <<queue, stored>>
      /\ u \in Users /\ ~Idle(p) /\ req[p].op # "read"
      /\ req[p].op = "like" <=> c
      /\ cache # {}
  BY DEF LikeSadd, UnlikeSrem, Telling, listenerVars, OpInv, Idle, Actors, WarmInv, Warmth
<1>2. u \in cache <=> wish[u]
  BY <1>1, UsersAssumption DEF WarmInv, WarmSetIsExact, Likers, Wished
<1>3. /\ wish'[u] <=> c
      /\ \A v \in Users : v # u => wish'[v] = wish[v]
      /\ wish' \in [Users -> BOOLEAN]
      /\ \A q \in Procs : q # p => pc'[q] = pc[q] /\ req'[q] = req[q]
      /\ \/ (c <=> u \in cache) /\ pc'[p] = "idle"
         \/ (c <=> u \notin cache) /\ pc'[p] \in {"rmdummy", "scardempty"} /\ req'[p] = req[p]
  <2>1. CASE LikeSadd(p)
    <3>1. c /\ wish' = [wish EXCEPT ![u] = TRUE]
      BY <2>1 DEF LikeSadd
    <3>2. IF u \in cache THEN Reply(p) ELSE GoTo(p, "rmdummy")
      BY <2>1 DEF LikeSadd
    <3> QED
      BY <1>1, <3>1, <3>2 DEF GoTo, Reply, TypeOK
  <2>2. CASE UnlikeSrem(p)
    <3>1. ~c /\ wish' = [wish EXCEPT ![u] = FALSE]
      BY <2>2 DEF UnlikeSrem
    <3>2. IF u \in cache THEN GoTo(p, "scardempty") ELSE Reply(p)
      BY <2>2 DEF UnlikeSrem
    <3> QED
      BY <1>1, <3>1, <3>2 DEF GoTo, Reply, TypeOK
  <2> QED
    BY <2>1, <2>2
<1>4. \A v \in Users : ToldIn(queue, stored, v)' <=> ToldIn(queue, stored, v)
  BY <1>1 DEF ToldIn
<1>5. \A q \in Procs : q # p => ~Tells(q, u)
  <2>1. ASSUME NEW q \in Procs, Tells(q, u)
        PROVE  Writing(q, u)
    BY <2>1 DEF Tells, Writing, Idle, OpInv, Telling
  <2>2. Writing(p, u)
    BY <1>1 DEF Writing
  <2> QED
    BY <1>1, <2>1, <2>2 DEF SerialInv
<1>6. ~Tells(p, u)
  BY <1>1 DEF Tells
<1>7. ToldIn(queue, stored, u) <=> wish[u]
  BY <1>1, <1>5, <1>6 DEF TellInv
<1>8. CASE (c <=> u \in cache) /\ pc'[p] = "idle"
  <2>1. wish' = wish
    BY <1>1, <1>2, <1>3, <1>8 DEF TypeOK
  <2>2. \A q \in Procs : pc'[q] \in Telling <=> pc[q] \in Telling
    BY <1>1, <1>3, <1>8 DEF Telling
  <2>3. \A q \in Procs : pc[q] \in Telling => req'[q] = req[q]
    BY <1>1, <1>3
  <2> QED
    BY <1>1, <2>1, <2>2, <2>3, TellFrame
<1>9. CASE (c <=> u \notin cache) /\ pc'[p] \in {"rmdummy", "scardempty"} /\ req'[p] = req[p]
  <2>1. wish'[u] <=> ~wish[u]
    BY <1>1, <1>2, <1>3, <1>9 DEF TypeOK
  <2>2. wish'[u] <=> c
    BY <1>1, <1>3 DEF TypeOK
  <2>3. \A v \in Users : v # u => wish'[v] = wish[v]
    BY <1>3 DEF TypeOK
  <2>4. Tells(p, u)' /\ \A v \in Users : v # u => ~Tells(p, v)' /\ ~Tells(p, v)
    BY <1>1, <1>9 DEF Tells, Telling
  <2>5. \A q \in Procs, v \in Users : q # p => (Tells(q, v)' <=> Tells(q, v))
    BY <1>3 DEF Tells
  <2>6. \A q \in Procs : (req'[q].op = "like" <=> req[q].op = "like") \/ (q # p /\ ~Tells(q, u))
    BY <1>3, <1>9, <1>5
  <2>7. \A q \in Procs : q # p => req'[q] = req[q]
    BY <1>3
  <2>8. ASSUME NEW v \in Users, v # u
        PROVE  /\ \A q \in Procs : Tells(q, v)' =>
                     /\ req'[q].op = "like" <=> wish'[v]
                     /\ ToldIn(queue, stored, v)' <=> ~wish'[v]
               /\ (\A q \in Procs : ~Tells(q, v)') => (ToldIn(queue, stored, v)' <=> wish'[v])
    BY <2>8, <2>3, <2>4, <2>5, <2>7, <1>4 DEF TellInv
  <2>9. /\ \A q \in Procs : Tells(q, u)' =>
                     /\ req'[q].op = "like" <=> wish'[u]
                     /\ ToldIn(queue, stored, u)' <=> ~wish'[u]
        /\ ~(\A q \in Procs : ~Tells(q, u)')
    <3>1. \A q \in Procs : Tells(q, u)' => q = p
      BY <1>1, <1>5, <2>5
    <3>2. req'[p].op = "like" <=> wish'[u]
      BY <1>1, <1>9, <2>2
    <3>3. ToldIn(queue, stored, u)' <=> ~wish'[u]
      BY <1>1, <1>4, <1>7, <2>1
    <3> QED
      BY <3>1, <3>2, <3>3, <2>4
  <2> QED
    BY <2>8, <2>9 DEF TellInv
<1> QED
  BY <1>3, <1>8, <1>9

\* A change that is published is told by the queue.
LEMMA TellPublish ==
  ASSUME TypeOK, OpInv, SerialInv, TellInv, Over(LossFaults), NEW p \in Procs,
         PublishEvent(p), NEW u, u = req[p].user
  PROVE  TellInv'
<1>1. /\ pc[p] = "publish" /\ pc' = [pc EXCEPT ![p] = "idle"]
      /\ UNCHANGED <<stored, wish>>
      /\ \A q \in Procs : q # p => req'[q] = req[q]
  BY DEF PublishEvent, Reply, TypeOK
<1>2. u \in Users /\ Writing(p, u) /\ Tells(p, u)
  BY <1>1 DEF OpInv, Idle, Actors, Writing, Tells, Telling
<1>3. PICK e \in Event : /\ e.user = u
                         /\ e.act = "ADD" <=> req[p].op = "like"
                         /\ queue' = Append(queue, e)
  <2>1. ~Spend("publish")
    BY QuietEnvironment
  <2> QED
    BY <2>1, PublishedAct DEF PublishEvent
<1>4. queue \in Seq(Event)
  BY DEF TypeOK
<1>5. \A v \in Users : ToldIn(queue, stored, v)' <=>
                         IF v = u THEN e.act = "ADD" ELSE ToldIn(queue, stored, v)
  BY <1>1, <1>3, <1>4, ToldAppend
<1>6. e.act = "ADD" <=> wish[u]
  BY <1>2, <1>3 DEF TellInv
<1>7. \A q \in Procs : q # p => ~Tells(q, u)
  <2>1. ASSUME NEW q \in Procs, Tells(q, u)
        PROVE  Writing(q, u)
    BY <2>1 DEF Tells, Writing, Idle, OpInv, Telling
  <2> QED
    BY <1>2, <2>1 DEF SerialInv
<1>8. /\ \A v \in Users : ~Tells(p, v)'
      /\ \A v \in Users : v # u => ~Tells(p, v)
      /\ \A q \in Procs, v \in Users : q # p => (Tells(q, v)' <=> Tells(q, v))
  BY <1>1 DEF Tells, Telling, TypeOK
<1>9. ASSUME NEW v \in Users
      PROVE  /\ \A q \in Procs : Tells(q, v)' =>
                     /\ req'[q].op = "like" <=> wish'[v]
                     /\ ToldIn(queue, stored, v)' <=> ~wish'[v]
             /\ (\A q \in Procs : ~Tells(q, v)') => (ToldIn(queue, stored, v)' <=> wish'[v])
  <2>1. CASE v = u
    BY <1>1, <1>5, <1>6, <1>7, <1>8, <2>1
  <2>2. CASE v # u
    BY <1>1, <1>5, <1>8, <2>2 DEF TellInv
  <2> QED
    BY <2>1, <2>2
<1> QED
  BY <1>9 DEF TellInv

LEMMA TellStep ==
  ASSUME TypeOK, OldestExists, PatientWaiters, Over(LossFaults), LockInv, OpInv, SerialInv,
         WarmInv, AppliedInv, TellInv, [Next]_vars
  PROVE  TellInv'
<1> USE DEF redisVars, handlerVars, listenerVars
<1>1. ASSUME NEW p \in Procs, Handle(p)
      PROVE  TellInv'
  <2>1. CASE EnsureExists(p) \/ TryLock(p) \/ WaitHit(p) \/ DoubleCheck(p) \/ FindLikes(p)
             \/ FillCache(p) \/ FillBloom(p) \/ ReleaseLock(p) \/ BatchPostStats(p)
    <3>1. UNCHANGED <<wish, queue, stored>> /\ pc[p] \notin Telling /\ pc'[p] \notin Telling
      BY <2>1 DEF EnsureExists, TryLock, WaitHit, DoubleCheck,
         FindLikes, FillCache, FillBloom, ReleaseLock, BatchPostStats, CheckBloomKey,
         CheckBloomMember, CountMembers, DiscountDummy, AnswerRead, GoTo, Reply, Resume,
         Warmed, Telling, TypeOK
    <3>2. \A q \in Procs : q # p => pc'[q] = pc[q] /\ req'[q] = req[q]
      BY <1>1, HandleFrame
    <3> QED
      BY <3>1, <3>2, TellFrame
  <2>2. CASE RemoveDummyUser(p) \/ LikeBloom(p) \/ EmptyCheck(p) \/ AddDummyUser(p)
    <3>1. /\ UNCHANGED <<wish, queue, stored, req>>
          /\ pc[p] \in Telling /\ pc'[p] \in Telling
      BY <2>2 DEF RemoveDummyUser, LikeBloom, EmptyCheck, AddDummyUser, GoTo, Telling, TypeOK
    <3>2. \A q \in Procs : q # p => pc'[q] = pc[q]
      BY <1>1, HandleFrame
    <3> QED
      BY <3>1, <3>2, TellFrame
  <2> QED
    BY <1>1, <2>1, <2>2, HandleMoves, TellChange, TellPublish
<1>2. CASE HandleInteraction \/ Redeliver
  <2>1. UNCHANGED <<pc, req, wish>>
    BY <1>2, ListenerMoves
  <2>2. \A u \in Users : ToldIn(queue, stored, u)' <=> ToldIn(queue, stored, u)
    BY <1>2, ListenerTells
  <2>3. \A p \in Procs, u \in Users : Tells(p, u)' <=> Tells(p, u)
    BY <2>1 DEF Tells
  <2> QED
    BY <2>1, <2>2, <2>3 DEF TellInv
<1>3. ASSUME NEW p \in Procs, NEW op \in Ops, NEW u \in Actors, Begin(p, op, u)
      PROVE  TellInv'
  <2>1. /\ UNCHANGED <<wish, queue, stored>>
        /\ pc[p] \notin Telling /\ pc'[p] \notin Telling
        /\ \A q \in Procs : q # p => pc'[q] = pc[q] /\ req'[q] = req[q]
    BY <1>3 DEF Begin, Idle, Telling, TypeOK
  <2> QED
    BY <2>1, TellFrame
<1>4. KeyExpires \/ RedisRestarts \/ OtherTargetLiked \/ UNCHANGED vars
        => UNCHANGED <<pc, req, wish, queue, stored>>
  BY DEF KeyExpires, RedisRestarts, OtherTargetLiked, vars
<1>5. UNCHANGED <<pc, req, wish, queue, stored>> => TellInv'
  BY TellFrame
<1> QED
  BY <1>1, <1>2, <1>3, <1>4, <1>5, QuietEnvironment DEF Next
-----------------------------------------------------------------------------
\* The set is there: the steps of a handler keep what it holds.
LEMMA WarmHandle ==
  ASSUME TypeOK, PatientWaiters, LockInv, OpInv, WarmInv, TellInv,
         Residents # {}, NEW p \in Procs, Handle(p)
  PROVE  WarmInv'
<1> USE UsersAssumption DEF WarmInv, Warmth, Telling, redisVars, handlerVars, listenerVars,
        GoTo, Reply
<1>0. /\ Wished \subseteq Users /\ Dummy \notin Wished /\ Wished # {}
      /\ cache # {} => Likers = Wished
  BY DEF Wished, WarmSetIsExact
<1>1. ASSUME UNCHANGED <<cache, wish, queue, stored, lock>>
      PROVE  UNCHANGED <<Wished, Likers>>
  BY <1>1 DEF Wished, Likers
<1>2. /\ Resume(p) \in {"sadd", "srem", "scard"}
      /\ Warmed(p) \in {"sadd", "srem", "scard", "release"}
  BY DEF Resume, Warmed
<1>3. CASE EnsureExists(p)
  BY <1>1, <1>2, <1>3 DEF EnsureExists, WarmSetIsExact, TypeOK
<1>4. CASE TryLock(p)
  <2>1. UNCHANGED <<Wished, Likers>>
    BY <1>4 DEF TryLock, Wished, Likers
  <2> QED
    BY ZenonT(60), <1>4, <2>1 DEF TryLock, WarmSetIsExact, TypeOK
<1>5. CASE WaitHit(p)
  BY <1>1, <1>2, <1>5 DEF WaitHit, WarmSetIsExact, TypeOK
<1>6. CASE DoubleCheck(p)
  BY <1>1, <1>2, <1>6 DEF DoubleCheck, WarmSetIsExact, TypeOK
<1>7. CASE FindLikes(p)
  BY <1>1, <1>7 DEF FindLikes, WarmSetIsExact, TypeOK
<1>8. CASE FillCache(p)
  <2>1. cache = {} /\ snap[p] = stored /\ queue = <<>> /\ \A q \in Procs : pc[q] \notin Telling
    BY <1>8 DEF FillCache
  <2>2. stored = Wished
    BY <2>1, QuietStore
  <2>3. cache' = Wished /\ UNCHANGED <<wish, queue, stored, lock>>
    BY <1>0, <1>8, <2>1, <2>2 DEF FillCache
  <2>4. Wished' = Wished /\ Likers' = Wished
    BY <1>0, <2>3 DEF Wished, Likers
  <2>5. \A q \in Procs : q # p => pc[q] \notin {"find", "fill"}
    BY <1>8 DEF FillCache, LockInv, Warming, TypeOK
  <2>6. pc' = [pc EXCEPT ![p] = pc'[p]] /\ pc'[p] \notin {"wait", "find", "fill"}
    BY <1>2, <1>8 DEF FillCache, TypeOK
  <2> QED
    BY <1>0, <2>3, <2>4, <2>5, <2>6 DEF WarmSetIsExact, TypeOK
<1>9. CASE FillBloom(p)
  BY <1>1, <1>2, <1>9 DEF FillBloom, WarmSetIsExact, TypeOK
<1>10. CASE ReleaseLock(p)
  <2>1. UNCHANGED <<Wished, Likers>>
    BY <1>10 DEF ReleaseLock, Wished, Likers
  <2> QED
    BY <1>2, <1>10, <2>1 DEF ReleaseLock, WarmSetIsExact, TypeOK
<1>11. CASE BatchPostStats(p)
  <2>1. UNCHANGED <<cache, wish, queue, stored, lock, snap>>
        /\ pc' = [pc EXCEPT ![p] = pc'[p]]
        /\ pc'[p] \in {"exists", "bloommember", "scard", "hasdummy", "ismember", "idle"}
    BY <1>11 DEF BatchPostStats, CheckBloomKey, CheckBloomMember, CountMembers,
                 DiscountDummy, AnswerRead, TypeOK
  <2> QED
    BY <1>1, <2>1 DEF WarmSetIsExact, TypeOK
<1>12. CASE LikeSadd(p) \/ UnlikeSrem(p)
  <2>1. cache # {} /\ UNCHANGED <<queue, stored, lock, snap>> /\ req[p].user \in Actors
    BY <1>12 DEF LikeSadd, UnlikeSrem, OpInv, Idle
  <2>2. Likers' = Wished' /\ Residents \subseteq Wished'
    <3>1. CASE LikeSadd(p)
      BY <1>0, <2>1, <3>1 DEF LikeSadd, Likers, Wished, TypeOK, Actors
    <3>2. CASE UnlikeSrem(p)
      BY <1>0, <2>1, <3>2 DEF UnlikeSrem, Likers, Wished, TypeOK, Actors
    <3> QED
      BY <1>12, <3>1, <3>2
  <2>3. cache' # {}
    BY <2>2 DEF Likers
  <2>4. pc' = [pc EXCEPT ![p] = pc'[p]] /\ pc'[p] \in {"idle", "rmdummy", "scardempty"}
    BY <1>12 DEF LikeSadd, UnlikeSrem, TypeOK
  <2>5. \A q \in Procs : pc[q] \notin {"find", "fill"}
    BY <2>1
  <2> QED
    BY <2>1, <2>2, <2>3, <2>4, <2>5 DEF WarmSetIsExact, TypeOK
<1>13. CASE RemoveDummyUser(p) \/ AddDummyUser(p)
  <2>1. cache # {} /\ UNCHANGED <<queue, stored, lock, snap, wish>>
    BY <1>13 DEF RemoveDummyUser, AddDummyUser
  <2>2. Likers' = Likers /\ Wished' = Wished
    BY <1>13 DEF RemoveDummyUser, AddDummyUser, Likers, Wished
  <2>3. cache' # {}
    BY <1>0, <2>1, <2>2 DEF Likers
  <2>4. pc' = [pc EXCEPT ![p] = pc'[p]] /\ pc'[p] \in {"addbloom", "publish"}
    BY <1>13 DEF RemoveDummyUser, AddDummyUser, TypeOK
  <2> QED
    BY <1>0, <2>1, <2>2, <2>3, <2>4 DEF WarmSetIsExact, TypeOK
<1>14. CASE LikeBloom(p) \/ EmptyCheck(p)
  <2>1. cache # {} /\ UNCHANGED <<cache, queue, stored, lock, snap, wish>>
    BY <1>14 DEF LikeBloom, EmptyCheck
  <2>2. pc' = [pc EXCEPT ![p] = pc'[p]] /\ pc'[p] \in {"adddummy", "publish"}
    BY <1>14 DEF LikeBloom, EmptyCheck, TypeOK
  <2> QED
    BY <1>1, <2>1, <2>2 DEF WarmSetIsExact, TypeOK
<1>15. CASE PublishEvent(p)
  <2>1. cache # {} /\ UNCHANGED <<cache, stored, lock, snap, wish>>
    BY <1>15 DEF PublishEvent
  <2>2. pc' = [pc EXCEPT ![p] = pc'[p]] /\ pc'[p] = "idle"
    BY <1>15 DEF PublishEvent, TypeOK
  <2>3. Likers' = Likers /\ Wished' = Wished
    BY <2>1 DEF Likers, Wished
  <2> QED
    BY <2>1, <2>2, <2>3 DEF WarmSetIsExact, TypeOK
<1> QED
  BY <1>3, <1>4, <1>5, <1>6, <1>7, <1>8, <1>9, <1>10, <1>11, <1>12, <1>13, <1>14, <1>15,
     HandleMoves

LEMMA WarmStep ==
  ASSUME TypeOK, OldestExists, PatientWaiters, QuietExpiry, Residents # {}, Over(LossFaults),
         LockInv, OpInv, WarmInv, AppliedInv, TellInv, [Next]_vars
  PROVE  WarmInv'
<1> USE DEF redisVars, handlerVars, listenerVars
<1>1. CASE HandleInteraction \/ Redeliver
  <2>1. UNCHANGED <<cache, lock, pc, snap, wish>> /\ cache # {}
    BY <1>1, ListenerMoves DEF WarmInv
  <2>2. Likers' = Likers /\ Wished' = Wished
    BY <2>1 DEF Likers, Wished
  <2> QED
    BY <2>1, <2>2 DEF WarmInv, WarmSetIsExact
<1>2. CASE KeyExpires \/ RedisRestarts
  <2>1. /\ cache' = {} /\ UNCHANGED <<pc, wish, queue, stored, snap>> /\ queue = <<>>
        /\ \A p \in Procs : pc[p] = "idle"
    BY <1>2 DEF KeyExpires, RedisRestarts, Settled, Busy, Idle
  <2>2. Wished' = Wished
    BY <2>1 DEF Wished
  <2> QED
    BY <2>1, <2>2 DEF WarmInv, WarmSetIsExact, Warmth, Telling
<1>3. ASSUME NEW p \in Procs, NEW op \in Ops, NEW u \in Actors, Begin(p, op, u)
      PROVE  WarmInv'
  <2>1. /\ UNCHANGED <<cache, lock, wish, queue, stored, snap>>
        /\ pc' = [pc EXCEPT ![p] = pc'[p]] /\ pc'[p] \in {"exists", "bloomkey"}
    BY <1>3 DEF Begin, TypeOK
  <2>2. Likers' = Likers /\ Wished' = Wished
    BY <2>1 DEF Likers, Wished
  <2> QED
    BY <2>1, <2>2 DEF WarmInv, WarmSetIsExact, Warmth, Telling, TypeOK
<1>4. CASE OtherTargetLiked \/ UNCHANGED vars
  <2>1. UNCHANGED <<cache, lock, wish, queue, stored, snap, pc>>
    BY <1>4 DEF OtherTargetLiked, vars
  <2>2. Likers' = Likers /\ Wished' = Wished
    BY <2>1 DEF Likers, Wished
  <2> QED
    BY <2>1, <2>2 DEF WarmInv, WarmSetIsExact
<1> QED
  BY <1>1, <1>2, <1>3, <1>4, WarmHandle, QuietEnvironment DEF Next

WarmthInv == LockInv /\ OpInv /\ SerialInv /\ WarmInv /\ AppliedInv /\ TellInv

LEMMA WarmthInit ==
  ASSUME Init
  PROVE  WarmthInv
<1> USE UsersAssumption DEF Init
<1>1. LockInv /\ OpInv /\ SerialInv
  BY DEF LockInv, Warming, OpInv, SerialInv, Writing, Idle
<1>2. \A p \in Procs, u \in Users : ~Tells(p, u)
  BY DEF Tells, Telling
<1>3. \A u \in Users : ToldIn(queue, stored, u) <=> wish[u]
  BY ToldEmpty
<1>4. WarmInv
  BY DEF WarmInv, Wished, WarmSetIsExact, Warmth, Telling
<1> QED
  BY <1>1, <1>2, <1>3, <1>4 DEF WarmthInv, TellInv, AppliedInv

\* Under these assumptions all parts of the invariant hold together.
LEMMA WarmthHolds ==
  ASSUME SerialUsers, PatientWaiters, QuietExpiry, Residents # {},
         \A f \in LossFaults : Budget[f] = 0
  PROVE  Spec => [](TypeOK /\ OldestExists /\ WarmthInv)
<1>1. Init => Over(LossFaults)
  BY DEF Init, Over
<1>2. TypeOK /\ Over(LossFaults) /\ [Next]_vars => Over(LossFaults)'
  <2>1. LossFaults \in SUBSET FaultNames
    BY DEF LossFaults, FaultNames
  <2> QED
    BY <2>1, OverStep
<1>3. TypeOK /\ OldestExists /\ Over(LossFaults) /\ WarmthInv /\ [Next]_vars => WarmthInv'
  BY LockStep, OpStep, SerialStep, WarmStep, AppliedStep, TellStep DEF WarmthInv
<1>4. Init => WarmthInv
  BY WarmthInit
<1> QED
  BY <1>1, <1>2, <1>3, <1>4, TypeCorrect, PTL DEF Spec

\* When a user's writes do not overlap, waiters outlast warm-ups, keys expire in quiet
\* moments, somebody has a record for good and no lock, command, event or handler is
\* lost, a set in Redis holds exactly the users whose last executed request was a like:
\* warming loses no like and revives none, even if Redis restarts, the filter fails or
\* an event is delivered again.
THEOREM WarmSetsExact ==
  ASSUME SerialUsers, PatientWaiters, QuietExpiry, Residents # {},
         \A f \in LossFaults : Budget[f] = 0
  PROVE  Spec => []WarmSetIsExact
<1>1. WarmthInv => WarmSetIsExact
  BY DEF WarmthInv, WarmInv
<1> QED
  BY <1>1, WarmthHolds, PTL
-----------------------------------------------------------------------------
(* Counts.  A removal counts down whether or not it found a record, so the    *)
(* counts are exact because the events of one user take turns: each says the  *)
(* opposite of the one before it, the first one the opposite of the record.   *)

Alternate(q) ==
  \A i, j \in 1..Len(q) :
     /\ i < j /\ q[i].user = q[j].user
     /\ \A k \in 1..Len(q) : i < k /\ k < j => q[k].user # q[j].user
     => q[i].act # q[j].act

\* From the n-th event on: a user's first event is news to the records s.
FirstFits(q, s, n) ==
  \A j \in 1..Len(q) :
     j >= n /\ (\A i \in 1..Len(q) : i < j => q[i].user # q[j].user)
     => (q[j].act = "ADD" <=> q[j].user \notin s)

TurnsInv ==
  /\ applying # "again"
  /\ Alternate(queue)
  /\ FirstFits(queue, stored, IF applying = "record" THEN 1 ELSE 2)

CountsInv ==
  /\ likeCount + (IF applying = "count" THEN Delta ELSE 0) = Cardinality(stored)
  /\ Kind = "like" =>
       esCount + (IF applying \in {"count", "es"} THEN Delta ELSE 0) = Cardinality(stored)

LEMMA EventParts ==
  ASSUME NEW q \in Seq(Event)
  PROVE  \A i \in 1..Len(q) : q[i].user \in Users /\ q[i].act \in {"ADD", "REMOVE"}
<1>1. \A i \in 1..Len(q) : q[i] \in Event
  OBVIOUS
<1> QED
  BY <1>1 DEF Event

\* An event that says the opposite of what is told of its user.
LEMMA TurnsAppend ==
  ASSUME NEW q \in Seq(Event), NEW e \in Event, NEW s, NEW n \in {1, 2},
         Alternate(q), FirstFits(q, s, n), n = 2 => q # <<>>,
         ToldIn(q, s, e.user) <=> e.act # "ADD"
  PROVE  Alternate(Append(q, e)) /\ FirstFits(Append(q, e), s, n)
<1> DEFINE r == Append(q, e)
           m == Len(q) + 1
<1>1. /\ Len(r) = m /\ Len(q) \in Nat /\ m \in Nat
      /\ r[m] = e
      /\ \A i \in 1..Len(q) : r[i] = q[i] /\ i \in 1..Len(r) /\ i < m /\ i \in Nat
  OBVIOUS
<1>2. \A i \in 1..Len(r) : i \in Nat /\ (i \in 1..Len(q) \/ i = m)
  BY <1>1
<1>3. \A i \in 1..Len(q) : q[i].act \in {"ADD", "REMOVE"}
  BY EventParts
<1>4. e.act \in {"ADD", "REMOVE"}
  BY DEF Event
<1> HIDE DEF r, m
<1>5. ASSUME NEW i \in 1..Len(r), NEW j \in 1..Len(r),
             i < j, r[i].user = r[j].user,
             \A k \in 1..Len(r) : i < k /\ k < j => r[k].user # r[j].user
      PROVE  r[i].act # r[j].act
  <2>1. i \in 1..Len(q)
    BY <1>1, <1>2, <1>5
  <2>2. CASE j = m
    <3>1. \A k \in 1..Len(q) : k > i => q[k].user # e.user
      BY <1>1, <1>2, <1>5, <2>2
    <3>2. q[i].user = e.user
      BY <1>1, <1>5, <2>1, <2>2
    <3>3. ToldIn(q, s, e.user) <=> q[i].act = "ADD"
      <4>1. ASSUME NEW k \in 1..Len(q), q[k].user = e.user,
                   \A l \in 1..Len(q) : l > k => q[l].user # e.user
            PROVE  k = i
        BY <1>1, <2>1, <3>1, <3>2, <4>1
      <4> QED
        BY <2>1, <3>1, <3>2, <4>1 DEF ToldIn
    <3> QED
      BY <1>1, <1>3, <1>4, <2>1, <2>2, <3>3
  <2>3. CASE j \in 1..Len(q)
    <3>1. \A k \in 1..Len(q) : i < k /\ k < j => q[k].user # q[j].user
      BY <1>1, <1>5, <2>3
    <3> QED
      BY <1>1, <1>5, <2>1, <2>3, <3>1 DEF Alternate
  <2> QED
    BY <1>2, <2>2, <2>3
<1>6. ASSUME NEW j \in 1..Len(r), j >= n,
             \A i \in 1..Len(r) : i < j => r[i].user # r[j].user
      PROVE  r[j].act = "ADD" <=> r[j].user \notin s
  <2>1. CASE j = m
    <3>1. \A i \in 1..Len(q) : q[i].user # e.user
      BY <1>1, <1>6, <2>1
    <3>2. ToldIn(q, s, e.user) <=> e.user \in s
      BY <3>1 DEF ToldIn
    <3> QED
      BY <1>1, <2>1, <3>2
  <2>2. CASE j \in 1..Len(q)
    <3>1. \A i \in 1..Len(q) : i < j => q[i].user # q[j].user
      BY <1>1, <1>6, <2>2
    <3> QED
      BY <1>1, <1>6, <2>2, <3>1 DEF FirstFits
  <2> QED
    BY <1>2, <2>1, <2>2
<1> QED
  BY <1>5, <1>6 DEF Alternate, FirstFits, r

\* The oldest event goes when the record says what it says.
LEMMA TurnsTail ==
  ASSUME NEW q \in Seq(Event), q # <<>>, NEW s,
         Alternate(q), FirstFits(q, s, 2),
         Head(q).act = "ADD" <=> Head(q).user \in s
  PROVE  Alternate(Tail(q)) /\ FirstFits(Tail(q), s, 1)
<1> DEFINE t == Tail(q)
<1>1. /\ Len(q) \in Nat /\ 1 \in 1..Len(q) /\ Len(t) = Len(q) - 1 /\ Head(q) = q[1]
      /\ \A i \in 1..Len(t) : i \in Nat /\ t[i] = q[i + 1] /\ i + 1 \in 1..Len(q) /\ i + 1 >= 2
  OBVIOUS
<1>2. \A i \in 1..Len(q) : i = 1 \/ (i - 1 \in 1..Len(t) /\ t[i - 1] = q[i] /\ i > 1 /\ i \in Nat)
  BY <1>1
<1>3. \A i \in 1..Len(q) : q[i].act \in {"ADD", "REMOVE"}
  BY EventParts
<1> HIDE DEF t
<1>4. ASSUME NEW i \in 1..Len(t), NEW j \in 1..Len(t),
             i < j, t[i].user = t[j].user,
             \A k \in 1..Len(t) : i < k /\ k < j => t[k].user # t[j].user
      PROVE  t[i].act # t[j].act
  <2>1. \A k \in 1..Len(q) : i + 1 < k /\ k < j + 1 => q[k].user # q[j + 1].user
    <3>1. ASSUME NEW k \in 1..Len(q), i + 1 < k, k < j + 1
          PROVE  k - 1 \in 1..Len(t) /\ t[k - 1] = q[k] /\ i < k - 1 /\ k - 1 < j
      BY <1>1, <1>2, <3>1
    <3> QED
      BY <1>1, <1>4, <3>1
  <2>2. i + 1 < j + 1
    BY <1>1, <1>4
  <2> QED
    BY SMTT(30), <1>1, <1>4, <2>1, <2>2 DEF Alternate
<1>5. ASSUME NEW j \in 1..Len(t),
             \A i \in 1..Len(t) : i < j => t[i].user # t[j].user
      PROVE  t[j].act = "ADD" <=> t[j].user \notin s
  <2>1. \A k \in 1..Len(q) : 1 < k /\ k < j + 1 => q[k].user # q[j + 1].user
    <3>1. ASSUME NEW k \in 1..Len(q), 1 < k, k < j + 1
          PROVE  k - 1 \in 1..Len(t) /\ t[k - 1] = q[k] /\ k - 1 < j
      BY <1>1, <1>2, <3>1
    <3> QED
      BY <1>1, <1>5, <3>1
  <2>2. CASE q[1].user = q[j + 1].user
    <3>1. q[1].act # q[j + 1].act
      BY <1>1, <2>1, <2>2 DEF Alternate
    <3> QED
      BY <1>1, <1>3, <2>2, <3>1
  <2>3. CASE q[1].user # q[j + 1].user
    <3>1. \A i \in 1..Len(q) : i < j + 1 => q[i].user # q[j + 1].user
      BY <1>2, <2>1, <2>3
    <3> QED
      BY <1>1, <3>1 DEF FirstFits
  <2> QED
    BY <2>2, <2>3
<1> QED
  BY ZenonT(60), <1>1, <1>4, <1>5 DEF Alternate, FirstFits, t

\* The record of the oldest event's user changes.
LEMMA TurnsStore ==
  ASSUME NEW q \in Seq(Event), q # <<>>, NEW s, NEW t,
         FirstFits(q, s, 1),
         \A u \in Users : u # Head(q).user => (u \in t <=> u \in s)
  PROVE  FirstFits(q, t, 2)
<1>1. 1 \in 1..Len(q) /\ Head(q) = q[1] /\ Len(q) \in Nat
  OBVIOUS
<1>2. \A j \in 1..Len(q) : q[j].user \in Users
  BY EventParts
<1> QED
  BY <1>1, <1>2 DEF FirstFits

\* The oldest event is news.
LEMMA TurnsHead ==
  ASSUME NEW q \in Seq(Event), q # <<>>, NEW s, FirstFits(q, s, 1)
  PROVE  Head(q).act = "ADD" <=> Head(q).user \notin s
<1>1. 1 \in 1..Len(q) /\ Head(q) = q[1] /\ \A i \in 1..Len(q) : ~(i < 1)
  OBVIOUS
<1> QED
  BY <1>1 DEF FirstFits

CountFaults == LossFaults \cup {"redeliver"}

LEMMA TurnsStep ==
  ASSUME TypeOK, OldestExists, Over(CountFaults), OpInv, AppliedInv, TellInv, TurnsInv,
         [Next]_vars
  PROVE  TurnsInv'
<1>1. Over(LossFaults) /\ ~Redeliver
  BY DEF Over, CountFaults, Redeliver, Spend
<1>2. CASE HandleInteraction
  <2>1. queue \in Seq(Event) /\ queue # <<>> /\ Oldest = Head(queue)
    BY <1>2, ListenerMoves DEF TypeOK, Oldest
  <2>2. applying' # "again"
    BY <1>2, HandleInteractionCases
       DEF SkipDuplicate, SaveRecord, DeleteRecord, UpdatePostCount,
         UpdateCommentCount, UpdateESPostCount, Acknowledge
  <2>3. CASE SkipDuplicate
    BY <2>1, <2>3, TurnsHead DEF SkipDuplicate, TurnsInv
  <2>4. CASE SaveRecord \/ DeleteRecord
    <3>1. /\ applying = "record" /\ applying' = "count" /\ queue' = queue
          /\ \A u \in Users : u # Head(queue).user => (u \in stored' <=> u \in stored)
      BY <2>1, <2>4 DEF SaveRecord, DeleteRecord, TurnsInv
    <3> QED
      BY <2>1, <3>1, TurnsStore DEF TurnsInv
  <2>5. CASE UpdatePostCount \/ UpdateCommentCount \/ UpdateESPostCount
    <3>1. applying # "record" /\ stored' = stored
      BY <2>5 DEF UpdatePostCount, UpdateCommentCount, UpdateESPostCount
    <3>2. \/ queue' = queue /\ applying' # "record"
          \/ queue' = Tail(queue) /\ applying' = "record"
      BY <2>5 DEF UpdatePostCount, UpdateCommentCount, UpdateESPostCount, Acknowledge
    <3>3. CASE queue' = queue /\ applying' # "record"
      BY <2>2, <3>1, <3>3 DEF TurnsInv
    <3>4. CASE queue' = Tail(queue) /\ applying' = "record"
      BY <2>1, <3>1, <3>4, TurnsTail DEF TurnsInv, AppliedInv
    <3> QED
      BY <3>2, <3>3, <3>4
  <2> QED
    BY <1>2, <2>3, <2>4, <2>5, HandleInteractionCases
<1>3. CASE ~HandleInteraction
  <2>1. UNCHANGED <<applying, stored>>
    BY <1>1, <1>3, BystanderMoves
  <2>2. CASE UNCHANGED queue
    BY <2>1, <2>2 DEF TurnsInv
  <2>3. ASSUME NEW p \in Procs, PublishEvent(p),
               NEW e \in Event, e.user = req[p].user, e.act = "ADD" <=> req[p].op = "like",
               queue' = Append(queue, e)
        PROVE  TurnsInv'
    <3>1. e.user \in Users /\ Tells(p, e.user)
      BY <2>3 DEF Event, Tells, Telling, PublishEvent
    <3>2. ToldIn(queue, stored, e.user) <=> e.act # "ADD"
      BY <2>3, <3>1 DEF TellInv
    <3>3. queue \in Seq(Event) /\ (applying # "record" => queue # <<>>)
      BY DEF TypeOK, OldestExists
    <3>4. CASE applying = "record"
      BY <2>1, <2>3, <3>2, <3>3, <3>4, TurnsAppend DEF TurnsInv
    <3>5. CASE applying # "record"
      BY <2>1, <2>3, <3>2, <3>3, <3>5, TurnsAppend DEF TurnsInv
    <3> QED
      BY <3>4, <3>5
  <2> QED
    BY <1>1, <1>3, <2>2, <2>3, BystanderMoves
<1> QED
  BY <1>2, <1>3

\* The listener's steps and the counts.
LEMMA CountsListener ==
  ASSUME TypeOK, OldestExists, TurnsInv, CountsInv, HandleInteraction
  PROVE  CountsInv'
<1>1. /\ queue \in Seq(Event) /\ queue # <<>> /\ Oldest = Head(queue)
      /\ Oldest.user \in Users
  <2>1. queue \in Seq(Event) /\ queue # <<>>
    BY HandleInteractionCases
       DEF SkipDuplicate, SaveRecord, DeleteRecord, UpdatePostCount,
           UpdateCommentCount, UpdateESPostCount, OldestExists, TypeOK
  <2>2. Head(queue) = queue[1] /\ 1 \in 1..Len(queue)
    BY <2>1
  <2> QED
    BY <2>1, <2>2, EventParts DEF Oldest
<1>2. /\ likeCount \in Int /\ esCount \in Int /\ Delta \in Int
      /\ Cardinality(stored) \in Int
  BY StoredFinite DEF TypeOK, Delta
<1>3. queue' = queue => Delta' = Delta
  BY DEF Delta, Oldest
<1>4. CASE SkipDuplicate
  BY <1>1, <1>4, TurnsHead DEF SkipDuplicate, TurnsInv
<1>5. CASE SaveRecord
  <2>1. Cardinality(stored') = Cardinality(stored) + 1
    BY <1>1, <1>5, StoredPlus DEF SaveRecord
  <2>2. applying = "record" /\ Delta = 1
    BY <1>5 DEF SaveRecord, TurnsInv, Delta
  <2> QED
    BY <1>2, <1>3, <1>5, <2>1, <2>2 DEF SaveRecord, CountsInv
<1>6. CASE DeleteRecord
  <2>1. applying = "record" /\ Delta = -1 /\ Oldest.user \in stored
    BY <1>1, <1>6, TurnsHead DEF DeleteRecord, TurnsInv, Delta
  <2>2. Cardinality(stored') = Cardinality(stored) - 1
    BY <1>6, <2>1, StoredFinite, FS_RemoveElement DEF DeleteRecord
  <2> QED
    BY <1>2, <1>3, <1>6, <2>1, <2>2 DEF DeleteRecord, CountsInv
<1>7. CASE UpdatePostCount
  <2>1. CASE Kind = "like"
    BY <1>2, <1>3, <1>7, <2>1 DEF UpdatePostCount, CountsInv
  <2>2. CASE Kind # "like"
    BY <1>2, <1>7, <2>2 DEF UpdatePostCount, CountsInv, Acknowledge
  <2> QED
    BY <2>1, <2>2
<1>8. CASE UpdateCommentCount /\ Kind # "like"
  BY <1>2, <1>8 DEF UpdateCommentCount, CountsInv, Acknowledge
<1>9. CASE UpdateESPostCount /\ Kind = "like"
  BY <1>2, <1>9 DEF UpdateESPostCount, CountsInv, Acknowledge
<1> QED
  BY <1>4, <1>5, <1>6, <1>7, <1>8, <1>9, HandleInteractionCases

LEMMA CountsStep ==
  ASSUME TypeOK, OldestExists, Over(CountFaults), AppliedInv, TurnsInv, CountsInv,
         [Next]_vars
  PROVE  CountsInv'
<1>1. Over(LossFaults) /\ ~Redeliver
  BY DEF Over, CountFaults, Redeliver, Spend
<1>2. CASE ~HandleInteraction
  <2>1. UNCHANGED <<applying, stored, likeCount, esCount>>
    BY <1>1, <1>2, BystanderMoves
  <2>2. applying # "record" => Head(queue') = Head(queue)
    <3>1. ASSUME NEW e \in Event, queue' = Append(queue, e), queue # <<>>
          PROVE  Head(queue') = Head(queue)
      BY <3>1, AppendKeepsOldest DEF TypeOK
    <3> QED
      BY <1>1, <1>2, <3>1, BystanderMoves DEF OldestExists
  <2>3. applying # "record" => Delta' = Delta
    BY <2>2 DEF Delta, Oldest
  <2> QED
    BY <2>1, <2>3 DEF CountsInv
<1> QED
  BY <1>2, CountsListener

\* Under what warmed sets need, and as long as no delivery is repeated, everything
\* agrees when nothing is in flight: the records are the wishes, both counts are their
\* number, and the Redis set, if there is one, holds their users.
THEOREM SettledAgrees ==
  ASSUME SerialUsers, PatientWaiters, QuietExpiry, Residents # {},
         \A f \in CountFaults : Budget[f] = 0
  PROVE  Spec => []SettledAgreement
<1>1. Init => Over(CountFaults)
  BY DEF Init, Over
<1>2. TypeOK /\ Over(CountFaults) /\ [Next]_vars => Over(CountFaults)'
  <2>1. CountFaults \in SUBSET FaultNames
    BY DEF CountFaults, LossFaults, FaultNames
  <2> QED
    BY <2>1, OverStep
<1>3. Spec => [](TypeOK /\ OldestExists /\ WarmthInv)
  BY WarmthHolds DEF CountFaults
<1>4. Init => TurnsInv /\ CountsInv
  <2>1. Cardinality(Residents) \in Int
    BY UsersAssumption, FS_Subset, FS_CardinalityType
  <2>2. Len(<<>>) = 0 /\ 1..0 = {}
    OBVIOUS
  <2>3. Init => TurnsInv
    BY <2>2 DEF Init, TurnsInv, Alternate, FirstFits
  <2>4. Init => CountsInv
    BY <2>1 DEF Init, CountsInv
  <2> QED
    BY <2>3, <2>4
<1>5. TypeOK /\ OldestExists /\ WarmthInv /\ Over(CountFaults) /\ TurnsInv /\ CountsInv
        /\ [Next]_vars => (TurnsInv /\ CountsInv)'
  BY TurnsStep, CountsStep DEF WarmthInv
<1>6. TypeOK /\ OldestExists /\ WarmthInv /\ CountsInv => SettledAgreement
  <2> SUFFICES ASSUME TypeOK, OldestExists, WarmthInv, CountsInv, Settled
               PROVE  /\ stored = Wished
                      /\ likeCount = Cardinality(stored)
                      /\ Kind = "like" => esCount = Cardinality(stored)
                      /\ RedisMatchesStore
    BY DEF SettledAgreement
  <2>1. queue = <<>> /\ applying = "record" /\ \A p \in Procs : pc[p] \notin Telling
    BY DEF Settled, Busy, Idle, OldestExists, Telling
  <2>2. stored = Wished
    BY <2>1, QuietStore DEF WarmthInv
  <2>3. likeCount = Cardinality(stored) /\ (Kind = "like" => esCount = Cardinality(stored))
    BY <2>1 DEF CountsInv, TypeOK
  <2> QED
    BY <2>2, <2>3 DEF RedisMatchesStore, WarmthInv, WarmInv, WarmSetIsExact
<1> QED
  BY <1>1, <1>2, <1>3, <1>4, <1>5, <1>6, PTL DEF Spec
-----------------------------------------------------------------------------
(* Reads.  A read goes without warming only when the filter does not know the *)
(* target, and then nobody but its first likers has liked it.                 *)

Reading == {"scard", "hasdummy", "ismember"}

KnownInv ==
  /\ bloom # "with" => \A u \in Wished \ Residents :
                          \E p \in Procs : /\ pc[p] \in {"rmdummy", "addbloom"}
                                           /\ req[p].user = u
  /\ cache = {} /\ (\E p \in Procs : pc[p] \in Reading) => Wished \subseteq Residents

ReadFaults == LossFaults \cup FilterFaults

LEMMA KnownHandle ==
  ASSUME TypeOK, PatientWaiters, Over(ReadFaults), LockInv, OpInv, WarmInv, KnownInv,
         NEW p \in Procs, Handle(p)
  PROVE  KnownInv'
<1> USE DEF redisVars, handlerVars, listenerVars, GoTo, Reply
<1>0. Over(FilterFaults) /\ Over(LossFaults)
  BY DEF Over, ReadFaults
<1>1. \A q \in Procs : q # p => pc'[q] = pc[q] /\ req'[q] = req[q]
  BY HandleFrame
<1>2. /\ \A q \in Procs : cache = {} => pc[q] \notin {"rmdummy", "addbloom"}
      /\ pc[p] \in Warmth => cache # {}
  BY DEF WarmInv, Warmth, Telling
<1>3. ASSUME UNCHANGED <<cache, bloom, wish>>, pc[p] \notin {"rmdummy", "addbloom"},
             pc'[p] \in Reading => cache # {} \/ pc[p] \in Reading \/ bloom # "with"
      PROVE  KnownInv'
  <2>1. Wished' = Wished
    BY <1>3 DEF Wished
  <2>2. bloom # "with" /\ cache = {} => Wished \subseteq Residents
    BY <1>2 DEF KnownInv
  <2>3. bloom # "with" => \A u \in Wished \ Residents :
                          \E q \in Procs : /\ pc'[q] \in {"rmdummy", "addbloom"}
                                           /\ req'[q].user = u
    BY <1>1, <1>3 DEF KnownInv
  <2> QED
    BY <1>1, <1>3, <2>1, <2>2, <2>3 DEF KnownInv
<1>4. CASE EnsureExists(p) \/ WaitHit(p) \/ DoubleCheck(p)
  <2>1. UNCHANGED <<cache, bloom, wish>> /\ pc[p] \notin {"rmdummy", "addbloom"}
    BY <1>4 DEF EnsureExists, WaitHit, DoubleCheck
  <2>2. cache # {} \/ pc'[p] \notin Reading
    BY <1>4 DEF EnsureExists, WaitHit, DoubleCheck, Reading, TypeOK
  <2> QED
    BY <1>3, <2>1, <2>2
<1>5. CASE TryLock(p) \/ FindLikes(p)
  <2>1. UNCHANGED <<cache, bloom, wish>> /\ pc[p] \notin {"rmdummy", "addbloom"}
    BY <1>5 DEF TryLock, FindLikes
  <2>2. pc'[p] \notin Reading
    BY <1>5 DEF TryLock, FindLikes, Reading, TypeOK
  <2> QED
    BY <1>3, <2>1, <2>2
<1>6. CASE FillCache(p)
  <2>1. cache' # {} /\ UNCHANGED <<bloom, wish, req>> /\ pc[p] = "fill"
    BY <1>6 DEF FillCache
  <2>2. Wished' = Wished
    BY <2>1 DEF Wished
  <2> QED
    BY <1>1, <2>1, <2>2 DEF KnownInv
<1>7. CASE FillBloom(p) \/ LikeBloom(p)
  <2>1. bloom' = "with" /\ cache' = cache /\ pc[p] \in Warmth
    BY <1>0, <1>7, AddBloomKnown DEF FillBloom, LikeBloom, Warmth, Telling
  <2> QED
    BY <1>2, <2>1 DEF KnownInv
<1>8. CASE ReleaseLock(p) \/ EmptyCheck(p) \/ PublishEvent(p)
  <2>1. UNCHANGED <<cache, bloom, wish>> /\ pc[p] \in {"release", "scardempty", "publish"}
    BY <1>8 DEF ReleaseLock, EmptyCheck, PublishEvent
  <2> QED
    BY <1>2, <1>3, <2>1 DEF Warmth, Telling
<1>9. CASE CheckBloomKey(p)
  <2>1. UNCHANGED <<cache, bloom, wish>> /\ pc[p] = "bloomkey" /\ pc'[p] \notin Reading
    BY <1>9 DEF CheckBloomKey, Reading, TypeOK
  <2> QED
    BY <1>3, <2>1
<1>10. CASE CheckBloomMember(p)
  <2>1. UNCHANGED <<cache, bloom, wish>> /\ pc[p] = "bloommember"
    BY <1>10 DEF CheckBloomMember
  <2>2. pc'[p] \in Reading => bloom # "with"
    BY <1>10 DEF CheckBloomMember, Reading, TypeOK
  <2> QED
    BY <1>3, <2>1, <2>2
<1>11. CASE CountMembers(p) \/ DiscountDummy(p) \/ AnswerRead(p)
  <2>1. UNCHANGED <<cache, bloom, wish>> /\ pc[p] \in Reading /\ pc[p] \notin {"rmdummy", "addbloom"}
    BY <1>11 DEF CountMembers, DiscountDummy, AnswerRead, Reading
  <2> QED
    BY <1>3, <2>1
<1>12. CASE LikeSadd(p)
  <2>1. cache' # {} /\ bloom' = bloom /\ pc[p] = "sadd"
    BY <1>12 DEF LikeSadd
  <2>2. Likers = Wished /\ req[p].user # Dummy
    BY <1>2, <2>1, UsersAssumption DEF WarmInv, WarmSetIsExact, Warmth, OpInv, Idle, Actors
  <2>3. Wished' \subseteq Wished \cup {req[p].user}
    BY <1>12 DEF LikeSadd, Wished, TypeOK
  <2>4. \/ req[p].user \in Wished
        \/ pc'[p] = "rmdummy" /\ req'[p] = req[p]
    BY <1>12, <2>2 DEF LikeSadd, Likers, TypeOK
  <2>5. \A u \in Wished' \ Residents :
          bloom # "with" => \E q \in Procs : /\ pc'[q] \in {"rmdummy", "addbloom"}
                                             /\ req'[q].user = u
    BY <1>1, <2>1, <2>3, <2>4 DEF KnownInv
  <2> QED
    BY <2>1, <2>5 DEF KnownInv
<1>13. CASE UnlikeSrem(p)
  <2>1. bloom' = bloom /\ pc[p] = "srem" /\ pc'[p] \notin Reading
    BY <1>13 DEF UnlikeSrem, Reading, TypeOK
  <2>2. Wished' \subseteq Wished
    BY <1>13 DEF UnlikeSrem, Wished, TypeOK
  <2>3. cache # {} /\ Likers = Wished
    BY <1>2, <2>1 DEF WarmInv, WarmSetIsExact, Warmth
  <2>4. cache' = cache \ {req[p].user} /\ wish' = [wish EXCEPT ![req[p].user] = FALSE]
        /\ req[p].user \in Actors
    BY <1>13, <2>1 DEF UnlikeSrem, OpInv, Idle
  <2>5. cache' = {} => Wished' \subseteq Residents
    BY <2>3, <2>4 DEF Likers, Wished, TypeOK, Actors
  <2>6. bloom # "with" => \A u \in Wished' \ Residents :
                          \E q \in Procs : /\ pc'[q] \in {"rmdummy", "addbloom"}
                                           /\ req'[q].user = u
    BY <1>1, <2>1, <2>2 DEF KnownInv
  <2> QED
    BY <2>1, <2>5, <2>6 DEF KnownInv
<1>14. CASE RemoveDummyUser(p)
  <2>1. /\ UNCHANGED <<bloom, wish, req>> /\ pc[p] = "rmdummy" /\ pc'[p] = "addbloom"
        /\ cache' = cache \ {Dummy}
    BY <1>14 DEF RemoveDummyUser, TypeOK
  <2>2. Wished' = Wished /\ (cache' = {} => Wished \subseteq {})
    <3>1. Likers = Wished
      BY <1>2, <2>1 DEF WarmInv, WarmSetIsExact, Warmth, Telling
    <3> QED
      BY <2>1, <3>1 DEF Wished, Likers
  <2>3. \A q \in Procs : pc[q] \in {"rmdummy", "addbloom"} => pc'[q] \in {"rmdummy", "addbloom"}
    BY <1>1, <2>1
  <2> QED
    BY <2>1, <2>2, <2>3 DEF KnownInv
<1>15. CASE AddDummyUser(p)
  <2>1. /\ UNCHANGED <<bloom, wish, req>> /\ pc[p] = "adddummy" /\ cache' # {}
    BY <1>15 DEF AddDummyUser
  <2>2. Wished' = Wished
    BY <2>1 DEF Wished
  <2> QED
    BY <1>1, <2>1, <2>2 DEF KnownInv
<1> QED
  BY <1>4, <1>5, <1>6, <1>7, <1>8, <1>9, <1>10, <1>11, <1>12, <1>13, <1>14, <1>15,
     HandleMoves DEF BatchPostStats

LEMMA KnownStep ==
  ASSUME TypeOK, PatientWaiters, QuietExpiry, Over(ReadFaults), LockInv, OpInv, WarmInv,
         KnownInv, [Next]_vars
  PROVE  KnownInv'
<1> USE DEF redisVars, handlerVars, listenerVars
<1>0. Over(LossFaults) /\ ~RedisRestarts
  BY DEF Over, ReadFaults, FilterFaults, RedisRestarts, Spend
<1>1. HandleInteraction \/ Redeliver \/ UNCHANGED vars => UNCHANGED <<cache, bloom, wish, pc, req>>
  BY HandleInteractionCases
     DEF SkipDuplicate, SaveRecord, DeleteRecord, UpdatePostCount, UpdateCommentCount,
         UpdateESPostCount, Redeliver, vars
<1>2. ASSUME UNCHANGED <<cache, bloom, wish, pc, req>>
      PROVE  KnownInv'
  BY <1>2 DEF KnownInv, Wished
<1>3. CASE KeyExpires
  <2>1. /\ UNCHANGED <<bloom, wish, pc, req>>
        /\ \A p \in Procs : pc[p] = "idle"
    BY <1>3 DEF KeyExpires, Settled, Busy, Idle
  <2> QED
    BY <2>1 DEF KnownInv, Wished, Reading
<1>4. CASE OtherTargetLiked
  <2>1. bloom # "with" /\ UNCHANGED <<cache, wish, pc, req>>
    BY <1>4 DEF OtherTargetLiked
  <2> QED
    BY <2>1 DEF KnownInv, Wished
<1>5. ASSUME NEW p \in Procs, NEW op \in Ops, NEW u \in Actors, Begin(p, op, u)
      PROVE  KnownInv'
  <2>1. /\ UNCHANGED <<cache, bloom, wish>> /\ pc[p] = "idle"
        /\ pc'[p] \notin Reading
        /\ \A q \in Procs : q # p => pc'[q] = pc[q] /\ req'[q] = req[q]
    BY <1>5 DEF Begin, Idle, Reading, TypeOK
  <2>2. Wished' = Wished
    BY <2>1 DEF Wished
  <2> QED
    BY <2>1, <2>2 DEF KnownInv
<1> QED
  BY <1>0, <1>1, <1>2, <1>3, <1>4, <1>5, KnownHandle, QuietEnvironment DEF Next

\* Under what warmed sets need, and as long as the filter is kept, a user whose writes
\* are answered reads his own last choice, warmed set or not.
THEOREM OwnWritesRead ==
  ASSUME SerialUsers, PatientWaiters, QuietExpiry, Residents # {},
         \A f \in ReadFaults : Budget[f] = 0
  PROVE  Spec => []ReadYourWrites
<1>1. Init => Over(ReadFaults)
  BY DEF Init, Over
<1>2. TypeOK /\ Over(ReadFaults) /\ [Next]_vars => Over(ReadFaults)'
  <2>1. ReadFaults \in SUBSET FaultNames
    BY DEF ReadFaults, LossFaults, FilterFaults, FaultNames
  <2> QED
    BY <2>1, OverStep
<1>3. Spec => [](TypeOK /\ OldestExists /\ WarmthInv)
  BY WarmthHolds DEF ReadFaults
<1>4. Init => KnownInv
  BY DEF Init, KnownInv, Wished, Reading
<1>5. TypeOK /\ WarmthInv /\ Over(ReadFaults) /\ KnownInv /\ [Next]_vars => KnownInv'
  BY KnownStep DEF WarmthInv
<1>6. TypeOK /\ WarmthInv /\ KnownInv => ReadYourWrites
  <2> SUFFICES ASSUME TypeOK, WarmthInv, KnownInv, NEW p \in Procs, pc[p] = "ismember"
               PROVE  req[p].user \in cache <=> wish[req[p].user]
    BY DEF ReadYourWrites
  <2>1. req[p].user \in Users /\ req[p].user \notin Residents /\ req[p].user # Dummy
    BY UsersAssumption DEF WarmthInv, OpInv, Idle, Actors
  <2>2. CASE cache = {}
    BY <2>1, <2>2 DEF KnownInv, Reading, Wished
  <2>3. CASE cache # {}
    BY <2>1, <2>3 DEF WarmthInv, WarmInv, WarmSetIsExact, Likers, Wished
  <2> QED
    BY <2>2, <2>3
<1> QED
  BY <1>1, <1>2, <1>3, <1>4, <1>5, <1>6, PTL DEF Spec

-----------------------------------------------------------------------------
(* The refinement: InteractionCache implements LikeLog for every set of users *)
(* and handlers, whatever fails in front of the listener.                     *)

\* The listener throws no exception and is not stopped.
ListenerFaultless == Over({"listener", "redeliver"})

\* A step that leaves the listener's state alone is a stutter of the log.
LEMMA BystanderStutters ==
  ASSUME UNCHANGED <<queue, applying, stored, likeCount, esCount>>
  PROVE  UNCHANGED Log!vars
BY DEF Log!vars, Counting, Delta, Oldest

\* A published event is a choice, also while another event is being counted.
LEMMA PublishChooses ==
  ASSUME TypeOK, OldestExists, UNCHANGED <<applying, stored, likeCount, esCount>>,
         NEW e \in Event, queue' = Append(queue, e)
  PROVE  Log!Choose(e)
<1>1. queue \in Seq(Event)
  BY DEF TypeOK
<1>2. CASE applying \in {"count", "es"}
  <2>1. queue # <<>>
    BY <1>2 DEF OldestExists
  <2>2. Tail(queue') = Append(Tail(queue), e) /\ Head(queue') = Head(queue)
    BY <1>1, <2>1, HeadTailAppend
  <2> QED
    BY <1>2, <2>2 DEF Log!Choose, Counting, Delta, Oldest
<1>3. CASE applying \notin {"count", "es"}
  BY <1>3 DEF Log!Choose, Counting
<1> QED
  BY <1>2, <1>3

\* The listener applies an event when it changes the record, and stutters when it
\* counts.
LEMMA ListenerApplies ==
  ASSUME TypeOK, OldestExists, HandleInteraction
  PROVE  Log!Apply \/ UNCHANGED Log!vars
<1>1. /\ likeCount \in Int /\ esCount \in Int
  BY DEF TypeOK
<1>2. CASE SkipDuplicate
  BY <1>1, <1>2 DEF SkipDuplicate, Acknowledge, Oldest, Log!Apply, Counting, listenerVars
<1>3. CASE SaveRecord
  BY <1>1, <1>3 DEF SaveRecord, Oldest, Log!Apply, Log!CountBy, Counting, Delta
<1>4. CASE DeleteRecord
  BY <1>1, <1>4 DEF DeleteRecord, Oldest, Log!Apply, Log!CountBy, Counting, Delta
<1>5. CASE UpdatePostCount
  BY <1>1, <1>5 DEF UpdatePostCount, Acknowledge, Oldest, Log!vars, Counting, Delta
<1>6. CASE UpdateCommentCount /\ Kind # "like"
  BY <1>1, <1>6 DEF UpdateCommentCount, Acknowledge, Oldest, Log!vars, Counting, Delta
<1>7. CASE UpdateESPostCount /\ Kind = "like"
  BY <1>1, <1>7 DEF UpdateESPostCount, Acknowledge, Oldest, Log!vars, Counting, Delta
<1> QED
  BY <1>2, <1>3, <1>4, <1>5, <1>6, <1>7, HandleInteractionCases

LEMMA LogStep ==
  ASSUME TypeOK, OldestExists, ListenerFaultless, [Next]_vars
  PROVE  [Log!Next]_(Log!vars)
<1>1. ASSUME NEW p \in Procs, Handle(p)
      PROVE  [Log!Next]_(Log!vars)
  <2>1. UNCHANGED <<applying, stored, likeCount, esCount>>
    BY <1>1, HandleCases DEF Ensure, EnsureExists, TryLock, WaitHit, WaitTimeout,
                DoubleCheck, FindLikes, FillCache, FillBloom, ReleaseLock,
                AddMember, LikeSadd, RemoveDummyUser, LikeBloom, PublishEvent,
                RemoveMember, UnlikeSrem, EmptyCheck, AddDummyUser, BatchPostStats,
                CheckBloomKey, CheckBloomMember, CountMembers, DiscountDummy,
                AnswerRead, listenerVars
  <2>2. PublishEvent(p) \/ UNCHANGED queue
    BY <1>1, HandleCases DEF Ensure, EnsureExists, TryLock, WaitHit, WaitTimeout,
                DoubleCheck, FindLikes, FillCache, FillBloom, ReleaseLock,
                AddMember, LikeSadd, RemoveDummyUser, LikeBloom, RemoveMember,
                UnlikeSrem, EmptyCheck, AddDummyUser, BatchPostStats,
                CheckBloomKey, CheckBloomMember, CountMembers, DiscountDummy,
                AnswerRead, listenerVars
  <2>3. CASE UNCHANGED queue
    BY <2>1, <2>3, BystanderStutters
  <2>4. ASSUME NEW e \in Event, queue' = Append(queue, e)
        PROVE  Log!Next
    BY <2>1, <2>4, PublishChooses DEF Log!Next, Log!Choice, Event
  <2> QED
    BY <2>2, <2>3, <2>4, PublishAppends
<1>2. CASE HandleInteraction
  BY <1>2, ListenerApplies DEF Log!Next
<1>3. CASE Environment
  <2>1. ~ListenerFails /\ ~Redeliver
    BY DEF ListenerFails, Redeliver, Spend, ListenerFaultless, Over
  <2>2. UNCHANGED <<queue, applying, stored, likeCount, esCount>>
    BY <1>3, <2>1
       DEF Environment, RequestFails, CommandIgnored, RequestDies, KeyExpires,
           LockExpires, RedisRestarts, OtherTargetLiked, listenerVars
  <2> QED
    BY <2>2, BystanderStutters
<1>4. ASSUME NEW p \in Procs, NEW op \in Ops, NEW u \in Actors, Begin(p, op, u)
      PROVE  UNCHANGED Log!vars
  BY <1>4, BystanderStutters DEF Begin, listenerVars
<1>5. UNCHANGED vars => UNCHANGED Log!vars
  BY BystanderStutters DEF vars, listenerVars
<1> QED
  BY <1>1, <1>2, <1>3, <1>4, <1>5 DEF Next

\* As long as the listener runs undisturbed, what MongoDB and Elasticsearch show is
\* the log of published choices applied in order, each once and as a whole, whatever
\* requests, caches, locks and RabbitMQ do in front of it.
THEOREM ListenerImplementsLog ==
  ASSUME Budget["listener"] = 0, Budget["redeliver"] = 0
  PROVE  Spec => ImplementsLog
<1>1. Init => Log!Init
  <2>1. Log!Cardinality(Residents) = Cardinality(Residents)
    BY Zenon DEF Cardinality, Log!Cardinality
  <2>2. Cardinality(Residents) \in Int
    BY UsersAssumption, FS_Subset, FS_CardinalityType
  <2> QED
    BY <2>1, <2>2 DEF Init, Log!Init, Counting
<1>2. Init => ListenerFaultless
  BY DEF Init, ListenerFaultless, Over
<1>3. TypeOK /\ ListenerFaultless /\ [Next]_vars => ListenerFaultless'
  <2>1. {"listener", "redeliver"} \in SUBSET FaultNames
    BY DEF FaultNames
  <2> QED
    BY <2>1, OverStep DEF ListenerFaultless
<1>4. TypeOK /\ OldestExists /\ ListenerFaultless /\ [Next]_vars => [Log!Next]_(Log!vars)
  BY LogStep
<1>5. QED
  BY <1>1, <1>2, <1>3, <1>4, TypeCorrect, PTL DEF Spec, ImplementsLog, Log!Spec

-----------------------------------------------------------------------------
(* Requests end.  A handler's commands come in an order in which it never goes  *)
(* back, so one that keeps sending commands answers after fourteen at most.     *)

Rank(step) ==
    CASE step = "idle"                                    -> 0
      [] step = "publish"                                 -> 1
      [] step \in {"addbloom", "adddummy", "ismember"}    -> 2
      [] step \in {"rmdummy", "scardempty", "hasdummy"}   -> 3
      [] step \in {"sadd", "srem", "scard"}               -> 4
      [] step = "release"                                 -> 5
      [] step = "fillbloom"                               -> 6
      [] step = "fill"                                    -> 7
      [] step = "find"                                    -> 8
      [] step = "double"                                  -> 9
      [] step = "wait"                                    -> 10
      [] step = "setnx"                                   -> 11
      [] step = "exists"                                  -> 12
      [] step = "bloommember"                             -> 13
      [] step = "bloomkey"                                -> 14

Left(p) == Rank(pc[p])

\* Every step has its place; only an idle handler has nothing left.
LEMMA RankType == \A s \in Steps : Rank(s) \in 0..14 /\ (Rank(s) = 0 <=> s = "idle")
<1>1. \A s \in EnsureSteps : Rank(s) \in 5..12
  BY DEF EnsureSteps, Rank
<1>2. \A s \in WriteSteps : Rank(s) \in 1..4
  BY DEF WriteSteps, Rank
<1>3. \A s \in ReadSteps : Rank(s) \in 2..14
  BY DEF ReadSteps, Rank
<1>4. Rank("idle") = 0
  BY DEF Rank
<1>5. \A s \in Steps \ {"idle"} : Rank(s) \in 1..14
  BY <1>1, <1>2, <1>3 DEF Steps
<1> QED BY <1>4, <1>5

\* Every command a handler sends leaves it fewer.
LEMMA HandleFalls ==
  ASSUME TypeOK, NEW p \in Procs, Handle(p)
  PROVE  Rank(pc'[p]) < Rank(pc[p])
<1> USE DEF GoTo, Reply, TypeOK
<1>0. Resume(p) \in {"sadd", "srem", "scard"} /\ Warmed(p) \in {"release", "sadd", "srem", "scard"}
  BY DEF Resume, Warmed
<1>1. CASE Ensure(p)
  <2>1. CASE EnsureExists(p)
    BY <1>0, <2>1 DEF EnsureExists, Rank
  <2>2. CASE TryLock(p)
    BY <2>2 DEF TryLock, Rank
  <2>3. CASE WaitHit(p)
    BY <1>0, <2>3 DEF WaitHit, Rank
  <2>4. CASE WaitTimeout(p)
    BY <2>4 DEF WaitTimeout, Rank
  <2>5. CASE DoubleCheck(p)
    BY <1>0, <2>5 DEF DoubleCheck, Rank
  <2>6. CASE FindLikes(p)
    BY <2>6 DEF FindLikes, Rank
  <2>7. CASE FillCache(p)
    BY <1>0, <2>7 DEF FillCache, Rank
  <2>8. CASE FillBloom(p)
    BY <1>0, <2>8 DEF FillBloom, Rank
  <2>9. CASE ReleaseLock(p)
    BY <1>0, <2>9 DEF ReleaseLock, Rank
  <2> QED BY <1>1, <2>1, <2>2, <2>3, <2>4, <2>5, <2>6, <2>7, <2>8, <2>9 DEF Ensure
<1>2. CASE BatchPostStats(p)
  <2>1. CASE CheckBloomKey(p) \/ CheckBloomMember(p)
    BY <2>1 DEF CheckBloomKey, CheckBloomMember, Rank
  <2>2. CASE CountMembers(p) \/ DiscountDummy(p) \/ AnswerRead(p)
    BY <2>2 DEF CountMembers, DiscountDummy, AnswerRead, Rank
  <2> QED BY <1>2, <2>1, <2>2 DEF BatchPostStats
<1>3. CASE LikeSadd(p) \/ RemoveDummyUser(p) \/ LikeBloom(p)
  BY <1>3 DEF LikeSadd, RemoveDummyUser, LikeBloom, Rank
<1>4. CASE UnlikeSrem(p) \/ EmptyCheck(p) \/ AddDummyUser(p)
  BY <1>4 DEF UnlikeSrem, EmptyCheck, AddDummyUser, Rank
<1>5. CASE PublishEvent(p)
  BY <1>5 DEF PublishEvent, Rank
<1> QED BY <1>1, <1>2, <1>3, <1>4, <1>5, HandleCases DEF AddMember, RemoveMember

\* Nor does an error or a crash give it more to do.
LEMMA FaultsFall ==
  ASSUME TypeOK, NEW p \in Procs, RequestFails(p) \/ CommandIgnored(p) \/ RequestDies(p)
  PROVE  Rank(pc'[p]) <= Rank(pc[p])
<1> USE DEF GoTo, Reply, TypeOK
<1>1. CASE RequestFails(p)
  BY <1>1 DEF RequestFails, EnsureSteps, Rank
<1>2. CASE CommandIgnored(p)
  <2>1. Resume(p) \in {"sadd", "srem", "scard"}
    BY DEF Resume
  <2> QED BY <1>2, <2>1 DEF CommandIgnored, AfterIgnored, ReadSteps, Rank
<1>3. CASE RequestDies(p)
  <2>1. pc'[p] = "idle" /\ Rank("idle") = 0
    BY <1>3 DEF RequestDies, Rank
  <2>2. Rank(pc[p]) \in 0..14
    BY RankType
  <2> QED BY <2>1, <2>2
<1> QED BY <1>1, <1>2, <1>3

\* So nothing but a new request does.
LEMMA StepFalls ==
  ASSUME TypeOK, TypeOK', [Next]_vars, NEW p \in Procs, ~Idle(p)
  PROVE  Rank(pc'[p]) <= Rank(pc[p])
<1>0. Rank(pc[p]) \in 0..14
  BY RankType DEF TypeOK
<1>1. ASSUME NEW q \in Procs, NEW op \in Ops, NEW u \in Actors, Begin(q, op, u)
      PROVE  pc'[p] = pc[p]
  BY <1>1 DEF Begin, Idle, TypeOK
<1>2. ASSUME NEW q \in Procs, Handle(q) PROVE Rank(pc'[p]) <= Rank(pc[p])
  <2>1. CASE q = p
    <3>1. Rank(pc'[p]) < Rank(pc[p])
      BY <1>2, <2>1, HandleFalls
    <3>2. pc'[p] \in Steps
      BY DEF TypeOK
    <3> QED BY <1>0, <3>1, <3>2, RankType
  <2>2. CASE q # p
    BY <1>0, <1>2, <2>2, HandleFrame
  <2> QED BY <2>1, <2>2
<1>3. ASSUME NEW q \in Procs, RequestFails(q) \/ CommandIgnored(q) \/ RequestDies(q)
      PROVE  Rank(pc'[p]) <= Rank(pc[p])
  <2>1. CASE q = p
    BY <1>3, <2>1, FaultsFall
  <2>2. CASE q # p
    <3>1. pc'[p] = pc[p]
      BY <1>3, <2>2 DEF RequestFails, CommandIgnored, RequestDies, GoTo, Reply, TypeOK
    <3> QED BY <1>0, <3>1
  <2> QED BY <2>1, <2>2
<1>4. HandleInteraction => pc' = pc
  BY HandleInteractionCases DEF SkipDuplicate, SaveRecord, DeleteRecord, UpdatePostCount, UpdateCommentCount,
         UpdateESPostCount, handlerVars
<1>5. ListenerFails \/ Redeliver \/ KeyExpires \/ LockExpires \/ RedisRestarts
      \/ OtherTargetLiked \/ UNCHANGED vars => pc' = pc
  BY DEF ListenerFails, Redeliver, KeyExpires, LockExpires, RedisRestarts, OtherTargetLiked,
         vars, handlerVars
<1>6. pc'[p] = pc[p] => Rank(pc'[p]) <= Rank(pc[p])
  BY <1>0
<1> QED BY <1>1, <1>2, <1>3, <1>4, <1>5, <1>6 DEF Next, Environment

\* A handler that sends commands again and again, unless it is idle again and again.
Steady(p) == []<>Idle(p) \/ []<><<Handle(p)>>_vars
Falls(p, k) == [](Left(p) <= k + 1 => <>(Left(p) <= k))

\* Each command brings it one place nearer to its answer,
LEMMA SteadyFalls ==
  ASSUME NEW p \in Procs, NEW k \in 0..13
  PROVE  Spec /\ Steady(p) => Falls(p, k)
<1>1. TypeOK /\ OldestExists /\ [Next]_vars /\ Left(p) <= k + 1
      => Left(p) <= k \/ (Left(p) <= k + 1)'
  <2> SUFFICES ASSUME TypeOK, OldestExists, [Next]_vars, Left(p) <= k + 1, ~(Left(p) <= k)
               PROVE  (Left(p) <= k + 1)'
    OBVIOUS
  <2>1. Left(p) \in 0..14 /\ (Left(p) = 0 <=> Idle(p))
    BY RankType DEF TypeOK, Left, Idle
  <2>2. TypeOK'
    BY TypeStep
  <2>3. Rank(pc'[p]) <= Rank(pc[p])
    BY <2>1, <2>2, StepFalls
  <2>4. Rank(pc'[p]) \in 0..14
    BY <2>2, RankType DEF TypeOK
  <2> QED BY <2>1, <2>3, <2>4 DEF Left
<1>2. TypeOK /\ OldestExists /\ <<Handle(p)>>_vars /\ Left(p) <= k + 1 => (Left(p) <= k)'
  <2> SUFFICES ASSUME TypeOK, OldestExists, Handle(p), Left(p) <= k + 1 PROVE (Left(p) <= k)'
    OBVIOUS
  <2>1. Rank(pc'[p]) < Rank(pc[p])
    BY HandleFalls
  <2>2. TypeOK'
    BY TypeStep DEF Next
  <2>3. Rank(pc'[p]) \in 0..14 /\ Rank(pc[p]) \in 0..14
    BY <2>2, RankType DEF TypeOK
  <2> QED BY <2>1, <2>3 DEF Left
<1>3. TypeOK /\ Idle(p) => Left(p) <= k
  BY DEF Idle, Left, Rank
<1> QED BY <1>1, <1>2, <1>3, TypeCorrect, PTL DEF Spec, Steady, Falls

\* so fourteen places are behind it some time.
LEMMA SteadyAnswers ==
  ASSUME NEW p \in Procs
  PROVE  Spec /\ Steady(p) => (~Idle(p) ~> Idle(p))
<1>0. TypeOK => Left(p) \in 0..14 /\ (Left(p) = 0 <=> Idle(p))
  BY RankType DEF TypeOK, Left, Idle
<1>1. TypeOK => Left(p) <= 13 + 1
  BY <1>0
<1>2. TypeOK => (Left(p) <= 0 => Idle(p))
  BY <1>0
<1>a0. Spec /\ Steady(p) => Falls(p, 0)
  BY SteadyFalls
<1>a1. Spec /\ Steady(p) => Falls(p, 1)
  BY SteadyFalls
<1>a2. Spec /\ Steady(p) => Falls(p, 2)
  BY SteadyFalls
<1>a3. Spec /\ Steady(p) => Falls(p, 3)
  BY SteadyFalls
<1>a4. Spec /\ Steady(p) => Falls(p, 4)
  BY SteadyFalls
<1>a5. Spec /\ Steady(p) => Falls(p, 5)
  BY SteadyFalls
<1>a6. Spec /\ Steady(p) => Falls(p, 6)
  BY SteadyFalls
<1>a7. Spec /\ Steady(p) => Falls(p, 7)
  BY SteadyFalls
<1>a8. Spec /\ Steady(p) => Falls(p, 8)
  BY SteadyFalls
<1>a9. Spec /\ Steady(p) => Falls(p, 9)
  BY SteadyFalls
<1>a10. Spec /\ Steady(p) => Falls(p, 10)
  BY SteadyFalls
<1>a11. Spec /\ Steady(p) => Falls(p, 11)
  BY SteadyFalls
<1>a12. Spec /\ Steady(p) => Falls(p, 12)
  BY SteadyFalls
<1>a13. Spec /\ Steady(p) => Falls(p, 13)
  BY SteadyFalls
<1>e1. Left(p) <= 0 + 1 <=> Left(p) <= 1
  OBVIOUS
<1>e2. Left(p) <= 1 + 1 <=> Left(p) <= 2
  OBVIOUS
<1>e3. Left(p) <= 2 + 1 <=> Left(p) <= 3
  OBVIOUS
<1>e4. Left(p) <= 3 + 1 <=> Left(p) <= 4
  OBVIOUS
<1>e5. Left(p) <= 4 + 1 <=> Left(p) <= 5
  OBVIOUS
<1>e6. Left(p) <= 5 + 1 <=> Left(p) <= 6
  OBVIOUS
<1>e7. Left(p) <= 6 + 1 <=> Left(p) <= 7
  OBVIOUS
<1>e8. Left(p) <= 7 + 1 <=> Left(p) <= 8
  OBVIOUS
<1>e9. Left(p) <= 8 + 1 <=> Left(p) <= 9
  OBVIOUS
<1>e10. Left(p) <= 9 + 1 <=> Left(p) <= 10
  OBVIOUS
<1>e11. Left(p) <= 10 + 1 <=> Left(p) <= 11
  OBVIOUS
<1>e12. Left(p) <= 11 + 1 <=> Left(p) <= 12
  OBVIOUS
<1>e13. Left(p) <= 12 + 1 <=> Left(p) <= 13
  OBVIOUS
<1> QED
  BY <1>1, <1>2, <1>a0, <1>a1, <1>a2, <1>a3, <1>a4, <1>a5, <1>a6, <1>a7, <1>a8, <1>a9,
         <1>a10, <1>a11, <1>a12, <1>a13, <1>e1, <1>e2, <1>e3, <1>e4, <1>e5, <1>e6, <1>e7, <1>e8, <1>e9, <1>e10, <1>e11, <1>e12, <1>e13,
         TypeCorrect, PTL DEF Falls

\* Weak fairness makes a handler steady that is never stuck.
LEMMA FairHandlers ==
  ASSUME NEW p \in Procs
  PROVE  FairSpec /\ []NoHandlerStuck => Steady(p)
<1>1. Fairness => HandlerRuns(p)
  BY DEF Fairness
<1>2. NoHandlerStuck => (~Idle(p) => ENABLED <<Handle(p)>>_vars)
  BY DEF NoHandlerStuck
<1> QED BY <1>1, <1>2, PTL DEF FairSpec, HandlerRuns, Steady

\* Under the fairness of the handlers alone every request is answered, whatever fails
\* and however requests interleave, if no handler is ever stuck.
THEOREM RequestsAnswered == FairSpec /\ []NoHandlerStuck => RequestsReturn
<1> SUFFICES ASSUME NEW p \in Procs
             PROVE  FairSpec /\ []NoHandlerStuck => (~Idle(p) ~> Idle(p))
  BY DEF RequestsReturn
<1> QED BY FairHandlers, SteadyAnswers, PTL DEF FairSpec
=============================================================================
