--------------------------- MODULE PostIndexProofs ---------------------------
(***************************************************************************)
(* What PostIndex, and the lists of Feed, guarantee for every set of       *)
(* handlers and workers, whatever overlaps and fails.                      *)
(***************************************************************************)
EXTENDS Feed, FiniteSetTheorems, SequenceTheorems, TLAPS

-----------------------------------------------------------------------------
(* Type correctness needs what is known at each step: a handler that goes on   *)
(* with a post has read one, a worker at work has an event, a document that is *)
(* about to be written is a text, the listener's events have a post.           *)

HandlerOK(p) ==
    /\ pc[p] # "idle" => op[p] \in OpNames
    /\ pc[p] = "publish" \/ (pc[p] # "idle" /\ op[p] # "create") => post \in PostDoc
    /\ pc[p] = "publish" \/ (pc[p] = "save" /\ op[p] # "create") => read[p] \in PostDoc

WorkerOK(w) ==
    /\ at[w] # "idle" => ev[w] \in Event
    /\ at[w] = "index" => doc[w] \in Nat

KnownOK ==
    /\ \A p \in Procs : HandlerOK(p)
    /\ \A w \in Workers : WorkerOK(w)
    /\ scan = "write" => page \in Nat
    /\ postQueue # <<>> => post \in PostDoc

TypeInv == TypeOK /\ KnownOK

LEMMA InitTypeInv == Init => TypeInv
<1> SUFFICES ASSUME Init
             PROVE  TypeInv
  OBVIOUS
<1>1. audit \in BOOLEAN
  BY PostAssumption DEF Init
<1>2. queue \in Seq(Event) /\ postQueue \in Seq({"create", "delete"})
  BY DEF Init
<1>3. TypeOK
  BY <1>1, <1>2 DEF Init, TypeOK
<1>4. KnownOK
  BY DEF Init, KnownOK, HandlerOK, WorkerOK
<1> QED
  BY <1>3, <1>4 DEF TypeInv

\* What a handler does leaves the facts about the others, as long as the post stays
\* a post.
LEMMA HandlersKept ==
  ASSUME TypeInv, NEW p \in Procs,
         NEW s, NEW o, NEW r,
         pc' = [pc EXCEPT ![p] = s], op' = [op EXCEPT ![p] = o],
         read' = [read EXCEPT ![p] = r],
         post \in PostDoc => post' \in PostDoc,
         s # "idle" => o \in OpNames,
         s = "publish" \/ (s # "idle" /\ o # "create") => post' \in PostDoc,
         s = "publish" \/ (s = "save" /\ o # "create") => r \in PostDoc
  PROVE  \A q \in Procs : HandlerOK(q)'
<1> SUFFICES ASSUME NEW q \in Procs
             PROVE  HandlerOK(q)'
  OBVIOUS
<1>1. HandlerOK(q)
  BY DEF TypeInv, KnownOK
<1>2. CASE q = p
  BY <1>2 DEF TypeInv, TypeOK, HandlerOK
<1>3. CASE q # p
  BY <1>1, <1>3 DEF TypeInv, TypeOK, HandlerOK
<1> QED
  BY <1>2, <1>3

\* Likewise for what else changes the post or nothing of the handlers.
LEMMA HandlersUntouched ==
  ASSUME TypeInv, UNCHANGED <<pc, op, read>>, post \in PostDoc => post' \in PostDoc
  PROVE  \A q \in Procs : HandlerOK(q)'
BY DEF TypeInv, KnownOK, HandlerOK

\* The type of what a request writes.
LEMMA SavedTypes ==
  ASSUME TypeInv, NEW p \in Procs, CreatePost(p) \/ UpdatePost(p) \/ DeletePost(p)
  PROVE  /\ post' \in PostDoc /\ shown' \subseteq Nat /\ lastText' \in Nat
         /\ read' = [read EXCEPT ![p] = post']
<1> HandlerOK(p)
  BY DEF TypeInv, KnownOK
<1>1. CASE CreatePost(p)
  BY <1>1 DEF CreatePost, Save, Store, FirstStatus, PostDoc, Published, TypeInv, TypeOK
<1>2. CASE UpdatePost(p)
  <2>1. read[p] \in PostDoc
    BY <1>2 DEF UpdatePost, HandlerOK
  <2> QED
    <3> DEFINE d == [read[p] EXCEPT !.text = lastText + 1, !.status = FirstStatus]
    <3>1. lastText \in Nat /\ shown \subseteq Nat
      BY DEF TypeInv, TypeOK
    <3>2. d \in PostDoc
      <4>1. FirstStatus \in {0, 1, 2}
        BY DEF FirstStatus
      <4>2. [read[p] EXCEPT !.text = lastText + 1] \in PostDoc
        BY <2>1, <3>1 DEF PostDoc
      <4> QED
        BY <4>1, <4>2 DEF PostDoc
    <3>3. Save(p, d) /\ lastText' = lastText + 1
      BY <1>2 DEF UpdatePost
    <3> HIDE DEF d
    <3>4. post' = d /\ read' = [read EXCEPT ![p] = d]
      BY <3>3 DEF Save, Store
    <3>5. shown' \subseteq shown \cup {d.text}
      BY <3>3 DEF Save, Store
    <3>6. d.text \in Nat
      BY <3>2 DEF PostDoc
    <3> QED
      BY <3>1, <3>2, <3>3, <3>4, <3>5, <3>6
<1>3. CASE DeletePost(p)
  <2>1. read[p] \in PostDoc
    BY <1>3 DEF DeletePost, HandlerOK
  <2> QED
    BY <1>3, <2>1 DEF DeletePost, Save, Store, PostDoc, Published, TypeInv, TypeOK
<1> QED
  BY <1>1, <1>2, <1>3

LEMMA BeginTypeInv ==
  ASSUME TypeInv, NEW p \in Procs, NEW o \in OpNames, Begin(p, o)
  PROVE  TypeInv'
<1> DEFINE s == IF o = "create" THEN "save" ELSE "find"
<1>1. o # "create" => post \in PostDoc
  BY DEF Begin, TypeInv, TypeOK
<1>2. read' = [read EXCEPT ![p] = read[p]]
  BY DEF Begin, TypeInv, TypeOK
<1>3. \A q \in Procs : HandlerOK(q)'
  <2>1. /\ pc' = [pc EXCEPT ![p] = s] /\ op' = [op EXCEPT ![p] = o]
        /\ post' = post
    BY DEF Begin, mongoVars
  <2>2. s = "save" <=> o = "create"
    OBVIOUS
  <2>3. s \in {"save", "find"}
    OBVIOUS
  <2> HIDE DEF s
  <2> QED
    BY <1>1, <1>2, <2>1, <2>2, <2>3, HandlersKept
<1>4. KnownOK'
  BY <1>3 DEF Begin, TypeInv, KnownOK, WorkerOK, mongoVars, sidecarVars, reindexVars, listenerVars
<1>5. TypeOK'
  BY DEF Begin, TypeInv, TypeOK, mongoVars, sidecarVars, reindexVars, listenerVars
<1> QED
  BY <1>4, <1>5 DEF TypeInv

\* Find, answer and refusal touch the handler only.
LEMMA ReplyOK ==
  ASSUME TypeInv, NEW p \in Procs, Reply(p), post \in PostDoc => post' \in PostDoc
  PROVE  /\ pc' \in [Procs -> {"idle", "find", "save", "publish"}]
         /\ op' \in [Procs -> OpNames \cup {None}]
         /\ read' \in [Procs -> PostDoc \cup {None}]
         /\ \A q \in Procs : HandlerOK(q)'
BY HandlersKept DEF Reply, TypeInv, TypeOK

LEMMA FindTypeInv ==
  ASSUME TypeInv, NEW p \in Procs, FindPost(p)
  PROVE  TypeInv'
<1>1. op' = [op EXCEPT ![p] = op[p]]
  BY DEF FindPost, TypeInv, TypeOK
<1>2. HandlerOK(p)
  BY DEF TypeInv, KnownOK
<1>3. \A q \in Procs : HandlerOK(q)'
  BY <1>1, <1>2, HandlersKept DEF FindPost, HandlerOK, mongoVars
<1>4. KnownOK'
  BY <1>3 DEF FindPost, TypeInv, KnownOK, WorkerOK, mongoVars, sidecarVars, reindexVars, listenerVars
<1>5. TypeOK'
  BY DEF FindPost, TypeInv, TypeOK, mongoVars, sidecarVars, reindexVars, listenerVars
<1> QED
  BY <1>4, <1>5 DEF TypeInv

\* The post is saved and its event comes next.
LEMMA SaveTypeInv ==
  ASSUME TypeInv, NEW p \in Procs, CreatePost(p) \/ UpdatePost(p) \/ DeletePost(p)
  PROVE  TypeInv'
<1>1. /\ post' \in PostDoc /\ shown' \subseteq Nat /\ lastText' \in Nat
      /\ read' = [read EXCEPT ![p] = post']
  BY SavedTypes
<1>2. /\ pc' = [pc EXCEPT ![p] = "publish"]
      /\ op' = [op EXCEPT ![p] = op[p]]
      /\ op[p] \in OpNames
  BY DEF CreatePost, UpdatePost, DeletePost, GoPublish, TypeInv, TypeOK, OpNames
<1>3. \A q \in Procs : HandlerOK(q)'
  BY <1>1, <1>2, HandlersKept
<1>4. UNCHANGED <<audit, comments, es, sidecarVars, reindexVars, listenerVars, broken, spent>>
  BY DEF CreatePost, UpdatePost, DeletePost
<1>5. KnownOK'
  BY <1>1, <1>3, <1>4 DEF TypeInv, KnownOK, WorkerOK, sidecarVars, reindexVars, listenerVars
<1>6. TypeOK'
  BY <1>1, <1>2, <1>4 DEF TypeInv, TypeOK, sidecarVars, reindexVars, listenerVars
<1> QED
  BY <1>5, <1>6 DEF TypeInv

LEMMA TouchTypeInv ==
  ASSUME TypeInv, NEW p \in Procs, TouchPost(p)
  PROVE  TypeInv'
<1>1. read[p] \in PostDoc
  BY DEF TouchPost, TypeInv, KnownOK, HandlerOK
<1>2. post' \in PostDoc /\ shown' \subseteq Nat
  BY <1>1 DEF TouchPost, Store, Published, PostDoc, TypeInv, TypeOK
<1>3. KnownOK'
  BY <1>2, ReplyOK
     DEF TouchPost, TypeInv, KnownOK, WorkerOK, sidecarVars, reindexVars, listenerVars
<1>4. TypeOK'
  BY <1>2, ReplyOK DEF TouchPost, TypeInv, TypeOK, sidecarVars, reindexVars, listenerVars
<1> QED
  BY <1>3, <1>4 DEF TypeInv

LEMMA AuditTypeInv ==
  ASSUME TypeInv, NEW p \in Procs, AuditPost(p)
  PROVE  TypeInv'
<1>1. post \in PostDoc /\ read[p] \in PostDoc /\ op[p] \in OpNames
  BY DEF AuditPost, TypeInv, KnownOK, HandlerOK
<1>2. PICK s \in Verdicts : /\ Store([post EXCEPT !.status = s])
                            /\ IF s = 1 THEN GoPublish(p) /\ UNCHANGED read ELSE Reply(p)
  BY DEF AuditPost
<1>3. post' \in PostDoc /\ shown' \subseteq Nat
  BY <1>1, <1>2 DEF Store, Published, PostDoc, Verdicts, TypeInv, TypeOK
<1>4. /\ pc' \in [Procs -> {"idle", "find", "save", "publish"}]
      /\ op' \in [Procs -> OpNames \cup {None}]
      /\ read' \in [Procs -> PostDoc \cup {None}]
      /\ \A q \in Procs : HandlerOK(q)'
  <2>1. CASE s = 1
    <3>1. /\ pc' = [pc EXCEPT ![p] = "publish"]
          /\ op' = [op EXCEPT ![p] = op[p]]
          /\ read' = [read EXCEPT ![p] = read[p]]
      BY <1>2, <2>1 DEF GoPublish, TypeInv, TypeOK
    <3>2. \A q \in Procs : HandlerOK(q)'
      BY <1>1, <1>3, <3>1, HandlersKept
    <3> QED
      BY <3>1, <3>2 DEF TypeInv, TypeOK
  <2>2. CASE s # 1
    BY <1>2, <1>3, <2>2, ReplyOK
  <2> QED
    BY <2>1, <2>2
<1>5. UNCHANGED <<audit, comments, es, lastText, sidecarVars, reindexVars, listenerVars,
                  broken, spent>>
  BY DEF AuditPost
<1>6. KnownOK'
  BY <1>3, <1>4, <1>5 DEF TypeInv, KnownOK, WorkerOK, sidecarVars, reindexVars, listenerVars
<1>7. TypeOK'
  BY <1>3, <1>4, <1>5 DEF TypeInv, TypeOK, sidecarVars, reindexVars, listenerVars
<1> QED
  BY <1>6, <1>7 DEF TypeInv

LEMMA PublishTypeInv ==
  ASSUME TypeInv, NEW p \in Procs, Publish(p)
  PROVE  TypeInv'
<1>1. post \in PostDoc /\ read[p] \in PostDoc /\ op[p] \in OpNames
  BY DEF Publish, TypeInv, KnownOK, HandlerOK
<1>2. EventOf(p) \in Event
  BY <1>1 DEF EventOf, Event, OpNames, PostDoc
<1>3. queue' \in Seq(Event) /\ postQueue' \in Seq({"create", "delete"})
  BY <1>2 DEF Publish, TypeInv, TypeOK
<1>4. post' = post
  BY DEF Publish, mongoVars
<1>5. KnownOK'
  BY <1>1, <1>4, ReplyOK DEF Publish, TypeInv, KnownOK, WorkerOK, reindexVars
<1>6. TypeOK'
  BY <1>3, <1>4, ReplyOK DEF Publish, TypeInv, TypeOK, mongoVars, reindexVars
<1> QED
  BY <1>5, <1>6 DEF TypeInv

LEMMA RefuseTypeInv ==
  ASSUME TypeInv, NEW p \in Procs, Refuse(p) \/ PublishFails(p)
  PROVE  TypeInv'
<1>1. Reply(p) /\ UNCHANGED <<audit, mongoVars, es, lastText, sidecarVars, reindexVars,
                              postQueue, step>>
  BY DEF Refuse, PublishFails, listenerVars
<1>2. broken' \in BOOLEAN /\ slips' \in Nat /\ spent' \in Nat
  <2>1. broken \in BOOLEAN /\ slips \in Nat /\ spent \in Nat
    BY DEF TypeInv, TypeOK
  <2>2. CASE Refuse(p)
    BY <2>1, <2>2 DEF Refuse, listenerVars
  <2>3. CASE PublishFails(p)
    BY <2>1, <2>3 DEF PublishFails, Fault
  <2> QED
    BY <2>2, <2>3
<1>3. post' = post
  BY <1>1 DEF mongoVars
<1>4. KnownOK'
  BY <1>1, <1>3, ReplyOK DEF TypeInv, KnownOK, WorkerOK, sidecarVars, reindexVars
<1>5. TypeOK'
  BY <1>1, <1>2, <1>3, ReplyOK DEF TypeInv, TypeOK, mongoVars, sidecarVars, reindexVars
<1> QED
  BY <1>4, <1>5 DEF TypeInv

-----------------------------------------------------------------------------
(* Workers and reindex. *)

\* What a worker does leaves the facts about the others.
LEMMA WorkersKept ==
  ASSUME TypeInv, NEW w \in Workers, NEW s, NEW e, NEW d,
         at' = [at EXCEPT ![w] = s], ev' = [ev EXCEPT ![w] = e], doc' = [doc EXCEPT ![w] = d],
         s # "idle" => e \in Event,
         s = "index" => d \in Nat
  PROVE  \A v \in Workers : WorkerOK(v)'
<1> SUFFICES ASSUME NEW v \in Workers
             PROVE  WorkerOK(v)'
  OBVIOUS
<1>1. WorkerOK(v)
  BY DEF TypeInv, KnownOK
<1>2. CASE v = w
  BY <1>2 DEF TypeInv, TypeOK, WorkerOK
<1>3. CASE v # w
  BY <1>1, <1>3 DEF TypeInv, TypeOK, WorkerOK
<1> QED
  BY <1>2, <1>3

LEMMA AckOK ==
  ASSUME TypeInv, NEW w \in Workers, Ack(w)
  PROVE  /\ at' \in [Workers -> {"idle", "find", "index", "remove"}]
         /\ ev' \in [Workers -> Event \cup {None}]
         /\ doc' \in [Workers -> Nat \cup {None}]
         /\ \A v \in Workers : WorkerOK(v)'
BY WorkersKept DEF Ack, TypeInv, TypeOK

LEMMA TakeTypeInv ==
  ASSUME TypeInv, NEW w \in Workers, Take(w)
  PROVE  TypeInv'
<1> DEFINE e == Head(queue)
           s == Route(e)
<1>1. queue \in Seq(Event) /\ queue # <<>>
  BY DEF Take, TypeInv, TypeOK
<1>2. e \in Event /\ queue' \in Seq(Event)
  BY <1>1, HeadTailProperties DEF Take
<1>3. e.text \in Nat /\ s \in {"idle", "find", "index", "remove"}
  BY <1>2 DEF Event, Route
<1>4. /\ at' = [at EXCEPT ![w] = s]
      /\ ev' = [ev EXCEPT ![w] = IF s = "idle" THEN None ELSE e]
      /\ doc' = [doc EXCEPT ![w] = IF s = "index" THEN e.text ELSE None]
  BY DEF Take
<1>5. UNCHANGED <<audit, mongoVars, es, requestVars, reindexVars, listenerVars, broken, spent>>
  BY DEF Take
<1> HIDE DEF e, s
<1>6. \A v \in Workers : WorkerOK(v)'
  BY <1>2, <1>3, <1>4, WorkersKept
<1>7. \A q \in Procs : HandlerOK(q)'
  BY <1>5, HandlersUntouched DEF requestVars, mongoVars
<1>8. KnownOK'
  BY <1>5, <1>6, <1>7 DEF TypeInv, KnownOK, mongoVars, reindexVars, listenerVars
<1>9. /\ at' \in [Workers -> {"idle", "find", "index", "remove"}]
      /\ ev' \in [Workers -> Event \cup {None}]
      /\ doc' \in [Workers -> Nat \cup {None}]
  BY <1>2, <1>3, <1>4 DEF TypeInv, TypeOK
<1>10. TypeOK'
  BY <1>2, <1>5, <1>9 DEF TypeInv, TypeOK, mongoVars, requestVars, reindexVars, listenerVars
<1> QED
  BY <1>8, <1>10 DEF TypeInv

LEMMA LookUpTypeInv ==
  ASSUME TypeInv, NEW w \in Workers, LookUp(w) \/ LookUpFails(w)
  PROVE  TypeInv'
<1>1. WorkerOK(w) /\ at[w] = "find" /\ spent' \in Nat
  BY DEF TypeInv, KnownOK, TypeOK, LookUp, LookUpFails, Fault
<1>2. PICK s \in {"index", "remove"}, d \in Nat \cup {None} :
         /\ at' = [at EXCEPT ![w] = s]
         /\ doc' = [doc EXCEPT ![w] = d]
         /\ s = "index" => d \in Nat
  <2>1. doc[w] \in Nat \cup {None} /\ doc = [doc EXCEPT ![w] = doc[w]]
    BY DEF TypeInv, TypeOK
  <2>2. CASE LookUp(w) /\ Published(post)
    <3>1. post.text \in Nat
      BY <2>2 DEF Published, PostDoc, TypeInv, TypeOK
    <3> QED
      BY <2>2, <3>1 DEF LookUp
  <2>3. CASE LookUp(w) /\ ~Published(post)
    BY <2>1, <2>3 DEF LookUp
  <2>4. CASE LookUpFails(w)
    BY <2>1, <2>4 DEF LookUpFails
  <2> QED
    BY <2>2, <2>3, <2>4
<1>3. UNCHANGED <<audit, mongoVars, es, requestVars, queue, ev, reindexVars, listenerVars>>
  BY DEF LookUp, LookUpFails
<1>4. ev' = [ev EXCEPT ![w] = ev[w]]
  BY <1>3 DEF TypeInv, TypeOK
<1>5. ev[w] \in Event
  BY <1>1 DEF WorkerOK
<1>6. \A v \in Workers : WorkerOK(v)'
  BY <1>2, <1>4, <1>5, WorkersKept
<1>7. \A q \in Procs : HandlerOK(q)'
  BY <1>3, HandlersUntouched DEF requestVars, mongoVars
<1>8. KnownOK'
  BY <1>3, <1>6, <1>7 DEF TypeInv, KnownOK, mongoVars, reindexVars, listenerVars
<1>9. broken' \in BOOLEAN
  BY DEF TypeInv, TypeOK, LookUp, LookUpFails
<1>10. TypeOK'
  BY <1>1, <1>2, <1>3, <1>9 DEF TypeInv, TypeOK, mongoVars, requestVars, reindexVars, listenerVars
<1> QED
  BY <1>8, <1>10 DEF TypeInv

\* Commands to Elasticsearch.
LEMMA EffectTypes ==
  ASSUME TypeInv
  PROVE  /\ ReindexEffect \subseteq Nat \cup {None}
         /\ \A w \in Workers : WorkerEffect(w) \subseteq Nat \cup {None}
BY DEF TypeInv, TypeOK, ReindexEffect, WorkerEffect

LEMMA CommandTypeInv ==
  ASSUME TypeInv, NEW w \in Workers,
         IndexEs(w) \/ IndexAgain(w) \/ DeleteEs(w) \/ DeadLetter(w)
  PROVE  TypeInv'
<1>1. es' \in Nat \cup {None}
  BY EffectTypes DEF IndexEs, IndexAgain, DeleteEs, DeadLetter, TypeInv, TypeOK
<1>2. /\ at' \in [Workers -> {"idle", "find", "index", "remove"}]
      /\ ev' \in [Workers -> Event \cup {None}]
      /\ doc' \in [Workers -> Nat \cup {None}]
      /\ \A v \in Workers : WorkerOK(v)'
  <2>1. CASE IndexAgain(w)
    BY <2>1 DEF IndexAgain, TypeInv, TypeOK, KnownOK, WorkerOK, sidecarVars
  <2>2. CASE Ack(w)
    BY <2>2, AckOK
  <2> QED
    BY <2>1, <2>2 DEF IndexEs, DeleteEs, DeadLetter
<1>3. UNCHANGED <<audit, mongoVars, requestVars, queue, reindexVars, listenerVars>>
  BY DEF IndexEs, IndexAgain, DeleteEs, DeadLetter, sidecarVars
<1>4. broken' \in BOOLEAN /\ spent' \in Nat
  <2>1. broken \in BOOLEAN /\ spent \in Nat
    BY DEF TypeInv, TypeOK
  <2>2. broken' = broken \/ broken' = TRUE
    BY DEF IndexEs, IndexAgain, DeleteEs, DeadLetter
  <2>3. spent' = spent \/ spent' = spent + 1
    BY DEF IndexEs, IndexAgain, DeleteEs, DeadLetter, Fault
  <2>4. broken' \in BOOLEAN
    BY <2>1, <2>2
  <2>5. spent' \in Nat
    BY <2>1, <2>3
  <2> QED
    BY <2>4, <2>5
<1>5. \A q \in Procs : HandlerOK(q)'
  BY <1>3, HandlersUntouched DEF requestVars, mongoVars
<1>6. KnownOK'
  BY <1>2, <1>3, <1>5 DEF TypeInv, KnownOK, mongoVars, reindexVars, listenerVars
<1>7. TypeOK'
  BY <1>1, <1>2, <1>3, <1>4 DEF TypeInv, TypeOK, mongoVars, requestVars, reindexVars, listenerVars
<1> QED
  BY <1>6, <1>7 DEF TypeInv

\* The events of busy workers make a sequence of events.
LEMMA Redelivered ==
  ASSUME TypeInv, NEW s \in Orders(Busy)
  PROVE  [i \in DOMAIN s |-> ev[s[i]]] \o queue \in Seq(Event)
<1>1. IsFiniteSet(Busy)
  BY PostAssumption, FS_Subset DEF Busy
<1>2. Cardinality(Busy) \in Nat
  BY <1>1, FS_CardinalityType
<1>3. s \in [1..Cardinality(Busy) -> Busy]
  BY DEF Orders
<1>4. \A w \in Busy : ev[w] \in Event
  BY DEF Busy, Free, TypeInv, KnownOK, WorkerOK
<1> DEFINE e == [i \in DOMAIN s |-> ev[s[i]]]
<1>5. e \in [1..Cardinality(Busy) -> Event]
  BY <1>3, <1>4
<1>6. e \in Seq(Event)
  BY <1>2, <1>5, SeqDef
<1>7. queue \in Seq(Event)
  BY DEF TypeInv, TypeOK
<1> HIDE DEF e
<1>8. e \o queue \in Seq(Event)
  BY <1>6, <1>7, ConcatProperties
<1> QED
  BY <1>8 DEF e

LEMMA SidecarStopsTypeInv == TypeInv /\ SidecarStops => TypeInv'
<1> SUFFICES ASSUME TypeInv, SidecarStops
             PROVE  TypeInv'
  OBVIOUS
<1>1. queue' \in Seq(Event)
  BY Redelivered DEF SidecarStops
<1>2. es' \in Nat \cup {None}
  <2>1. es \in Nat \cup {None}
    BY DEF TypeInv, TypeOK
  <2>2. es' \in {es} \cup ReindexEffect \cup UNION {WorkerEffect(w) : w \in Workers}
    BY DEF SidecarStops
  <2> QED
    BY <2>1, <2>2, EffectTypes
<1>3. spent' \in Nat /\ broken' \in BOOLEAN
  BY DEF SidecarStops, Fault, TypeInv, TypeOK
<1>4. /\ at' = [w \in Workers |-> "idle"] /\ ev' = [w \in Workers |-> None]
      /\ doc' = [w \in Workers |-> None] /\ scan' = "idle" /\ page' = None
      /\ UNCHANGED <<audit, mongoVars, requestVars, listenerVars>>
  BY DEF SidecarStops
<1>5. \A q \in Procs : HandlerOK(q)'
  BY <1>4, HandlersUntouched DEF requestVars, mongoVars
<1>6. KnownOK'
  BY <1>4, <1>5 DEF TypeInv, KnownOK, WorkerOK, mongoVars, listenerVars
<1>7. TypeOK'
  BY <1>1, <1>2, <1>3, <1>4 DEF TypeInv, TypeOK, mongoVars, requestVars, listenerVars
<1> QED
  BY <1>6, <1>7 DEF TypeInv

LEMMA ReindexTypeInv ==
  ASSUME TypeInv, BeginReindex \/ ClearEsIndex \/ ScanPosts \/ WritePage \/ ReindexFails
  PROVE  TypeInv'
<1>1. UNCHANGED <<audit, mongoVars, requestVars, sidecarVars, listenerVars>>
  BY DEF BeginReindex, ClearEsIndex, ScanPosts, WritePage, ReindexFails
<1>2. /\ es' \in Nat \cup {None}
      /\ scan' \in {"idle", "clear", "scan", "write"} /\ page' \in Nat \cup {None}
      /\ scan' = "write" => page' \in Nat
  <2>1. CASE BeginReindex
    BY <2>1 DEF BeginReindex, TypeInv, TypeOK
  <2>2. CASE ClearEsIndex
    BY <2>2 DEF ClearEsIndex, TypeInv, TypeOK
  <2>3. CASE ScanPosts
    BY <2>3 DEF ScanPosts, FinishReindex, Published, PostDoc, TypeInv, TypeOK
  <2>4. CASE WritePage
    BY <2>4 DEF WritePage, FinishReindex, TypeInv, TypeOK
  <2>5. CASE ReindexFails
    BY <2>5, EffectTypes DEF ReindexFails, TypeInv, TypeOK
  <2> QED
    BY <2>1, <2>2, <2>3, <2>4, <2>5
<1>3. broken' \in BOOLEAN /\ spent' \in Nat
  <2>1. broken \in BOOLEAN /\ spent \in Nat
    BY DEF TypeInv, TypeOK
  <2>2. CASE ReindexFails
    BY <2>1, <2>2 DEF ReindexFails, Fault
  <2>3. CASE UNCHANGED spent /\ (UNCHANGED broken \/ FinishReindex)
    BY <2>1, <2>3 DEF FinishReindex
  <2> QED
    BY <2>2, <2>3 DEF BeginReindex, ClearEsIndex, ScanPosts, WritePage
<1>4. \A q \in Procs : HandlerOK(q)'
  BY <1>1, HandlersUntouched DEF requestVars, mongoVars
<1>5. KnownOK'
  BY <1>1, <1>2, <1>4 DEF TypeInv, KnownOK, WorkerOK, mongoVars, sidecarVars, listenerVars
<1>6. TypeOK'
  BY <1>1, <1>2, <1>3 DEF TypeInv, TypeOK, mongoVars, requestVars, sidecarVars, listenerVars
<1> QED
  BY <1>5, <1>6 DEF TypeInv

-----------------------------------------------------------------------------
(* The listener, and the theorem. *)

LEMMA ListenTypeInv ==
  ASSUME TypeInv, AutoComment \/ CountAutoComment \/ PurgeComments \/ ListenerFails
  PROVE  TypeInv'
<1>1. UNCHANGED <<audit, es, requestVars, sidecarVars, reindexVars, broken>>
  BY DEF AutoComment, CountAutoComment, PurgeComments, ListenerFails
<1>2. post \in PostDoc /\ postQueue # <<>>
  BY DEF AutoComment, CountAutoComment, PurgeComments, ListenerFails, AtEvent, TypeInv, KnownOK
<1>3. post' \in PostDoc /\ shown' = shown
  <2>1. CASE CountAutoComment
    BY <1>2, <2>1 DEF CountAutoComment, PostDoc
  <2>2. CASE UNCHANGED <<post, shown>>
    BY <1>2, <2>2
  <2> QED
    BY <2>1, <2>2 DEF AutoComment, PurgeComments, ListenerFails, mongoVars
<1>4. postQueue' \in Seq({"create", "delete"}) /\ step' \in {"start", "count"}
  <2>1. postQueue \in Seq({"create", "delete"}) /\ step \in {"start", "count"}
    BY DEF TypeInv, TypeOK
  <2>2. Tail(postQueue) \in Seq({"create", "delete"})
    BY <1>2, <2>1, HeadTailProperties
  <2> QED
    BY <2>1, <2>2 DEF AutoComment, CountAutoComment, PurgeComments, ListenerFails, Handled
<1>5. comments' \in Nat /\ slips' \in Nat /\ spent' \in Nat
  <2>1. comments \in Nat /\ slips \in Nat /\ spent \in Nat
    BY DEF TypeInv, TypeOK
  <2> QED
    BY <2>1 DEF AutoComment, CountAutoComment, PurgeComments, ListenerFails, Fault, mongoVars
<1>6. \A q \in Procs : HandlerOK(q)'
  BY <1>1, <1>3, HandlersUntouched DEF requestVars
<1>7. KnownOK'
  BY <1>1, <1>3, <1>6 DEF TypeInv, KnownOK, WorkerOK, sidecarVars, reindexVars
<1>8. TypeOK'
  BY <1>1, <1>3, <1>4, <1>5 DEF TypeInv, TypeOK, requestVars, sidecarVars, reindexVars
<1> QED
  BY <1>7, <1>8 DEF TypeInv

LEMMA StutterTypeInv == TypeInv /\ UNCHANGED vars => TypeInv'
BY DEF TypeInv, TypeOK, KnownOK, HandlerOK, WorkerOK, vars, mongoVars, requestVars,
       sidecarVars, reindexVars, listenerVars

LEMMA NextTypeInv == TypeInv /\ [Next]_vars => TypeInv'
<1> SUFFICES ASSUME TypeInv, [Next]_vars
             PROVE  TypeInv'
  OBVIOUS
<1>1. CASE UNCHANGED vars
  BY <1>1, StutterTypeInv
<1>2. ASSUME NEW p \in Procs, NEW o \in OpNames, Begin(p, o)
      PROVE  TypeInv'
  BY <1>2, BeginTypeInv
<1>3. ASSUME NEW p \in Procs, Request(p) \/ PublishFails(p)
      PROVE  TypeInv'
  BY <1>3, FindTypeInv, SaveTypeInv, TouchTypeInv, AuditTypeInv, PublishTypeInv,
     RefuseTypeInv DEF Request
<1>4. ASSUME NEW w \in Workers, Sync(w) \/ SyncFault(w)
      PROVE  TypeInv'
  BY <1>4, TakeTypeInv, LookUpTypeInv, CommandTypeInv DEF Sync, SyncFault
<1>5. CASE SidecarStops
  BY <1>5, SidecarStopsTypeInv
<1>6. CASE BeginReindex \/ Reindex \/ ReindexFails
  BY <1>6, ReindexTypeInv DEF Reindex
<1>7. CASE Listen \/ ListenerFails
  BY <1>7, ListenTypeInv DEF Listen
<1> QED
  BY <1>1, <1>2, <1>3, <1>4, <1>5, <1>6, <1>7 DEF Next

LEMMA AlwaysTypeInv == Spec => []TypeInv
<1>1. Init => TypeInv
  BY InitTypeInv
<1>2. TypeInv /\ [Next]_vars => TypeInv'
  BY NextTypeInv
<1> QED
  BY <1>1, <1>2, PTL DEF Spec

\* Post, index, events and everything in flight keep their types, and a handler,
\* worker or reindex never goes on with a post, event or text it does not have.
THEOREM PostTypeCorrect == Spec => []TypeOK
<1>1. TypeInv => TypeOK
  BY DEF TypeInv
<1> QED
  BY <1>1, AlwaysTypeInv, PTL

-----------------------------------------------------------------------------
(* OnlyPublishedTexts is not inductive: what a worker or a reindex is about to *)
(* write must have been published, too.  It comes from MongoDB, where a         *)
(* published post has a published text, or, when posts are not audited, from   *)
(* the event of a new post, which was published when it was saved.              *)

PostShown == Published(post) => post.text \in shown
DocsShown == \A w \in Workers : doc[w] # None => doc[w] \in shown
PageShown == page # None => page \in shown

EventShown(e) == e.type = "create" => e.text \in shown
QueueShown == ~audit => \A i \in 1..Len(queue) : EventShown(queue[i])
TakenShown == ~audit => \A w \in Workers : ~Free(w) => EventShown(ev[w])
SavedShown ==
    ~audit => \A p \in Procs :
        pc[p] = "publish" /\ op[p] = "create" => read[p].text \in shown

ShownInv ==
    /\ OnlyPublishedTexts /\ PostShown /\ DocsShown /\ PageShown
    /\ QueueShown /\ TakenShown /\ SavedShown

\* Storing a post keeps its text among the shown ones.
LEMMA StoreShown ==
  ASSUME NEW d, Store(d), ShownInv
  PROVE  shown \subseteq shown' /\ PostShown'
BY DEF Store, Published, PostShown

\* A new post that is not audited is published at once.
LEMMA CreateShown ==
  ASSUME TypeInv, ShownInv, NEW p \in Procs, CreatePost(p), ~audit
  PROVE  read'[p].text \in shown'
<1> DEFINE d == [text |-> lastText + 1, status |-> FirstStatus, deleted |-> FALSE,
                 commentCount |-> 0]
<1>1. Save(p, d)
  BY DEF CreatePost
<1>2. d \in PostDoc /\ d.status = 1 /\ ~d.deleted
  BY DEF PostDoc, FirstStatus, TypeInv, TypeOK
<1>3. d # None
  BY <1>2, PostAssumption
<1> HIDE DEF d
<1>4. read'[p] = d
  BY <1>1 DEF Save, TypeInv, TypeOK
<1> QED
  BY <1>1, <1>2, <1>3, <1>4 DEF Save, Store, Published

\* A handler writes MongoDB and its own variables, and publishes what it saved.
LEMMA RequestShown ==
  ASSUME TypeInv, ShownInv, NEW p \in Procs,
         Request(p) \/ PublishFails(p) \/ \E o \in OpNames : Begin(p, o)
  PROVE  ShownInv'
<1>1. UNCHANGED <<audit, es, at, ev, doc, page>>
  BY DEF Request, PublishFails, Begin, FindPost, CreatePost, UpdatePost, TouchPost, DeletePost,
         AuditPost, Publish, Refuse, sidecarVars, reindexVars
<1>2. shown \subseteq shown' /\ PostShown'
  <2>1. CASE \E d : Store(d)
    BY <2>1, StoreShown
  <2>2. CASE UNCHANGED mongoVars
    BY <2>2 DEF mongoVars, PostShown, ShownInv, Published
  <2> QED
    BY <2>1, <2>2 DEF Request, PublishFails, Begin, FindPost, CreatePost, UpdatePost, TouchPost,
       DeletePost, AuditPost, Publish, Refuse, Save
<1>3. OnlyPublishedTexts' /\ DocsShown' /\ PageShown' /\ TakenShown'
  BY <1>1, <1>2 DEF ShownInv, OnlyPublishedTexts, DocsShown, PageShown, TakenShown, EventShown, Free
<1>4. QueueShown'
  <2>1. CASE UNCHANGED queue
    BY <1>1, <1>2, <2>1 DEF ShownInv, QueueShown, EventShown
  <2>2. CASE Publish(p)
    <3> SUFFICES ASSUME ~audit, NEW i \in 1..Len(queue')
                 PROVE  EventShown(queue[i])'
      BY <1>1 DEF QueueShown
    <3>1. queue \in Seq(Event) /\ queue' = Append(queue, EventOf(p))
      BY <2>2 DEF Publish, TypeInv, TypeOK
    <3>2. Len(queue') = Len(queue) + 1 /\ Len(queue) \in Nat
      BY <3>1
    <3>3. CASE i \in 1..Len(queue)
      <4>1. queue'[i] = queue[i]
        BY <3>1, <3>3
      <4> QED
        BY <1>2, <3>3, <4>1 DEF ShownInv, QueueShown, EventShown
    <3>4. CASE i = Len(queue) + 1
      <4>1. queue'[i] = EventOf(p)
        BY <3>1, <3>4
      <4>2. op[p] \in OpNames /\ pc[p] = "publish"
        BY <2>2 DEF Publish, TypeInv, KnownOK, HandlerOK
      <4>3. EventOf(p).type = "create" => op[p] = "create" /\ EventOf(p).text = read[p].text
        BY DEF EventOf
      <4> QED
        BY <1>2, <4>1, <4>2, <4>3 DEF ShownInv, SavedShown, EventShown
    <3> QED
      BY <3>2, <3>3, <3>4
  <2> QED
    BY <2>1, <2>2 DEF Request, PublishFails, Begin, FindPost, CreatePost, UpdatePost, TouchPost,
       DeletePost, AuditPost, Refuse, sidecarVars
<1>5. SavedShown'
  <2> SUFFICES ASSUME ~audit, NEW q \in Procs, pc'[q] = "publish", op'[q] = "create"
               PROVE  read'[q].text \in shown'
    BY <1>1 DEF SavedShown
  <2>1. CASE q # p
    <3>1. pc'[q] = pc[q] /\ op'[q] = op[q] /\ read'[q] = read[q]
      BY <2>1 DEF Request, PublishFails, Begin, FindPost, CreatePost, UpdatePost, TouchPost,
         DeletePost, AuditPost, Publish, Refuse, Save, GoPublish, Reply, TypeInv, TypeOK
    <3> QED
      BY <1>2, <3>1 DEF ShownInv, SavedShown
  <2>2. CASE q = p
    <3>1. CreatePost(p)
      BY <2>2 DEF Request, PublishFails, Begin, FindPost, CreatePost, UpdatePost, TouchPost,
         DeletePost, AuditPost, Publish, Refuse, GoPublish, Reply, TypeInv, TypeOK
    <3> QED
      BY <2>2, <3>1, CreateShown
  <2> QED
    BY <2>1, <2>2
<1> QED
  BY <1>2, <1>3, <1>4, <1>5 DEF ShownInv

\* Elasticsearch, its workers and the reindex leave MongoDB and the handlers alone.
LEMMA IndexerShown ==
  ASSUME ShownInv, UNCHANGED <<audit, post, shown, pc, op, read>>,
         OnlyPublishedTexts', DocsShown', PageShown', QueueShown', TakenShown'
  PROVE  ShownInv'
BY DEF ShownInv, PostShown, SavedShown, Published

LEMMA EffectsShown ==
  ASSUME ShownInv
  PROVE  /\ \A t \in ReindexEffect : t # None => t \in shown
         /\ \A w \in Workers : \A t \in WorkerEffect(w) : t # None => t \in shown
BY DEF ShownInv, DocsShown, PageShown, ReindexEffect, WorkerEffect

LEMMA TakeShown ==
  ASSUME TypeInv, ShownInv, NEW w \in Workers, Take(w)
  PROVE  ShownInv'
<1> DEFINE e == Head(queue)
<1>1. queue \in Seq(Event) /\ queue # <<>> /\ queue' = Tail(queue)
  BY DEF Take, TypeInv, TypeOK
<1>2. /\ 1 \in 1..Len(queue) /\ e = queue[1]
      /\ Len(queue') = Len(queue) - 1 /\ Len(queue) \in Nat
      /\ \A i \in 1..Len(queue') : queue'[i] = queue[i + 1]
  BY <1>1, HeadTailProperties
<1>3. UNCHANGED <<audit, mongoVars, es, requestVars, reindexVars, listenerVars>>
  BY DEF Take
<1>4. ~audit => EventShown(e)
  BY <1>2 DEF ShownInv, QueueShown
<1>5. QueueShown'
  <2> SUFFICES ASSUME ~audit, NEW i \in 1..Len(queue')
               PROVE  EventShown(queue[i])'
    BY <1>3 DEF QueueShown
  <2>1. queue'[i] = queue[i + 1] /\ i + 1 \in 1..Len(queue)
    BY <1>2
  <2>2. EventShown(queue[i + 1])
    BY <2>1 DEF ShownInv, QueueShown
  <2> QED
    BY <1>3, <2>1, <2>2 DEF EventShown, mongoVars
<1>6. DocsShown'
  <2>1. Route(e) = "index" => e.type = "create" /\ ~audit
    BY DEF Route
  <2>2. doc'[w] # None => doc'[w] \in shown
    BY <1>4, <2>1 DEF Take, EventShown, TypeInv, TypeOK
  <2>3. \A v \in Workers : v # w => doc'[v] = doc[v]
    BY DEF Take, TypeInv, TypeOK
  <2> QED
    BY <1>3, <2>2, <2>3 DEF ShownInv, DocsShown, mongoVars
<1>7. TakenShown'
  <2> SUFFICES ASSUME ~audit, NEW v \in Workers, at'[v] # "idle"
               PROVE  EventShown(ev[v])'
    BY <1>3 DEF TakenShown, Free
  <2>1. CASE v = w
    <3>1. ev'[v] = e
      BY <2>1 DEF Take, TypeInv, TypeOK
    <3> QED
      BY <1>3, <1>4, <3>1 DEF EventShown, mongoVars
  <2>2. CASE v # w
    <3>1. ev'[v] = ev[v] /\ at'[v] = at[v]
      BY <2>2 DEF Take, TypeInv, TypeOK
    <3> QED
      BY <1>3, <3>1 DEF ShownInv, TakenShown, Free, EventShown, mongoVars
  <2> QED
    BY <2>1, <2>2
<1> QED
  BY <1>3, <1>5, <1>6, <1>7, IndexerShown
     DEF ShownInv, OnlyPublishedTexts, PageShown, mongoVars, requestVars, reindexVars

\* The other steps of a worker.  What MongoDB says of a published post was shown.
LEMMA WorkerShown ==
  ASSUME TypeInv, ShownInv, NEW w \in Workers, Sync(w) \/ SyncFault(w), ~Take(w)
  PROVE  ShownInv'
<1>1. UNCHANGED <<audit, mongoVars, requestVars, queue, reindexVars>>
  BY DEF Sync, SyncFault, LookUp, LookUpFails, IndexEs, IndexAgain, DeleteEs, DeadLetter, sidecarVars
<1>2. OnlyPublishedTexts'
  <2>1. es' \in {es} \cup WorkerEffect(w)
    BY DEF Sync, SyncFault, LookUp, LookUpFails, IndexEs, IndexAgain, DeleteEs, DeadLetter,
       WorkerEffect
  <2> QED
    BY <1>1, <2>1, EffectsShown DEF ShownInv, OnlyPublishedTexts, mongoVars
<1>3. \A v \in Workers : v # w => at'[v] = at[v] /\ ev'[v] = ev[v] /\ doc'[v] = doc[v]
  BY DEF Sync, SyncFault, LookUp, LookUpFails, IndexEs, IndexAgain, DeleteEs, DeadLetter, Ack,
     sidecarVars, TypeInv, TypeOK
<1>4. \/ at'[w] = "idle" /\ doc'[w] = None
      \/ /\ at[w] # "idle" /\ ev'[w] = ev[w]
         /\ doc'[w] = doc[w] \/ (Published(post) /\ doc'[w] = post.text)
  BY DEF Sync, SyncFault, LookUp, LookUpFails, IndexEs, IndexAgain, DeleteEs, DeadLetter, Ack,
     sidecarVars, TypeInv, TypeOK
<1>5. DocsShown'
  BY <1>1, <1>3, <1>4 DEF ShownInv, DocsShown, PostShown, mongoVars
<1>6. TakenShown'
  BY <1>1, <1>3, <1>4 DEF ShownInv, TakenShown, Free, EventShown, mongoVars
<1>7. QueueShown' /\ PageShown'
  BY <1>1 DEF ShownInv, QueueShown, EventShown, PageShown, mongoVars, reindexVars
<1> QED
  BY <1>1, <1>2, <1>5, <1>6, <1>7, IndexerShown DEF mongoVars, requestVars

LEMMA SidecarStopsShown == TypeInv /\ ShownInv /\ SidecarStops => ShownInv'
<1> SUFFICES ASSUME TypeInv, ShownInv, SidecarStops
             PROVE  ShownInv'
  OBVIOUS
<1>1. UNCHANGED <<audit, mongoVars, requestVars>>
  BY DEF SidecarStops
<1>2. OnlyPublishedTexts'
  BY <1>1, EffectsShown DEF SidecarStops, ShownInv, OnlyPublishedTexts, mongoVars
<1>3. DocsShown' /\ PageShown' /\ TakenShown'
  BY DEF SidecarStops, DocsShown, PageShown, TakenShown, Free
<1>4. QueueShown'
  <2> SUFFICES ASSUME ~audit, NEW i \in 1..Len(queue')
               PROVE  EventShown(queue[i])'
    BY <1>1 DEF QueueShown
  <2>1. PICK s \in Orders(Busy) : queue' = [j \in DOMAIN s |-> ev[s[j]]] \o queue
    BY DEF SidecarStops
  <2> DEFINE n == Cardinality(Busy)
             e == [j \in DOMAIN s |-> ev[s[j]]]
  <2>2. n \in Nat
    BY PostAssumption, FS_Subset, FS_CardinalityType DEF Busy
  <2>3. s \in [1..n -> Busy]
    BY DEF Orders
  <2>4. \A b \in Busy : ev[b] \in Event /\ EventShown(ev[b])
    BY DEF Busy, Free, ShownInv, TakenShown, TypeInv, KnownOK, WorkerOK
  <2>5. e \in [1..n -> Event] /\ \A j \in 1..n : e[j] = ev[s[j]]
    BY <2>3, <2>4
  <2>6. e \in Seq(Event) /\ Len(e) = n
    BY <2>2, <2>5, SeqDef
  <2>7. queue \in Seq(Event)
    BY DEF TypeInv, TypeOK
  <2>8. \A j \in 1..n : EventShown(e[j])
    BY <2>3, <2>4, <2>5
  <2> HIDE DEF e, n
  <2>9. EventShown(queue'[i])
    <3>1. queue' = e \o queue
      BY <2>1 DEF e
    <3>2. CASE i \in 1..n
      BY <2>6, <2>7, <2>8, <3>1, <3>2, ConcatProperties
    <3>3. CASE i \notin 1..n
      <4>1. queue'[i] = queue[i - n] /\ i - n \in 1..Len(queue)
        BY <2>2, <2>6, <2>7, <3>1, <3>3, ConcatProperties
      <4> QED
        BY <4>1 DEF ShownInv, QueueShown
    <3> QED
      BY <3>2, <3>3
  <2> QED
    BY <1>1, <2>9 DEF EventShown, mongoVars
<1> QED
  BY <1>1, <1>2, <1>3, <1>4, IndexerShown DEF mongoVars, requestVars

LEMMA ReindexShown ==
  ASSUME ShownInv, BeginReindex \/ Reindex \/ ReindexFails
  PROVE  ShownInv'
<1>1. UNCHANGED <<audit, mongoVars, requestVars, sidecarVars>>
  BY DEF Reindex, BeginReindex, ClearEsIndex, ScanPosts, WritePage, ReindexFails
<1>2. es' = es \/ es' \in ReindexEffect
  BY DEF Reindex, BeginReindex, ClearEsIndex, ScanPosts, WritePage, ReindexFails, ReindexEffect
<1>3. page' = None \/ page' = page \/ (Published(post) /\ page' = post.text)
  BY DEF Reindex, BeginReindex, ClearEsIndex, ScanPosts, WritePage, ReindexFails, FinishReindex
<1>4. OnlyPublishedTexts'
  BY <1>1, <1>2, EffectsShown DEF ShownInv, OnlyPublishedTexts, mongoVars
<1>5. PageShown'
  BY <1>1, <1>3 DEF ShownInv, PageShown, PostShown, mongoVars
<1>6. DocsShown' /\ QueueShown' /\ TakenShown'
  BY <1>1 DEF ShownInv, DocsShown, QueueShown, TakenShown, Free, EventShown, mongoVars, sidecarVars
<1> QED
  BY <1>1, <1>4, <1>5, <1>6, IndexerShown DEF mongoVars, requestVars

\* The listener counts comments and changes nothing of the post's text and status.
LEMMA ListenShown ==
  ASSUME TypeInv, ShownInv, Listen \/ ListenerFails
  PROVE  ShownInv'
<1>1. UNCHANGED <<audit, shown, es, requestVars, sidecarVars, reindexVars>>
  BY DEF Listen, AutoComment, CountAutoComment, PurgeComments, ListenerFails, mongoVars
<1>2. PostShown'
  <2>1. CASE CountAutoComment
    <3>1. post \in PostDoc
      BY <2>1 DEF CountAutoComment, AtEvent, TypeInv, KnownOK
    <3>2. post # None
      BY <3>1, PostAssumption
    <3>3. post'.status = post.status /\ post'.deleted = post.deleted /\ post'.text = post.text
      BY <2>1, <3>1 DEF CountAutoComment, PostDoc
    <3> QED
      BY <1>1, <3>2, <3>3 DEF ShownInv, PostShown, Published
  <2>2. CASE UNCHANGED post
    BY <1>1, <2>2 DEF ShownInv, PostShown, Published
  <2> QED
    BY <2>1, <2>2 DEF Listen, AutoComment, PurgeComments, ListenerFails, mongoVars
<1> QED
  BY <1>1, <1>2 DEF ShownInv, OnlyPublishedTexts, DocsShown, PageShown, QueueShown, TakenShown,
     SavedShown, Free, EventShown, requestVars, sidecarVars, reindexVars

LEMMA NextShown == TypeInv /\ ShownInv /\ [Next]_vars => ShownInv'
<1> SUFFICES ASSUME TypeInv, ShownInv, [Next]_vars
             PROVE  ShownInv'
  OBVIOUS
<1>1. CASE UNCHANGED vars
  BY <1>1 DEF ShownInv, OnlyPublishedTexts, PostShown, Published, DocsShown, PageShown, QueueShown,
              TakenShown, SavedShown, Free, EventShown, vars, mongoVars, requestVars, sidecarVars,
              reindexVars
<1>2. ASSUME NEW p \in Procs,
             Request(p) \/ PublishFails(p) \/ \E o \in OpNames : Begin(p, o)
      PROVE  ShownInv'
  BY <1>2, RequestShown
<1>3. ASSUME NEW w \in Workers, Sync(w) \/ SyncFault(w)
      PROVE  ShownInv'
  BY <1>3, TakeShown, WorkerShown
<1>4. CASE SidecarStops
  BY <1>4, SidecarStopsShown
<1>5. CASE BeginReindex \/ Reindex \/ ReindexFails
  BY <1>5, ReindexShown
<1>6. CASE Listen \/ ListenerFails
  BY <1>6, ListenShown
<1> QED
  BY <1>1, <1>2, <1>3, <1>4, <1>5, <1>6 DEF Next

LEMMA InitShown == Init => ShownInv
BY DEF Init, ShownInv, OnlyPublishedTexts, PostShown, Published, DocsShown, PageShown, QueueShown,
       TakenShown, SavedShown, Free

\* No text gets into the search index that was never published, for any number of
\* requests, workers and reindexes, and whatever fails.
THEOREM IndexShowsPublished == Spec => []OnlyPublishedTexts
<1>1. Init => ShownInv
  BY InitShown
<1>2. TypeInv /\ ShownInv /\ [Next]_vars => ShownInv'
  BY NextShown
<1>3. ShownInv => OnlyPublishedTexts
  BY DEF ShownInv
<1> QED
  BY <1>1, <1>2, <1>3, AlwaysTypeInv, PTL DEF Spec

-----------------------------------------------------------------------------
(* Requests that do not overlap.  A request at work is alone, the listener has *)
(* nothing to do, and what the request knows of the post is still so.  The     *)
(* listener has one event at most, of what became of the post last.            *)

Alone(p) == \A q \in Procs : ~Idle(q) => q = p

AtWork(p) ==
    /\ Alone(p) /\ postQueue = <<>>
    /\ op[p] = "create" /\ pc[p] # "publish" => post = None
    /\ pc[p] = "save" /\ op[p] # "create" => read[p] = post
    /\ pc[p] = "save" /\ op[p] \in {"update", "delete"} => ~post.deleted
    /\ pc[p] = "publish" /\ op[p] = "create" => read[p] = post /\ ~post.deleted
    /\ pc[p] = "publish" /\ op[p] = "delete" => post.deleted

ListenerInv ==
    /\ Len(postQueue) <= 1
    /\ postQueue # <<>> /\ Head(postQueue) = "create" => ~post.deleted
    /\ postQueue # <<>> /\ Head(postQueue) = "delete" => post.deleted
    /\ step = "count" => postQueue # <<>> /\ Head(postQueue) = "create"

TurnInv ==
    /\ \A p \in Procs : ~Idle(p) => AtWork(p)
    /\ ListenerInv

\* A handler's step leaves the others idle.
LEMMA TurnKept ==
  ASSUME TypeInv, TurnInv, NEW p \in Procs, ~Idle(p), NEW s, NEW o, NEW r,
         pc' = [pc EXCEPT ![p] = s], op' = [op EXCEPT ![p] = o], read' = [read EXCEPT ![p] = r],
         postQueue' = postQueue, step' = step,
         o = "create" /\ s \notin {"idle", "publish"} => post' = None,
         s = "save" /\ o # "create" => r = post',
         s = "save" /\ o \in {"update", "delete"} => ~post'.deleted,
         s = "publish" /\ o = "create" => r = post' /\ ~post'.deleted,
         s = "publish" /\ o = "delete" => post'.deleted
  PROVE  TurnInv'
<1>1. AtWork(p)
  BY DEF TurnInv
<1>2. \A q \in Procs : ~Idle(q)' => q = p
  BY <1>1 DEF AtWork, Alone, Idle, TypeInv, TypeOK
<1>3. pc'[p] = s /\ op'[p] = o /\ read'[p] = r
  BY DEF TypeInv, TypeOK
<1>4. ~Idle(p)' => AtWork(p)'
  BY <1>1, <1>2, <1>3 DEF AtWork, Alone, Idle
<1>5. step' # "count" /\ postQueue' = <<>>
  BY <1>1 DEF AtWork, TurnInv, ListenerInv
<1> QED
  BY <1>2, <1>4, <1>5 DEF TurnInv, ListenerInv

LEMMA BeginTurn ==
  ASSUME Overlap = FALSE, TypeInv, TurnInv, NEW p \in Procs, NEW o \in OpNames, Begin(p, o)
  PROVE  TurnInv'
<1>1. postQueue = <<>> /\ \A q \in Procs : Idle(q)
  BY DEF Begin, CommentsSettled
<1>2. UNCHANGED <<post, read, postQueue, step>>
  BY DEF Begin, mongoVars, listenerVars
<1>3. \A q \in Procs : ~Idle(q)' => q = p
  BY <1>1 DEF Begin, Idle, TypeInv, TypeOK
<1>4. op'[p] = o /\ pc'[p] = IF o = "create" THEN "save" ELSE "find"
  BY DEF Begin, TypeInv, TypeOK
<1>5. o = "create" => post' = None
  BY <1>2 DEF Begin
<1>6. AtWork(p)'
  BY <1>1, <1>2, <1>3, <1>4, <1>5 DEF AtWork, Alone
<1>7. step' # "count" /\ postQueue' = <<>>
  BY <1>1, <1>2 DEF TurnInv, ListenerInv
<1> QED
  BY <1>3, <1>6, <1>7 DEF TurnInv, ListenerInv

\* The post a request saves.
LEMMA SavedPost ==
  ASSUME TypeInv, TurnInv, NEW p \in Procs
  PROVE  /\ CreatePost(p) => post' = [text |-> lastText + 1, status |-> FirstStatus,
                                       deleted |-> FALSE, commentCount |-> 0]
         /\ UpdatePost(p) => post' = [post EXCEPT !.text = lastText + 1, !.status = FirstStatus]
         /\ DeletePost(p) => post' = [post EXCEPT !.deleted = TRUE]
         /\ TouchPost(p) => post' = post
BY DEF CreatePost, UpdatePost, DeletePost, TouchPost, Save, Store, TurnInv, AtWork, Idle

LEMMA RequestTurn ==
  ASSUME TypeInv, TurnInv, NEW p \in Procs, Request(p) \/ PublishFails(p)
  PROVE  TurnInv'
<1>1. AtWork(p) /\ ~Idle(p) /\ HandlerOK(p)
  BY DEF Request, PublishFails, FindPost, CreatePost, UpdatePost, TouchPost, DeletePost,
         AuditPost, Publish, Refuse, TurnInv, Idle, TypeInv, KnownOK
<1>2. /\ op' = op => op' = [op EXCEPT ![p] = op[p]]
      /\ read' = read => read' = [read EXCEPT ![p] = read[p]]
  BY DEF TypeInv, TypeOK
<1>3. CASE FindPost(p)
  <2>1. /\ pc' = [pc EXCEPT ![p] = "save"] /\ read' = [read EXCEPT ![p] = post]
        /\ UNCHANGED <<post, op, postQueue, step>> /\ pc[p] = "find"
        /\ op[p] # "audit" => ~post.deleted
    BY <1>3 DEF FindPost, mongoVars, listenerVars
  <2>2. op[p] = "create" => post = None
    BY <1>1, <2>1 DEF AtWork
  <2> QED
    BY <1>1, <1>2, <2>1, <2>2, TurnKept
<1>4. CASE CreatePost(p) \/ UpdatePost(p) \/ DeletePost(p)
  <2>1. /\ pc' = [pc EXCEPT ![p] = "publish"] /\ read' = [read EXCEPT ![p] = post']
        /\ UNCHANGED <<op, postQueue, step>>
    BY <1>4 DEF CreatePost, UpdatePost, DeletePost, Save, Store, GoPublish, listenerVars
  <2>2. op[p] = "create" => ~post'.deleted
    <3>1. op[p] = "create" => CreatePost(p)
      BY <1>4 DEF UpdatePost, DeletePost
    <3> QED
      BY <3>1, SavedPost
  <2>3. op[p] = "delete" => post'.deleted
    <3>1. op[p] = "delete" => DeletePost(p) /\ post \in PostDoc
      BY <1>1, <1>4 DEF CreatePost, UpdatePost, DeletePost, HandlerOK
    <3> QED
      BY <3>1, SavedPost DEF PostDoc
  <2> QED
    BY <1>1, <1>2, <2>1, <2>2, <2>3, TurnKept
<1>5. CASE Reply(p) /\ UNCHANGED <<postQueue, step>>
  <2>1. \A q \in Procs : Idle(q)'
    BY <1>1, <1>5 DEF Reply, AtWork, Alone, Idle, TypeInv, TypeOK
  <2>2. postQueue' = <<>> /\ step' # "count"
    BY <1>1, <1>5 DEF AtWork, TurnInv, ListenerInv
  <2> QED
    BY <2>1, <2>2 DEF TurnInv, ListenerInv
<1>6. CASE AuditPost(p) /\ ~Reply(p)
  <2>1. /\ pc' = [pc EXCEPT ![p] = "publish"] /\ op' = op /\ read' = read
        /\ postQueue' = postQueue /\ step' = step
        /\ op[p] \notin {"create", "delete"}
    BY <1>6 DEF AuditPost, GoPublish, listenerVars
  <2>2. op' = [op EXCEPT ![p] = op[p]] /\ read' = [read EXCEPT ![p] = read[p]]
    BY <1>2, <2>1
  <2> DEFINE o == op[p]
             r == read[p]
  <2>3. /\ op' = [op EXCEPT ![p] = o] /\ read' = [read EXCEPT ![p] = r]
        /\ o # "create" /\ o # "delete"
    BY <2>1, <2>2
  <2> HIDE DEF o, r
  <2> QED
    BY <1>1, <2>1, <2>3, TurnKept
<1>7. CASE Publish(p)
  <2>1. /\ step' = step /\ post' = post /\ pc[p] = "publish"
        /\ postQueue' = IF op[p] \in {"create", "delete"} THEN Append(postQueue, op[p])
                        ELSE postQueue
    BY <1>7 DEF Publish, mongoVars
  <2>2. \A q \in Procs : Idle(q)'
    BY <1>1, <1>7 DEF Publish, Reply, AtWork, Alone, Idle, TypeInv, TypeOK
  <2>3. CASE op[p] \in {"create", "delete"}
    <3>1. postQueue' = <<op[p]>>
      BY <1>1, <2>1, <2>3 DEF AtWork
    <3>2. Len(postQueue') = 1 /\ postQueue' # <<>> /\ Head(postQueue') = op[p]
      BY <3>1
    <3>3. step' # "count"
      BY <1>1, <2>1 DEF AtWork, TurnInv, ListenerInv
    <3>4. /\ op[p] = "create" => ~post'.deleted
          /\ op[p] = "delete" => post'.deleted
      BY <1>1, <2>1 DEF AtWork
    <3> QED
      BY <2>2, <3>2, <3>3, <3>4 DEF TurnInv, ListenerInv
  <2>4. CASE op[p] \notin {"create", "delete"}
    BY <2>1, <2>2, <2>4 DEF TurnInv, ListenerInv
  <2> QED
    BY <2>3, <2>4
<1> QED
  BY <1>3, <1>4, <1>5, <1>6, <1>7
     DEF Request, PublishFails, TouchPost, AuditPost, Refuse, listenerVars

LEMMA SidecarTurn ==
  ASSUME TurnInv, UNCHANGED <<post, pc, op, read, postQueue, step>>
  PROVE  TurnInv'
BY DEF TurnInv, AtWork, Alone, Idle, ListenerInv

LEMMA ListenTurn ==
  ASSUME TypeInv, TurnInv, Listen \/ ListenerFails
  PROVE  TurnInv'
<1>1. postQueue # <<>> /\ UNCHANGED <<pc, op, read>>
  BY DEF Listen, ListenerFails, AutoComment, CountAutoComment, PurgeComments, AtEvent, requestVars
<1>2. \A p \in Procs : Idle(p)'
  BY <1>1 DEF TurnInv, AtWork, Idle
<1>3. postQueue \in Seq({"create", "delete"}) /\ post \in PostDoc
  BY <1>1 DEF TypeInv, TypeOK, KnownOK
<1>4. post'.deleted = post.deleted
  BY <1>3 DEF Listen, ListenerFails, AutoComment, CountAutoComment, PurgeComments, mongoVars, PostDoc
<1>5. CASE Handled
  <2>1. postQueue' = <<>> /\ step' = "start"
    <3>1. Len(postQueue) = 1
      <4>1. Len(postQueue) \in Nat /\ Len(postQueue) # 0
        BY <1>1, <1>3
      <4>2. Len(postQueue) <= 1
        BY DEF TurnInv, ListenerInv
      <4>3. \A n \in Nat : n # 0 /\ n <= 1 => n = 1
        OBVIOUS
      <4> QED
        BY <4>1, <4>2, <4>3
    <3>2. Tail(postQueue) \in Seq({"create", "delete"}) /\ Len(Tail(postQueue)) = 0
      BY <1>1, <1>3, <3>1, HeadTailProperties
    <3> QED
      BY <1>5, <3>2 DEF Handled
  <2> QED
    BY <1>2, <2>1 DEF TurnInv, ListenerInv
<1>6. CASE postQueue' = postQueue /\ (step' = "start" \/ Head(postQueue) = "create")
  BY <1>1, <1>2, <1>4, <1>6 DEF TurnInv, ListenerInv
<1> QED
  BY <1>5, <1>6 DEF Listen, ListenerFails, AutoComment, CountAutoComment, PurgeComments, AtEvent

LEMMA NextTurn ==
  ASSUME Overlap = FALSE
  PROVE  TypeInv /\ TurnInv /\ [Next]_vars => TurnInv'
<1> SUFFICES ASSUME TypeInv, TurnInv, [Next]_vars
             PROVE  TurnInv'
  OBVIOUS
<1>1. CASE UNCHANGED vars
  BY <1>1, SidecarTurn DEF vars, mongoVars, requestVars, listenerVars
<1>2. ASSUME NEW p \in Procs, NEW o \in OpNames, Begin(p, o)
      PROVE  TurnInv'
  BY <1>2, BeginTurn
<1>3. ASSUME NEW p \in Procs, Request(p) \/ PublishFails(p)
      PROVE  TurnInv'
  BY <1>3, RequestTurn
<1>4. ASSUME UNCHANGED <<mongoVars, requestVars, listenerVars>>
      PROVE  TurnInv'
  BY <1>4, SidecarTurn DEF mongoVars, requestVars, listenerVars
<1>5. ASSUME NEW w \in Workers, Sync(w) \/ SyncFault(w)
      PROVE  TurnInv'
  BY <1>4, <1>5 DEF Sync, SyncFault, Take, LookUp, LookUpFails, IndexEs, IndexAgain, DeleteEs,
     DeadLetter
<1>6. CASE SidecarStops \/ BeginReindex \/ Reindex \/ ReindexFails
  BY <1>4, <1>6 DEF SidecarStops, Reindex, BeginReindex, ClearEsIndex, ScanPosts, WritePage,
     ReindexFails
<1>7. CASE Listen \/ ListenerFails
  BY <1>7, ListenTurn
<1> QED
  BY <1>1, <1>2, <1>3, <1>5, <1>6, <1>7 DEF Next

LEMMA InitTurn == Init => TurnInv
BY DEF Init, TurnInv, ListenerInv, Idle

-----------------------------------------------------------------------------
(* Comments and their count.  The listener stores a comment before it counts   *)
(* it; a deleted post keeps its comments until the event of its deletion is    *)
(* handled.                                                                    *)

Uncounted == IF step = "count" THEN 1 ELSE 0

PurgeDue == postQueue # <<>> \/ \E p \in Procs : pc[p] = "publish" /\ op[p] = "delete"

CountInv ==
    /\ post = None => comments = 0
    /\ post \in PostDoc /\ ~post.deleted =>
          /\ post.commentCount + Uncounted <= comments + slips
          /\ comments <= post.commentCount + Uncounted + slips
    /\ post \in PostDoc /\ post.deleted /\ slips = 0 => comments = 0 \/ PurgeDue

LEMMA CountTypes ==
  ASSUME TypeInv
  PROVE  /\ comments \in Nat /\ slips \in Nat /\ Uncounted \in {0, 1}
         /\ post \in PostDoc => post.commentCount \in Nat /\ post # None
         /\ post # None => post \in PostDoc
BY PostAssumption DEF TypeInv, TypeOK, PostDoc, Uncounted

\* A post that keeps its count, its comments and whether it is deleted.
LEMMA CountKept ==
  ASSUME TypeInv, CountInv, post \in PostDoc,
         post'.commentCount = post.commentCount, post'.deleted = post.deleted, post' # None,
         comments' = comments, step' = step, slips' = slips \/ slips' = slips + 1,
         PurgeDue /\ slips' = slips => PurgeDue'
  PROVE  CountInv'
<1>1. Uncounted' = Uncounted
  BY DEF Uncounted
<1>2. CASE slips' = slips
  BY <1>1, <1>2 DEF CountInv
<1>3. CASE slips' = slips + 1
  <2>1. slips' # 0
    BY <1>3, CountTypes
  <2>2. ~post.deleted => /\ post.commentCount + Uncounted <= comments + slips'
                         /\ comments <= post.commentCount + Uncounted + slips'
    <3>1. ~post.deleted => /\ post.commentCount + Uncounted <= comments + slips
                           /\ comments <= post.commentCount + Uncounted + slips
      BY DEF CountInv
    <3> QED
      BY <1>3, <3>1, CountTypes
  <2> QED
    BY <1>1, <2>1, <2>2 DEF CountInv
<1> QED
  BY <1>2, <1>3

LEMMA RequestCount ==
  ASSUME TypeInv, TypeInv', TurnInv, CountInv, NEW p \in Procs, Request(p) \/ PublishFails(p)
  PROVE  CountInv'
<1>1. AtWork(p) /\ ~Idle(p) /\ HandlerOK(p)
  BY DEF Request, PublishFails, FindPost, CreatePost, UpdatePost, TouchPost, DeletePost,
         AuditPost, Publish, Refuse, TurnInv, Idle, TypeInv, KnownOK
<1>2. comments' = comments /\ step' = step /\ (slips' = slips \/ slips' = slips + 1)
  BY DEF Request, PublishFails, FindPost, CreatePost, UpdatePost, TouchPost, DeletePost,
         AuditPost, Publish, Refuse, mongoVars, listenerVars
<1>3. postQueue = <<>> /\ step # "count"
  BY <1>1 DEF AtWork, TurnInv, ListenerInv
<1>4. PurgeDue => pc[p] = "publish" /\ op[p] = "delete"
  BY <1>1, <1>3 DEF PurgeDue, AtWork, Alone, Idle
<1>5. PurgeDue /\ slips' = slips => PurgeDue'
  <2> SUFFICES ASSUME pc[p] = "publish", op[p] = "delete", slips' = slips
               PROVE  PurgeDue'
    BY <1>4
  <2>1. slips' # slips + 1
    BY CountTypes
  <2>2. Publish(p)
    BY <2>1 DEF Request, PublishFails, FindPost, CreatePost, UpdatePost, TouchPost, DeletePost,
         AuditPost, Refuse
  <2>3. postQueue' = Append(postQueue, "delete")
    BY <2>2 DEF Publish
  <2>4. postQueue' # <<>>
    BY <1>3, <2>3
  <2> QED
    BY <2>4 DEF PurgeDue
<1>6. CASE CreatePost(p)
  <2>1. post = None /\ slips' = slips
    BY <1>1, <1>6 DEF CreatePost, AtWork, listenerVars
  <2>2. post'.commentCount = 0 /\ ~post'.deleted
    BY <1>6, SavedPost
  <2>3. comments' = 0 /\ Uncounted' = 0
    BY <1>2, <1>3, <2>1 DEF CountInv, Uncounted
  <2>4. post' # None
    BY <1>6, SavedTypes, PostAssumption
  <2>5. slips' \in Nat
    BY <2>1, CountTypes
  <2>6. /\ post'.commentCount + Uncounted' <= comments' + slips'
        /\ comments' <= post'.commentCount + Uncounted' + slips'
    <3>1. \A s \in Nat : 0 + 0 <= 0 + s /\ 0 <= 0 + 0 + s
      OBVIOUS
    <3>2. post'.commentCount = 0 /\ Uncounted' = 0 /\ comments' = 0
      BY <2>2, <2>3
    <3> QED
      BY <2>5, <3>1, <3>2
  <2> QED
    BY <2>2, <2>4, <2>6 DEF CountInv
<1>7. CASE UpdatePost(p) \/ TouchPost(p) \/ AuditPost(p)
  <2>1. post \in PostDoc
    BY <1>1, <1>7 DEF UpdatePost, TouchPost, AuditPost, HandlerOK
  <2>2. post'.commentCount = post.commentCount /\ post'.deleted = post.deleted
    <3>1. CASE UpdatePost(p) \/ TouchPost(p)
      BY <2>1, <3>1, SavedPost DEF PostDoc
    <3>2. CASE AuditPost(p)
      BY <2>1, <3>2 DEF AuditPost, Store, PostDoc
    <3> QED
      BY <1>7, <3>1, <3>2
  <2>3. post' # None
    <3>1. post' \in PostDoc
      <4>1. CASE UpdatePost(p)
        BY <4>1, SavedTypes
      <4>2. CASE TouchPost(p)
        BY <2>1, <4>2, SavedPost
      <4>3. CASE AuditPost(p)
        BY <2>1, <4>3 DEF AuditPost, Store, Verdicts, PostDoc
      <4> QED
        BY <1>7, <4>1, <4>2, <4>3
    <3> QED
      BY <3>1, PostAssumption
  <2> QED
    BY <1>2, <1>5, <2>1, <2>2, <2>3, CountKept
<1>8. CASE DeletePost(p)
  <2>1. pc'[p] = "publish" /\ op'[p] = "delete"
    BY <1>8 DEF DeletePost, GoPublish, TypeInv, TypeOK
  <2>2. PurgeDue'
    BY <2>1 DEF PurgeDue
  <2>3. post' \in PostDoc /\ post'.deleted
    <3>1. post \in PostDoc
      BY <1>1, <1>8 DEF DeletePost, HandlerOK
    <3> QED
      BY <1>8, <3>1, SavedPost, SavedTypes DEF PostDoc
  <2>4. post' # None
    BY <2>3, PostAssumption
  <2> QED
    BY <2>2, <2>3, <2>4 DEF CountInv
<1>9. CASE UNCHANGED post
  <2>1. CASE post \in PostDoc
    BY <1>2, <1>5, <1>9, <2>1, CountTypes, CountKept
  <2>2. CASE post \notin PostDoc
    <3>1. post = None
      BY <2>2, CountTypes
    <3> QED
      BY <1>2, <1>9, <2>2, <3>1 DEF CountInv
  <2> QED
    BY <2>1, <2>2
<1> QED
  BY <1>6, <1>7, <1>8, <1>9 DEF Request, PublishFails, FindPost, Publish, Refuse, mongoVars

LEMMA ListenCount ==
  ASSUME TypeInv, TurnInv, CountInv, Listen \/ ListenerFails
  PROVE  CountInv'
<1>1. postQueue # <<>> /\ post \in PostDoc /\ post # None
  BY CountTypes DEF Listen, ListenerFails, AutoComment, CountAutoComment, PurgeComments, AtEvent,
     TypeInv, KnownOK
<1> DEFINE c == post.commentCount
<1>2. comments \in Nat /\ slips \in Nat /\ c \in Nat /\ slips' \in Nat
  BY <1>1, CountTypes DEF Listen, ListenerFails, AutoComment, CountAutoComment, PurgeComments
<1>3. ~post.deleted => /\ c + Uncounted <= comments + slips
                       /\ comments <= c + Uncounted + slips
  BY <1>1 DEF CountInv
<1>4. CASE AutoComment \/ CountAutoComment
  <2>1. ~post.deleted /\ slips' = slips
    BY <1>1, <1>4 DEF AutoComment, CountAutoComment, AtEvent, TurnInv, ListenerInv
  <2>2. ~post'.deleted /\ post' # None
    <3>1. CASE AutoComment
      BY <1>1, <2>1, <3>1 DEF AutoComment
    <3>2. CASE CountAutoComment
      <4>1. post' \in PostDoc /\ post'.deleted = post.deleted
        BY <1>1, <3>2 DEF CountAutoComment, PostDoc
      <4> QED
        BY <2>1, <4>1, PostAssumption
    <3> QED
      BY <1>4, <3>1, <3>2
  <2>3. \/ post'.commentCount = c /\ comments' = comments + 1 /\ Uncounted = 0 /\ Uncounted' = 1
        \/ post'.commentCount = c /\ comments' = comments /\ Uncounted = 0 /\ Uncounted' = 0
        \/ post'.commentCount = c + 1 /\ comments' = comments /\ Uncounted = 1 /\ Uncounted' = 0
    <3>1. CASE AutoComment
      BY <3>1 DEF AutoComment, AtEvent, Handled, Uncounted
    <3>2. CASE CountAutoComment
      BY <1>1, <3>2 DEF CountAutoComment, AtEvent, Handled, Uncounted, PostDoc
    <3> QED
      BY <1>4, <3>1, <3>2
  <2>4. post'.commentCount + Uncounted' <= comments' + slips'
        /\ comments' <= post'.commentCount + Uncounted' + slips'
    <3> HIDE DEF c
    <3> QED
      BY <1>2, <1>3, <2>1, <2>3
  <2> QED
    BY <2>2, <2>4 DEF CountInv
<1>5. CASE PurgeComments
  <2>1. post.deleted /\ post' = post /\ comments' = 0
    BY <1>1, <1>5 DEF PurgeComments, AtEvent, TurnInv, ListenerInv
  <2> QED
    BY <1>1, <2>1 DEF CountInv
<1>6. CASE ListenerFails
  <2>1. slips' = slips + 1 /\ post' = post /\ comments' = comments /\ Uncounted' = 0
    BY <1>6 DEF ListenerFails, Handled, Uncounted, mongoVars
  <2>2. slips' # 0
    BY <1>2, <2>1
  <2>3. ~post.deleted => /\ c <= comments + slips'
                         /\ comments <= c + slips'
    <3> HIDE DEF c
    <3> QED
      BY <1>2, <1>3, <2>1, CountTypes
  <2>4. c + Uncounted' = c
    BY <1>2, <2>1
  <2> QED
    BY <1>1, <2>1, <2>2, <2>3, <2>4 DEF CountInv
<1> QED
  BY <1>4, <1>5, <1>6 DEF Listen

LEMMA SidecarCount ==
  ASSUME CountInv, UNCHANGED <<post, comments, slips, pc, op, postQueue, step>>
  PROVE  CountInv'
BY DEF CountInv, Uncounted, PurgeDue

LEMMA NextCount ==
  ASSUME Overlap = FALSE
  PROVE  TypeInv /\ TurnInv /\ CountInv /\ [Next]_vars => CountInv'
<1> SUFFICES ASSUME TypeInv, TurnInv, CountInv, [Next]_vars
             PROVE  CountInv'
  OBVIOUS
<1>0. TypeInv'
  BY NextTypeInv
<1>1. CASE UNCHANGED vars
  BY <1>1, SidecarCount DEF vars, mongoVars, requestVars, listenerVars
<1>2. ASSUME NEW p \in Procs, NEW o \in OpNames, Begin(p, o)
      PROVE  CountInv'
  <2>1. postQueue = <<>> /\ \A q \in Procs : Idle(q)
    BY <1>2 DEF Begin, CommentsSettled
  <2>2. ~PurgeDue
    BY <2>1 DEF PurgeDue, Idle
  <2>3. UNCHANGED <<post, comments, slips, step>>
    BY <1>2 DEF Begin, mongoVars, listenerVars
  <2> QED
    BY <2>2, <2>3 DEF CountInv, Uncounted
<1>3. ASSUME NEW p \in Procs, Request(p) \/ PublishFails(p)
      PROVE  CountInv'
  BY <1>0, <1>3, RequestCount
<1>4. ASSUME UNCHANGED <<mongoVars, requestVars, listenerVars>>
      PROVE  CountInv'
  BY <1>4, SidecarCount DEF mongoVars, requestVars, listenerVars
<1>5. ASSUME NEW w \in Workers, Sync(w) \/ SyncFault(w)
      PROVE  CountInv'
  BY <1>4, <1>5 DEF Sync, SyncFault, Take, LookUp, LookUpFails, IndexEs, IndexAgain, DeleteEs,
     DeadLetter
<1>6. CASE SidecarStops \/ BeginReindex \/ Reindex \/ ReindexFails
  BY <1>4, <1>6 DEF SidecarStops, Reindex, BeginReindex, ClearEsIndex, ScanPosts, WritePage,
     ReindexFails
<1>7. CASE Listen \/ ListenerFails
  BY <1>7, ListenCount
<1> QED
  BY <1>1, <1>2, <1>3, <1>5, <1>6, <1>7 DEF Next

LEMMA AlwaysTurn ==
  ASSUME Overlap = FALSE
  PROVE  Spec => [](TypeInv /\ TurnInv)
<1>1. TypeInv /\ TurnInv /\ [Next]_vars => TurnInv'
  BY NextTurn
<1> QED
  BY <1>1, InitTurn, AlwaysTypeInv, PTL DEF Spec

\* Where requests do not overlap each other and the listener, a post that is not
\* deleted counts its comments, and a deleted one has none, once the listener is
\* through; every fault puts the count wrong by one at most.  Whatever the sidecar,
\* the reindex and the auditing do.
THEOREM CommentsAreCounted ==
  ASSUME Overlap = FALSE
  PROVE  Spec => []CommentsCounted
<1>1. Init => CountInv
  BY PostAssumption DEF Init, CountInv
<1>2. TypeInv /\ TurnInv /\ CountInv /\ [Next]_vars => CountInv'
  BY NextCount
<1>3. TypeInv /\ TurnInv /\ CountInv => CommentsCounted
  <2> SUFFICES ASSUME TypeInv, TurnInv, CountInv, Settled, post # None
               PROVE  IF post.deleted THEN slips = 0 => comments = 0
                      ELSE post.commentCount - comments \in -slips..slips
    BY DEF CommentsCounted
  <2>1. postQueue = <<>> /\ step # "count" /\ \A p \in Procs : pc[p] = "idle"
    BY DEF Settled, CommentsSettled, Idle, TurnInv, ListenerInv
  <2>2. ~PurgeDue /\ Uncounted = 0 /\ post \in PostDoc
    BY <2>1, CountTypes DEF PurgeDue, Uncounted
  <2>3. CASE post.deleted
    BY <2>2, <2>3 DEF CountInv
  <2>4. CASE ~post.deleted
    <3>1. post.commentCount <= comments + slips /\ comments <= post.commentCount + slips
      BY <2>2, <2>4, CountTypes DEF CountInv
    <3> QED
      BY <2>2, <2>4, <3>1, CountTypes
  <2> QED
    BY <2>3, <2>4
<1> QED
  BY <1>1, <1>2, <1>3, AlwaysTurn, PTL DEF Spec

-----------------------------------------------------------------------------
(* The index and the post.  Where only posts that wait for it are audited, a   *)
(* post that is not audited never waits, and what an audit found stays so.     *)

StatusInv ==
    /\ ~audit /\ post \in PostDoc => post.status # 0
    /\ \A p \in Procs : op[p] = "audit" /\ pc[p] \in {"find", "save"} => post.status = 0

\* Others do not audit while p is at work.
LEMMA StatusKept ==
  ASSUME TypeInv, TurnInv, StatusInv, NEW p \in Procs, ~Idle(p),
         \A q \in Procs : q # p => pc'[q] = pc[q],
         audit' = audit, ~audit /\ post' \in PostDoc => post'.status # 0,
         op'[p] = "audit" /\ pc'[p] \in {"find", "save"} => post'.status = 0
  PROVE  StatusInv'
BY DEF StatusInv, TurnInv, AtWork, Alone, Idle

LEMMA RequestStatus ==
  ASSUME TypeInv, TurnInv, StatusInv, NEW p \in Procs, Request(p) \/ PublishFails(p)
  PROVE  StatusInv'
<1>1. AtWork(p) /\ ~Idle(p) /\ HandlerOK(p)
  BY DEF Request, PublishFails, FindPost, CreatePost, UpdatePost, TouchPost, DeletePost,
         AuditPost, Publish, Refuse, TurnInv, Idle, TypeInv, KnownOK
<1>2. audit' = audit
  BY DEF Request, PublishFails, FindPost, CreatePost, UpdatePost, TouchPost, DeletePost,
         AuditPost, Publish, Refuse
<1>3. \A q \in Procs : q # p => pc'[q] = pc[q]
  BY DEF Request, PublishFails, FindPost, CreatePost, UpdatePost, TouchPost, DeletePost,
         AuditPost, Publish, Refuse, Reply, GoPublish, TypeInv, TypeOK
<1>4. CASE UNCHANGED post
  <2>1. op'[p] = "audit" /\ pc'[p] \in {"find", "save"} => post'.status = 0
    <3>1. \/ pc'[p] = "idle" \/ pc'[p] = "publish"
          \/ pc[p] = "find" /\ op'[p] = op[p]
      BY DEF Request, PublishFails, FindPost, CreatePost, UpdatePost, TouchPost, DeletePost,
         AuditPost, Publish, Refuse, Reply, GoPublish, TypeInv, TypeOK
    <3> QED
      BY <1>4, <3>1 DEF StatusInv
  <2>2. ~audit /\ post' \in PostDoc => post'.status # 0
    BY <1>4 DEF StatusInv
  <2> QED
    BY <1>1, <1>2, <1>3, <2>1, <2>2, StatusKept
<1>5. CASE CreatePost(p) \/ UpdatePost(p) \/ TouchPost(p) \/ DeletePost(p) \/ AuditPost(p)
  <2>1. pc'[p] \notin {"find", "save"}
    BY <1>5 DEF CreatePost, UpdatePost, TouchPost, DeletePost, AuditPost, Reply, GoPublish, TypeInv,
       TypeOK
  <2>2. ~CreatePost(p) => post \in PostDoc
    BY <1>1, <1>5 DEF UpdatePost, TouchPost, DeletePost, AuditPost, HandlerOK
  <2>3. ~audit => post'.status # 0
    <3> SUFFICES ASSUME ~audit
                 PROVE  post'.status # 0
      OBVIOUS
    <3>1. CASE CreatePost(p)
      BY <3>1, SavedPost DEF FirstStatus
    <3>2. CASE UpdatePost(p)
      <4>1. post \in PostDoc /\ post' = [post EXCEPT !.text = lastText + 1, !.status = 1]
        BY <2>2, <3>2, SavedPost DEF FirstStatus, UpdatePost, CreatePost
      <4> QED
        BY <4>1 DEF PostDoc
    <3>3. CASE TouchPost(p) \/ DeletePost(p)
      <4>1. post \in PostDoc
        BY <1>1, <3>3 DEF TouchPost, DeletePost, HandlerOK
      <4>2. post'.status = post.status
        BY <3>3, <4>1, SavedPost DEF PostDoc
      <4> QED
        BY <4>1, <4>2 DEF StatusInv
    <3>4. CASE AuditPost(p)
      BY <1>1, <3>4 DEF AuditPost, Store, Verdicts, PostDoc, HandlerOK
    <3> QED
      BY <1>5, <3>1, <3>2, <3>3, <3>4
  <2> QED
    BY <1>1, <1>2, <1>3, <2>1, <2>3, StatusKept
<1> QED
  BY <1>4, <1>5 DEF Request, PublishFails, FindPost, Publish, Refuse, mongoVars

LEMMA NextStatus ==
  ASSUME PendingOnly, Overlap = FALSE
  PROVE  TypeInv /\ TurnInv /\ StatusInv /\ [Next]_vars => StatusInv'
<1> SUFFICES ASSUME TypeInv, TurnInv, StatusInv, [Next]_vars
             PROVE  StatusInv'
  OBVIOUS
<1>1. ASSUME UNCHANGED <<audit, post, pc, op>>
      PROVE  StatusInv'
  BY <1>1 DEF StatusInv
<1>2. CASE UNCHANGED vars
  BY <1>1, <1>2 DEF vars, mongoVars, requestVars
<1>3. ASSUME NEW p \in Procs, NEW o \in OpNames, Begin(p, o)
      PROVE  StatusInv'
  <2>1. /\ audit' = audit /\ post' = post /\ op' = [op EXCEPT ![p] = o]
        /\ \A q \in Procs : q # p => pc'[q] = "idle"
        /\ o = "audit" => post.status = 0
    BY <1>3 DEF Begin, mongoVars, Idle, TypeInv, TypeOK
  <2>2. op'[p] = o
    BY <2>1 DEF TypeInv, TypeOK
  <2> QED
    BY <2>1, <2>2 DEF StatusInv
<1>4. ASSUME NEW p \in Procs, Request(p) \/ PublishFails(p)
      PROVE  StatusInv'
  BY <1>4, RequestStatus
<1>5. ASSUME NEW w \in Workers, Sync(w) \/ SyncFault(w)
      PROVE  StatusInv'
  BY <1>1, <1>5 DEF Sync, SyncFault, Take, LookUp, LookUpFails, IndexEs, IndexAgain, DeleteEs,
     DeadLetter, mongoVars, requestVars
<1>6. CASE SidecarStops \/ BeginReindex \/ Reindex \/ ReindexFails
  BY <1>1, <1>6 DEF SidecarStops, Reindex, BeginReindex, ClearEsIndex, ScanPosts, WritePage,
     ReindexFails, mongoVars, requestVars
<1>7. CASE Listen \/ ListenerFails
  <2>1. UNCHANGED <<audit, pc, op>>
    BY <1>7 DEF Listen, ListenerFails, AutoComment, CountAutoComment, PurgeComments, requestVars
  <2>2. post \in PostDoc /\ post'.status = post.status
    BY <1>7 DEF Listen, ListenerFails, AutoComment, CountAutoComment, PurgeComments, AtEvent,
       mongoVars, TypeInv, KnownOK, PostDoc
  <2> QED
    BY <2>1, <2>2 DEF StatusInv
<1> QED
  BY <1>2, <1>3, <1>4, <1>5, <1>6, <1>7 DEF Next

-----------------------------------------------------------------------------
(* A reindex runs while nothing else does.                                     *)

QuietInv ==
    /\ scan # "idle" => IndexSettled /\ CommentsSettled /\ \A p \in Procs : Idle(p)
    /\ scan = "scan" => es = None
    /\ scan = "write" => page = Visible(post)

LEMMA NextQuiet ==
  ASSUME QuietReindex
  PROVE  TypeInv /\ QuietInv /\ [Next]_vars => QuietInv'
<1> SUFFICES ASSUME TypeInv, QuietInv, [Next]_vars
             PROVE  QuietInv'
  OBVIOUS
<1>1. CASE UNCHANGED vars
  BY <1>1 DEF vars, mongoVars, requestVars, sidecarVars, reindexVars, listenerVars, QuietInv,
     IndexSettled, CommentsSettled, Idle, Free, Visible, Published
<1>2. ASSUME scan = "idle", scan' = "idle"
      PROVE  QuietInv'
  BY <1>2 DEF QuietInv
<1>3. ASSUME NEW p \in Procs, NEW o \in OpNames, Begin(p, o)
      PROVE  QuietInv'
  BY <1>2, <1>3 DEF Begin, reindexVars
<1>4. ASSUME NEW p \in Procs, Request(p) \/ PublishFails(p)
      PROVE  QuietInv'
  <2>1. ~Idle(p) /\ scan' = scan
    BY <1>4 DEF Request, PublishFails, FindPost, CreatePost, UpdatePost, TouchPost, DeletePost,
       AuditPost, Publish, Refuse, Idle, reindexVars
  <2> QED
    BY <1>2, <2>1 DEF QuietInv
<1>5. ASSUME NEW w \in Workers, Sync(w) \/ SyncFault(w)
      PROVE  QuietInv'
  <2>1. (~Free(w) \/ queue # <<>>) /\ scan' = scan
    BY <1>5 DEF Sync, SyncFault, Take, LookUp, LookUpFails, IndexEs, IndexAgain, DeleteEs,
       DeadLetter, Free, reindexVars
  <2> QED
    BY <1>2, <2>1 DEF QuietInv, IndexSettled
<1>6. CASE SidecarStops \/ ReindexFails
  BY <1>6 DEF SidecarStops, ReindexFails, QuietInv
<1>7. CASE Listen \/ ListenerFails
  <2>1. postQueue # <<>> /\ scan' = scan
    BY <1>7 DEF Listen, ListenerFails, AutoComment, CountAutoComment, PurgeComments, AtEvent,
       reindexVars
  <2> QED
    BY <1>2, <2>1 DEF QuietInv, CommentsSettled
<1>8. CASE BeginReindex \/ Reindex
  <2>1. UNCHANGED <<post, queue, at, postQueue, pc>>
    BY <1>8 DEF BeginReindex, Reindex, ClearEsIndex, ScanPosts, WritePage, mongoVars, sidecarVars,
       listenerVars, requestVars
  <2>2. IndexSettled /\ CommentsSettled /\ \A p \in Procs : Idle(p)
    BY <1>8 DEF BeginReindex, Reindex, ClearEsIndex, ScanPosts, WritePage, Settled, QuietInv
  <2>3. IndexSettled' /\ CommentsSettled' /\ \A p \in Procs : Idle(p)'
    BY <2>1, <2>2 DEF IndexSettled, CommentsSettled, Idle, Free
  <2>4. scan' = "scan" => es' = None
    BY <1>8 DEF BeginReindex, Reindex, ClearEsIndex, ScanPosts, WritePage, FinishReindex
  <2>5. scan' = "write" => page' = Visible(post)
    BY <1>8 DEF BeginReindex, Reindex, ClearEsIndex, ScanPosts, WritePage, FinishReindex, Visible
  <2> QED
    BY <2>1, <2>3, <2>4, <2>5 DEF QuietInv, Visible, Published
<1> QED
  BY <1>1, <1>3, <1>4, <1>5, <1>6, <1>7, <1>8 DEF Next

-----------------------------------------------------------------------------
(* What the index will say when all that is in flight has been done is decided *)
(* by the last event that the sidecar does not skip: it makes the index what    *)
(* the post is, or asks MongoDB.  An event fits the visible text v if it does.  *)

Fits(e, v) == /\ e.type = "create" => v = e.text
              /\ e.type = "delete" => v = None

Matters(e) == Route(e) # "idle"

Announcing(p) == pc[p] = "publish" /\ Matters(EventOf(p))

\* Nothing that matters is to come from the i-th event in the queue on.
Rest(i) == /\ \A p \in Procs : ~Announcing(p)
           /\ \A j \in 1..Len(queue) : j >= i => ~Matters(queue[j])

AnnouncedFits == \A p \in Procs : Announcing(p) => Fits(EventOf(p), Visible(post))

QueueFits ==
    \A i \in 1..Len(queue) : Matters(queue[i]) /\ Rest(i + 1) => Fits(queue[i], Visible(post))

WorkerFits ==
    \A w \in Workers : ~Free(w) /\ Rest(1) =>
        /\ Fits(ev[w], Visible(post))
        /\ at[w] = "index" => doc[w] = Visible(post)
        /\ at[w] = "remove" => Visible(post) = None

EsFits == (\A w \in Workers : Free(w)) /\ Rest(1) => es = Visible(post)

FitInv == AnnouncedFits /\ QueueFits /\ WorkerFits /\ EsFits

\* A worker keeps no event it skips, and what is in flight fits unless a change was
\* missed or a reindex is under way.
FollowInv ==
    /\ \A w \in Workers : ~Free(w) => Matters(ev[w])
    /\ ~broken /\ scan = "idle" => FitInv

\* Where nothing happens to what is visible, nor to events and workers.
LEMMA FitKept ==
  ASSUME FitInv, UNCHANGED <<audit, es, queue, at, ev, doc>>, Visible(post)' = Visible(post),
         \A p \in Procs : ~Announcing(p) /\ ~Announcing(p)'
  PROVE  FitInv'
<1>1. \A i : Rest(i)' <=> Rest(i)
  BY DEF Rest, Matters, Route
<1>2. AnnouncedFits'
  BY DEF AnnouncedFits
<1>3. QueueFits'
  BY <1>1 DEF FitInv, QueueFits, Matters, Route
<1>4. WorkerFits' /\ EsFits'
  BY <1>1 DEF FitInv, WorkerFits, EsFits, Free
<1> QED
  BY <1>2, <1>3, <1>4 DEF FitInv

\* What a request makes of the post is announced, or it is nothing that anybody sees.
LEMMA RequestFits ==
  ASSUME TypeInv, TypeInv', TurnInv, StatusInv, NEW p \in Procs, Request(p), ~Publish(p)
  PROVE  /\ \A q \in Procs : ~Announcing(q)
         /\ \/ Visible(post)' = Visible(post) /\ \A q \in Procs : ~Announcing(q)'
            \/ Announcing(p)' /\ AnnouncedFits'
<1>1. AtWork(p) /\ ~Idle(p) /\ HandlerOK(p) /\ pc[p] # "publish"
  BY DEF Request, FindPost, CreatePost, UpdatePost, TouchPost, DeletePost,
         AuditPost, Publish, Refuse, TurnInv, Idle, TypeInv, KnownOK
<1>2. \A q \in Procs : ~Announcing(q)
  BY <1>1 DEF AtWork, Alone, Idle, Announcing
<1>3. audit' = audit /\ \A q \in Procs : q # p => pc'[q] = pc[q]
  BY DEF Request, FindPost, CreatePost, UpdatePost, TouchPost, DeletePost,
         AuditPost, Publish, Refuse, Reply, GoPublish, TypeInv, TypeOK
<1>4. \A q \in Procs : q # p => ~Announcing(q)'
  BY <1>1, <1>3 DEF AtWork, Alone, Idle, Announcing
<1>5. CASE Reply(p) \/ FindPost(p)
  <2>1. ~Announcing(p)'
    BY <1>5 DEF Reply, FindPost, Announcing, TypeInv, TypeOK
  <2>2. Visible(post)' = Visible(post)
    <3>1. CASE UNCHANGED post
      BY <3>1 DEF Visible, Published
    <3>2. CASE TouchPost(p)
      BY <3>2, SavedPost DEF Visible, Published
    <3>3. CASE AuditPost(p)
      <4>1. post \in PostDoc /\ post.status = 0
        BY <1>1, <3>3 DEF AuditPost, HandlerOK, StatusInv
      <4>2. PICK s \in Verdicts : post' = [post EXCEPT !.status = s] /\ s # 1
        <5>1. pc'[p] = "idle"
          BY <1>5, <3>3 DEF Reply, FindPost, AuditPost, TypeInv, TypeOK
        <5> QED
          BY <3>3, <5>1 DEF AuditPost, Store, GoPublish, TypeInv, TypeOK
      <4>3. post'.status # 1
        BY <4>1, <4>2 DEF PostDoc
      <4> QED
        BY <4>1, <4>3 DEF Visible, Published
    <3> QED
      BY <1>5, <3>1, <3>2, <3>3
         DEF Request, FindPost, CreatePost, UpdatePost, DeletePost, Publish, Refuse, mongoVars,
         GoPublish, Reply, TypeInv, TypeOK
  <2> QED
    BY <1>2, <1>4, <2>1, <2>2
<1>6. CASE ~Reply(p) /\ ~FindPost(p)
  <2>1. CreatePost(p) \/ UpdatePost(p) \/ DeletePost(p) \/ AuditPost(p)
    BY <1>6 DEF Request, TouchPost, Publish, Refuse
  <2>2. pc'[p] = "publish" /\ op'[p] = op[p]
    BY <1>6, <2>1 DEF CreatePost, UpdatePost, DeletePost, AuditPost, GoPublish, TypeInv, TypeOK
  <2>3. post' \in PostDoc /\ post' # None
    <3>1. post' \in PostDoc
      BY <2>2 DEF TypeInv, KnownOK, HandlerOK
    <3> QED
      BY <3>1, PostAssumption
  <2>4. CASE CreatePost(p)
    <3>1. /\ read'[p] = post' /\ op[p] = "create" /\ post = None
          /\ post'.status = FirstStatus /\ ~post'.deleted
      BY <1>1, <2>4, SavedPost DEF CreatePost, Save, Store, AtWork, TypeInv, TypeOK
    <3>2. EventOf(p)'.type = "create" /\ EventOf(p)'.text = post'.text
      BY <2>2, <3>1 DEF EventOf
    <3>3. CASE audit
      <4>1. ~Announcing(p)'
        BY <1>3, <3>2, <3>3 DEF Announcing, Matters, Route
      <4>2. post'.status = 0
        BY <3>1, <3>3 DEF FirstStatus
      <4>3. Visible(post)' = Visible(post)
        BY <3>1, <4>2 DEF Visible, Published
      <4> QED
        BY <1>2, <1>4, <4>1, <4>3
    <3>4. CASE ~audit
      <4>1. Visible(post)' = post'.text
        BY <2>3, <3>1, <3>4 DEF Visible, Published, FirstStatus
      <4>2. Announcing(p)'
        BY <1>3, <2>2, <3>2, <3>4 DEF Announcing, Matters, Route
      <4>3. Fits(EventOf(p)', Visible(post)')
        BY <3>2, <4>1 DEF Fits
      <4>4. AnnouncedFits'
        BY <1>4, <4>3 DEF AnnouncedFits
      <4> QED
        BY <1>2, <4>2, <4>4
    <3> QED
      BY <3>3, <3>4
  <2>5. CASE UpdatePost(p)
    <3>1. EventOf(p)'.type = "update"
      BY <2>2, <2>5 DEF EventOf, UpdatePost
    <3>2. Announcing(p)'
      BY <2>2, <3>1 DEF Announcing, Matters, Route
    <3>3. Fits(EventOf(p)', Visible(post)')
      BY <3>1 DEF Fits
    <3> QED
      BY <1>2, <1>4, <3>2, <3>3 DEF AnnouncedFits
  <2>6. CASE DeletePost(p)
    <3>1. EventOf(p)'.type = "delete"
      BY <2>2, <2>6 DEF EventOf, DeletePost
    <3>2. Announcing(p)'
      BY <2>2, <3>1 DEF Announcing, Matters, Route
    <3>3. Visible(post)' = None
      <4>1. post \in PostDoc
        BY <1>1, <2>6 DEF DeletePost, HandlerOK
      <4>2. post'.deleted
        BY <2>6, <4>1, SavedPost DEF PostDoc
      <4> QED
        BY <4>2 DEF Visible, Published
    <3>4. Fits(EventOf(p)', Visible(post)')
      BY <3>1, <3>3 DEF Fits
    <3> QED
      BY <1>2, <1>4, <3>2, <3>4 DEF AnnouncedFits
  <2>7. CASE AuditPost(p)
    <3>1. post \in PostDoc /\ post.status = 0
      BY <1>1, <2>7 DEF AuditPost, HandlerOK, StatusInv
    <3>2. audit
      BY <3>1 DEF StatusInv
    <3>3. EventOf(p)'.type = "pass"
      BY <2>2, <2>7 DEF EventOf, AuditPost
    <3>4. Announcing(p)'
      BY <1>3, <2>2, <3>2, <3>3 DEF Announcing, Matters, Route
    <3>5. Fits(EventOf(p)', Visible(post)')
      BY <3>3 DEF Fits
    <3> QED
      BY <1>2, <1>4, <3>4, <3>5 DEF AnnouncedFits
  <2> QED
    BY <2>1, <2>4, <2>5, <2>6, <2>7
<1> QED
  BY <1>5, <1>6

LEMMA RequestFollow ==
  ASSUME TypeInv, TypeInv', TurnInv, StatusInv, FollowInv, NEW p \in Procs,
         (Request(p) /\ ~Publish(p)) \/ PublishFails(p) \/ \E o \in OpNames : Begin(p, o)
  PROVE  FollowInv'
<1>1. UNCHANGED <<audit, es, queue, at, ev, doc, scan>>
  BY DEF Request, PublishFails, Begin, FindPost, CreatePost, UpdatePost, TouchPost, DeletePost,
         AuditPost, Publish, Refuse, sidecarVars, reindexVars
<1>2. \A w \in Workers : ~Free(w)' => Matters(ev[w])'
  BY <1>1 DEF FollowInv, Free, Matters, Route
<1>3. CASE PublishFails(p)
  <2>1. broken' = TRUE
    BY <1>3 DEF PublishFails
  <2> QED
    BY <1>2, <2>1 DEF FollowInv
<1>4. CASE \E o \in OpNames : Begin(p, o)
  <2>1. PICK o \in OpNames : Begin(p, o)
    BY <1>4
  <2>2. /\ pc[p] = "idle" /\ pc'[p] # "publish" /\ post' = post /\ broken' = broken
        /\ \A q \in Procs : q # p => pc'[q] = pc[q]
        /\ Overlap \/ \A q \in Procs : pc[q] # "publish"
    BY <2>1 DEF Begin, Idle, mongoVars, TypeInv, TypeOK
  <2>3. Visible(post)' = Visible(post)
    BY <2>2 DEF Visible, Published
  <2>4. \A q \in Procs : q # p => (Announcing(q)' <=> Announcing(q))
    <3>1. read' = read /\ op' = [op EXCEPT ![p] = o]
      BY <2>1 DEF Begin
    <3>2. \A q \in Procs : q # p => op'[q] = op[q]
      BY <3>1 DEF TypeInv, TypeOK
    <3> QED
      BY <1>1, <2>2, <3>1, <3>2 DEF Announcing, Matters, Route, EventOf
  <2>5. ~Announcing(p) /\ ~Announcing(p)'
    BY <2>2 DEF Announcing
  <2>6. CASE \A q \in Procs : ~Announcing(q)
    BY <1>1, <1>2, <2>2, <2>3, <2>4, <2>5, <2>6, FitKept DEF FollowInv
  <2>7. CASE \E q \in Procs : Announcing(q)
    <3>1. PICK q \in Procs : Announcing(q)
      BY <2>7
    <3>2. q # p /\ Announcing(q)'
      BY <2>4, <2>5, <3>1
    <3>3. \A i : ~Rest(i)'
      BY <3>2 DEF Rest
    <3>4. QueueFits' /\ WorkerFits' /\ EsFits'
      BY <3>3 DEF QueueFits, WorkerFits, EsFits
    <3>5. \A r \in Procs : r # p => EventOf(r)' = EventOf(r)
      BY <2>1 DEF Begin, EventOf, TypeInv, TypeOK
    <3>6. AnnouncedFits => AnnouncedFits'
      BY <2>3, <2>4, <2>5, <3>5 DEF AnnouncedFits
    <3> QED
      BY <1>1, <1>2, <2>2, <3>4, <3>6 DEF FollowInv, FitInv
  <2> QED
    BY <2>6, <2>7
<1>5. CASE Request(p) /\ ~Publish(p)
  <2>1. broken' = broken
    BY <1>5 DEF Request, FindPost, CreatePost, UpdatePost, TouchPost, DeletePost, AuditPost, Refuse
  <2>2. CASE Visible(post)' = Visible(post) /\ \A q \in Procs : ~Announcing(q)'
    <3>1. FitInv => FitInv'
      BY <1>1, <1>5, <2>2, RequestFits, FitKept
    <3> QED
      BY <1>1, <1>2, <2>1, <3>1 DEF FollowInv
  <2>3. CASE Announcing(p)' /\ AnnouncedFits'
    <3>1. \A i : ~Rest(i)'
      BY <2>3 DEF Rest
    <3>2. QueueFits' /\ WorkerFits' /\ EsFits'
      BY <3>1 DEF QueueFits, WorkerFits, EsFits
    <3> QED
      BY <1>2, <2>3, <3>2 DEF FollowInv, FitInv
  <2> QED
    BY <1>5, <2>2, <2>3, RequestFits
<1> QED
  BY <1>3, <1>4, <1>5

\* The event a request publishes is the last in the queue.
LEMMA PublishFollow ==
  ASSUME TypeInv, TurnInv, FollowInv, NEW p \in Procs, Publish(p)
  PROVE  FollowInv'
<1>1. UNCHANGED <<audit, post, es, at, ev, doc, scan, broken>>
  BY DEF Publish, mongoVars, reindexVars
<1>2. \A w \in Workers : ~Free(w)' => Matters(ev[w])'
  BY <1>1 DEF FollowInv, Free, Matters, Route
<1>3. \A q \in Procs : Idle(q)'
  BY DEF Publish, Reply, TurnInv, AtWork, Alone, Idle, TypeInv, TypeOK
<1>4. \A q \in Procs : ~Announcing(q)'
  BY <1>3 DEF Announcing, Idle
<1>5. \A q \in Procs : q # p => ~Announcing(q)
  BY DEF Publish, TurnInv, AtWork, Alone, Idle, Announcing
<1>6. Visible(post)' = Visible(post) /\ \A e : Matters(e)' <=> Matters(e)
  BY <1>1 DEF Visible, Published, Matters, Route
<1> DEFINE e == EventOf(p)
<1>7. queue \in Seq(Event) /\ queue' = Append(queue, e)
  BY DEF Publish, TypeInv, TypeOK
<1> HIDE DEF e
<1>8. /\ Len(queue) \in Nat /\ Len(queue') = Len(queue) + 1 /\ queue'[Len(queue) + 1] = e
      /\ \A i \in 1..Len(queue) : queue'[i] = queue[i]
  BY <1>7
<1> SUFFICES ASSUME FitInv
             PROVE  FitInv'
  BY <1>1, <1>2 DEF FollowInv
<1>9. Matters(e) => Fits(e, Visible(post))
  BY DEF FitInv, AnnouncedFits, Announcing, Publish, e
<1>10. \A i \in Nat : i <= Len(queue) + 1 /\ Rest(i)' => Rest(i) /\ ~Matters(e)
  <2> SUFFICES ASSUME NEW i \in Nat, i <= Len(queue) + 1, Rest(i)'
               PROVE  Rest(i) /\ ~Matters(e)
    OBVIOUS
  <2>1. \A j \in 1..Len(queue') : j >= i => ~Matters(queue'[j])
    BY <1>6 DEF Rest
  <2>2. ~Matters(e)
    <3>1. Len(queue) + 1 \in 1..Len(queue') /\ Len(queue) + 1 >= i
      BY <1>8
    <3> QED
      BY <1>8, <2>1, <3>1
  <2>3. \A q \in Procs : ~Announcing(q)
    BY <1>5, <2>2 DEF Announcing, e
  <2>4. \A j \in 1..Len(queue) : j >= i => ~Matters(queue[j])
    <3> SUFFICES ASSUME NEW j \in 1..Len(queue), j >= i
                 PROVE  ~Matters(queue[j])
      OBVIOUS
    <3>1. j \in 1..Len(queue')
      BY <1>8
    <3> QED
      BY <1>8, <2>1, <3>1
  <2> QED
    BY <2>2, <2>3, <2>4 DEF Rest
<1>11. AnnouncedFits'
  BY <1>4 DEF AnnouncedFits
<1>12. QueueFits'
  <2> SUFFICES ASSUME NEW i \in 1..Len(queue'), Matters(queue'[i]), Rest(i + 1)'
               PROVE  Fits(queue'[i], Visible(post))
    BY <1>6 DEF QueueFits
  <2>1. CASE i \in 1..Len(queue)
    <3>1. Rest(i + 1) /\ Matters(queue[i]) /\ queue'[i] = queue[i]
      BY <1>8, <1>10, <2>1
    <3> QED
      BY <2>1, <3>1 DEF FitInv, QueueFits
  <2>2. CASE i = Len(queue) + 1
    BY <1>8, <1>9, <2>2
  <2> QED
    BY <1>8, <2>1, <2>2
<1>13. Rest(1)' => Rest(1)
  BY <1>8, <1>10
<1>14. WorkerFits' /\ EsFits'
  BY <1>1, <1>6, <1>13 DEF FitInv, WorkerFits, EsFits, Free
<1> QED
  BY <1>11, <1>12, <1>14 DEF FitInv

\* An event is taken by a worker or skipped.
LEMMA TakeFollow ==
  ASSUME \A v, w \in Workers : v = w,
         TypeInv, FollowInv, NEW w \in Workers, Take(w)
  PROVE  FollowInv'
<1>1. UNCHANGED <<audit, post, es, pc, op, read, scan, broken>>
  BY DEF Take, mongoVars, requestVars, reindexVars
<1>2. \A q \in Procs : Announcing(q)' <=> Announcing(q)
  BY <1>1 DEF Announcing, Matters, Route, EventOf
<1>3. Visible(post)' = Visible(post) /\ \A e : Matters(e)' <=> Matters(e)
  BY <1>1 DEF Visible, Published, Matters, Route
<1> DEFINE e == Head(queue)
           s == Route(e)
<1>4. queue \in Seq(Event) /\ queue # <<>> /\ queue' = Tail(queue) /\ Free(w)
  BY DEF Take, TypeInv, TypeOK
<1>5. /\ at'[w] = s
      /\ s # "idle" => ev'[w] = e
      /\ s = "index" => doc'[w] = e.text
  BY DEF Take, TypeInv, TypeOK
<1>6. /\ 1 \in 1..Len(queue) /\ e = queue[1] /\ Len(queue') = Len(queue) - 1
      /\ Len(queue) \in Nat
      /\ \A i \in 1..Len(queue') : queue'[i] = queue[i + 1]
  BY <1>4, HeadTailProperties
<1>7. /\ Matters(e) <=> s # "idle"
      /\ s = "index" => e.type = "create"
      /\ s = "remove" => e.type = "delete"
  BY DEF Matters, Route
<1> HIDE DEF e, s
<1>8. \A v \in Workers : ~Free(v)' => Matters(ev[v])'
  BY <1>3, <1>5, <1>7 DEF Free
<1> SUFFICES ASSUME FitInv
             PROVE  FitInv'
  BY <1>1, <1>8 DEF FollowInv
<1>9. \A i \in Nat : i >= 1 /\ Rest(i)' => Rest(i + 1)
  <2> SUFFICES ASSUME NEW i \in Nat, i >= 1, Rest(i)'
               PROVE  Rest(i + 1)
    OBVIOUS
  <2>1. \A j \in 1..Len(queue') : j >= i => ~Matters(queue'[j])
    BY <1>3 DEF Rest
  <2> SUFFICES ASSUME NEW j \in 1..Len(queue), j >= i + 1
               PROVE  ~Matters(queue[j])
    BY <1>2 DEF Rest
  <2>2. j - 1 \in 1..Len(queue') /\ j - 1 >= i /\ (j - 1) + 1 = j
    BY <1>6
  <2>3. queue'[j - 1] = queue[j]
    BY <1>6, <2>2
  <2> QED
    BY <2>1, <2>2, <2>3
<1>10. AnnouncedFits'
  BY <1>1, <1>2, <1>3 DEF FitInv, AnnouncedFits, EventOf
<1>11. QueueFits'
  <2> SUFFICES ASSUME NEW i \in 1..Len(queue'), Matters(queue'[i]), Rest(i + 1)'
               PROVE  Fits(queue'[i], Visible(post))
    BY <1>3 DEF QueueFits
  <2>1. i + 1 \in 1..Len(queue) /\ queue'[i] = queue[i + 1]
    BY <1>6
  <2>2. Rest((i + 1) + 1)
    BY <1>9
  <2> QED
    BY <2>1, <2>2 DEF FitInv, QueueFits
<1>12. Rest(1)' => Rest(2)
  BY <1>9
<1>13. CASE s # "idle"
  <2>1. ~Free(w)'
    BY <1>5, <1>13 DEF Free
  <2>2. Rest(1)' => Fits(e, Visible(post))
    BY <1>6, <1>7, <1>12, <1>13 DEF FitInv, QueueFits
  <2>3. WorkerFits'
    <3> SUFFICES ASSUME Rest(1)'
                 PROVE  /\ Fits(ev'[w], Visible(post))
                        /\ at'[w] = "index" => doc'[w] = Visible(post)
                        /\ at'[w] = "remove" => Visible(post) = None
      BY <1>3 DEF WorkerFits
    <3> QED
      BY <1>5, <1>7, <1>13, <2>2 DEF Fits
  <2> QED
    BY <1>10, <1>11, <2>1, <2>3 DEF FitInv, EsFits
<1>14. CASE s = "idle"
  <2>1. Free(w)'
    BY <1>5, <1>14 DEF Free
  <2>2. Rest(1)' => Rest(1)
    <3> SUFFICES ASSUME Rest(1)'
                 PROVE  Rest(1)
      OBVIOUS
    <3>1. Rest(2) /\ ~Matters(queue[1])
      BY <1>6, <1>7, <1>12, <1>14
    <3>2. \A j \in 1..Len(queue) : j = 1 \/ j >= 2
      BY <1>6
    <3> QED
      BY <3>1, <3>2 DEF Rest
  <2>3. \A v \in Workers : Free(v) /\ Free(v)'
    BY <1>4, <2>1
  <2> QED
    BY <1>1, <1>3, <1>10, <1>11, <2>2, <2>3 DEF FitInv, EsFits, WorkerFits
<1> QED
  BY <1>13, <1>14

\* The other steps of the worker.
LEMMA WorkerFollow ==
  ASSUME \A v, w \in Workers : v = w,
         TypeInv, FollowInv, NEW w \in Workers, Sync(w) \/ SyncFault(w), ~Take(w)
  PROVE  FollowInv'
<1>1. UNCHANGED <<audit, post, pc, op, read, queue, scan>> /\ ~Free(w)
  BY DEF Sync, SyncFault, LookUp, LookUpFails, IndexEs, IndexAgain, DeleteEs, DeadLetter, Free,
     mongoVars, requestVars, reindexVars, sidecarVars
<1>2. /\ \A i : Rest(i)' <=> Rest(i)
      /\ Visible(post)' = Visible(post)
      /\ \A e : Matters(e)' <=> Matters(e)
  BY <1>1 DEF Rest, Announcing, Matters, Route, EventOf, Visible, Published
<1>3. ev'[w] = ev[w] \/ Free(w)'
  BY DEF Sync, SyncFault, LookUp, LookUpFails, IndexEs, IndexAgain, DeleteEs, DeadLetter, Free,
     Ack, sidecarVars, TypeInv, TypeOK
<1>4. \A v \in Workers : ~Free(v)' => Matters(ev[v])'
  BY <1>1, <1>2, <1>3 DEF FollowInv
<1>5. CASE broken' = TRUE
  BY <1>4, <1>5 DEF FollowInv
<1>6. CASE UNCHANGED broken /\ ~LookUpFails(w) /\ ~DeadLetter(w)
  <2> SUFFICES ASSUME FitInv
               PROVE  FitInv'
    BY <1>1, <1>4, <1>6 DEF FollowInv
  <2>1. AnnouncedFits'
    BY <1>1, <1>2 DEF FitInv, AnnouncedFits, Announcing, Matters, Route, EventOf
  <2>2. QueueFits'
    BY <1>1, <1>2 DEF FitInv, QueueFits
  <2>3. CASE LookUp(w)
    <3>1. /\ ~Free(w)' /\ ev'[w] = ev[w]
          /\ at'[w] = "index" => doc'[w] = Visible(post)
          /\ at'[w] = "remove" => Visible(post) = None
      BY <2>3 DEF LookUp, Free, Visible, TypeInv, TypeOK
    <3>2. WorkerFits'
      BY <1>1, <1>2, <3>1 DEF FitInv, WorkerFits
    <3> QED
      BY <2>1, <2>2, <3>1, <3>2 DEF FitInv, EsFits
  <2>4. CASE IndexEs(w) \/ DeleteEs(w)
    <3>1. \/ at[w] = "index" /\ es' = doc[w]
          \/ at[w] = "remove" /\ es' = None
      BY <2>4 DEF IndexEs, DeleteEs
    <3>2. at' = [at EXCEPT ![w] = "idle"]
      BY <2>4 DEF IndexEs, DeleteEs, Ack
    <3>3. Free(w)'
      BY <3>2 DEF Free, TypeInv, TypeOK
    <3>4. EsFits'
      BY <1>1, <1>2, <3>1, <3>3 DEF FitInv, WorkerFits, EsFits
    <3>5. WorkerFits'
      BY <3>3 DEF WorkerFits
    <3> QED
      BY <2>1, <2>2, <3>4, <3>5 DEF FitInv
  <2>5. CASE IndexAgain(w)
    <3>1. UNCHANGED <<at, ev, doc>>
      BY <2>5 DEF IndexAgain, sidecarVars
    <3>2. WorkerFits' /\ EsFits'
      BY <1>1, <1>2, <3>1 DEF FitInv, WorkerFits, EsFits, Free
    <3> QED
      BY <2>1, <2>2, <3>2 DEF FitInv
  <2> QED
    BY <1>6, <2>3, <2>4, <2>5 DEF Sync, SyncFault
<1> QED
  <2>1. LookUpFails(w) \/ DeadLetter(w) => broken' = TRUE
    BY DEF LookUpFails, DeadLetter
  <2>2. ~LookUpFails(w) /\ ~DeadLetter(w) => UNCHANGED broken
    BY DEF Sync, SyncFault, LookUp, IndexEs, IndexAgain, DeleteEs
  <2> QED
    BY <1>5, <1>6, <2>1, <2>2

\* The sidecar stops: the event of the worker is delivered again, before the others.
LEMMA SidecarStopsFollow ==
  ASSUME \A v, w \in Workers : v = w,
         TypeInv, FollowInv, SidecarStops
  PROVE  FollowInv'
<1>1. UNCHANGED <<audit, post, pc, op, read>> /\ \A w \in Workers : Free(w)'
  BY DEF SidecarStops, mongoVars, requestVars, Free
<1>2. /\ \A q \in Procs : Announcing(q)' <=> Announcing(q)
      /\ Visible(post)' = Visible(post)
      /\ \A e : Matters(e)' <=> Matters(e)
  BY <1>1 DEF Announcing, Matters, Route, EventOf, Visible, Published
<1> SUFFICES ASSUME ~broken', scan' = "idle"
             PROVE  FitInv'
  BY <1>1 DEF FollowInv
<1>3. FitInv /\ scan = "idle"
  BY DEF SidecarStops, FollowInv, TypeInv, TypeOK
<1>4. AnnouncedFits'
  BY <1>1, <1>2, <1>3 DEF FitInv, AnnouncedFits, EventOf
<1>5. WorkerFits'
  BY <1>1 DEF WorkerFits
<1>6. PICK s \in Orders(Busy) : queue' = [i \in DOMAIN s |-> ev[s[i]]] \o queue
  BY DEF SidecarStops
<1>7. queue \in Seq(Event)
  BY DEF TypeInv, TypeOK
<1>8. CASE Busy = {}
  <2>1. s \in [1..0 -> {}]
    BY <1>8, FS_EmptySet DEF Orders
  <2>2. [i \in DOMAIN s |-> ev[s[i]]] = <<>>
    BY <2>1
  <2>3. queue' = queue
    BY <1>6, <1>7, <2>2
  <2>4. es' = es
    BY <1>3, <1>8 DEF SidecarStops, Busy, Free, ReindexEffect, WorkerEffect
  <2>5. \A i : Rest(i)' <=> Rest(i)
    BY <1>2, <2>3 DEF Rest
  <2>6. QueueFits'
    BY <1>2, <1>3, <2>3, <2>5 DEF FitInv, QueueFits
  <2>7. EsFits'
    BY <1>2, <1>3, <1>8, <2>4, <2>5 DEF FitInv, EsFits, Busy
  <2> QED
    BY <1>4, <1>5, <2>6, <2>7 DEF FitInv
<1>9. CASE Busy # {}
  <2>1. PICK w \in Workers : ~Free(w) /\ Busy = {w}
    BY <1>9 DEF Busy
  <2>2. ev[w] \in Event /\ Matters(ev[w])
    BY <2>1 DEF FollowInv, Free, TypeInv, KnownOK, WorkerOK
  <2>3. s \in [1..1 -> {w}]
    BY <2>1, FS_Singleton DEF Orders
  <2>4. [i \in DOMAIN s |-> ev[s[i]]] = <<ev[w]>>
    BY <2>3
  <2> DEFINE e == ev[w]
  <2>5. queue' = <<e>> \o queue /\ e \in Event /\ <<e>> \in Seq(Event)
    BY <1>6, <2>2, <2>4
  <2> HIDE DEF e
  <2>6. /\ Len(queue) \in Nat /\ Len(queue') = Len(queue) + 1 /\ queue'[1] = e
        /\ \A i \in 1..Len(queue) : queue'[i + 1] = queue[i]
    BY <1>7, <2>5
  <2>7. \A i \in Nat : Rest(i + 1)' => Rest(i)
    <3> SUFFICES ASSUME NEW i \in Nat, Rest(i + 1)'
                 PROVE  Rest(i)
      OBVIOUS
    <3>1. \A j \in 1..Len(queue') : j >= i + 1 => ~Matters(queue'[j])
      BY <1>2 DEF Rest
    <3> SUFFICES ASSUME NEW j \in 1..Len(queue), j >= i
                 PROVE  ~Matters(queue[j])
      BY <1>2 DEF Rest
    <3>2. j + 1 \in 1..Len(queue') /\ j + 1 >= i + 1 /\ queue'[j + 1] = queue[j]
      BY <2>6
    <3> QED
      BY <3>1, <3>2
  <2>8. ~Rest(1)'
    <3>1. 1 \in 1..Len(queue') /\ 1 >= 1
      BY <2>6
    <3> QED
      BY <1>2, <2>2, <2>6, <3>1 DEF Rest, e
  <2>9. QueueFits'
    <3> SUFFICES ASSUME NEW i \in 1..Len(queue'), Matters(queue'[i]), Rest(i + 1)'
                 PROVE  Fits(queue'[i], Visible(post))
      BY <1>2 DEF QueueFits
    <3>1. Rest(i)
      BY <2>7
    <3>2. CASE i = 1
      <4>1. Fits(ev[w], Visible(post))
        BY <1>3, <2>1, <3>1, <3>2 DEF FitInv, WorkerFits
      <4> QED
        BY <2>6, <3>2, <4>1 DEF e
    <3>3. CASE i # 1
      <4>1. i - 1 \in 1..Len(queue) /\ (i - 1) + 1 = i /\ queue'[i] = queue[i - 1]
        BY <2>6, <3>3
      <4> QED
        BY <1>3, <3>1, <4>1 DEF FitInv, QueueFits
    <3> QED
      BY <3>2, <3>3
  <2> QED
    BY <1>4, <1>5, <2>8, <2>9 DEF FitInv, EsFits
<1> QED
  BY <1>8, <1>9

\* A reindex that ends makes the index what the post is.
LEMMA ReindexFollow ==
  ASSUME TypeInv, QuietInv, FollowInv, QuietReindex, BeginReindex \/ Reindex \/ ReindexFails
  PROVE  FollowInv'
<1>1. UNCHANGED <<audit, post, pc, op, read, queue, at, ev, doc>>
  BY DEF Reindex, BeginReindex, ClearEsIndex, ScanPosts, WritePage, ReindexFails, mongoVars,
     requestVars, sidecarVars
<1>2. \A w \in Workers : ~Free(w)' => Matters(ev[w])'
  BY <1>1 DEF FollowInv, Free, Matters, Route
<1>3. CASE broken' = TRUE \/ scan' # "idle"
  BY <1>2, <1>3 DEF FollowInv
<1>4. CASE broken' # TRUE /\ scan' = "idle"
  <2>1. scan # "idle" /\ es' = Visible(post)
    <3>1. CASE ScanPosts
      <4>1. scan = "scan" /\ ~Published(post) /\ es' = es
        BY <1>4, <3>1 DEF ScanPosts
      <4> QED
        BY <4>1 DEF QuietInv, Visible
    <3>2. CASE WritePage
      BY <3>2 DEF WritePage, QuietInv
    <3> QED
      BY <1>4, <3>1, <3>2 DEF Reindex, BeginReindex, ClearEsIndex, ReindexFails
  <2>2. queue' = <<>> /\ (\A w \in Workers : Free(w)') /\ \A p \in Procs : ~Announcing(p)'
    BY <1>1, <2>1 DEF QuietInv, IndexSettled, Free, Idle, Announcing
  <2>3. Visible(post)' = Visible(post)
    BY <1>1 DEF Visible, Published
  <2>4. AnnouncedFits' /\ WorkerFits' /\ EsFits'
    BY <2>1, <2>2, <2>3 DEF AnnouncedFits, WorkerFits, EsFits
  <2>5. QueueFits'
    BY <2>2 DEF QueueFits
  <2> QED
    BY <1>2, <2>4, <2>5 DEF FollowInv, FitInv
<1> QED
  BY <1>3, <1>4

LEMMA ListenFollow ==
  ASSUME TypeInv, FollowInv, Listen \/ ListenerFails
  PROVE  FollowInv'
<1>1. UNCHANGED <<audit, pc, op, read, es, queue, at, ev, doc, scan, broken>>
  BY DEF Listen, ListenerFails, AutoComment, CountAutoComment, PurgeComments, requestVars,
     sidecarVars, reindexVars
<1>2. post \in PostDoc /\ post' \in PostDoc /\ Visible(post)' = Visible(post)
  <2>1. post \in PostDoc
    BY DEF Listen, ListenerFails, AutoComment, CountAutoComment, PurgeComments, AtEvent,
       TypeInv, KnownOK
  <2>2. CASE CountAutoComment
    <3>1. /\ post' \in PostDoc /\ post'.status = post.status /\ post'.deleted = post.deleted
          /\ post'.text = post.text
      BY <2>1, <2>2 DEF CountAutoComment, PostDoc
    <3> QED
      BY <2>1, <3>1, PostAssumption DEF Visible, Published
  <2>3. CASE UNCHANGED post
    BY <2>1, <2>3 DEF Visible, Published
  <2> QED
    BY <2>2, <2>3 DEF Listen, ListenerFails, AutoComment, PurgeComments, mongoVars
<1>3. /\ \A i : Rest(i)' <=> Rest(i)
      /\ \A e : Matters(e)' <=> Matters(e)
      /\ \A p \in Procs : (Announcing(p)' <=> Announcing(p)) /\ EventOf(p)' = EventOf(p)
  BY <1>1 DEF Rest, Announcing, Matters, Route, EventOf
<1> QED
  BY <1>1, <1>2, <1>3 DEF FollowInv, FitInv, AnnouncedFits, QueueFits, WorkerFits, EsFits, Free

LEMMA NextFollow ==
  ASSUME PendingOnly, QuietReindex, \A v, w \in Workers : v = w
  PROVE  TypeInv /\ TurnInv /\ StatusInv /\ QuietInv /\ FollowInv /\ [Next]_vars => FollowInv'
<1> SUFFICES ASSUME TypeInv, TurnInv, StatusInv, QuietInv, FollowInv, [Next]_vars
             PROVE  FollowInv'
  OBVIOUS
<1>1. TypeInv'
  BY NextTypeInv
<1>2. CASE UNCHANGED vars
  <2>1. UNCHANGED <<audit, post, pc, op, read, es, queue, at, ev, doc, scan, broken>>
    BY <1>2 DEF vars, mongoVars, requestVars, sidecarVars, reindexVars
  <2>2. /\ \A i : Rest(i)' <=> Rest(i)
        /\ \A e : Matters(e)' <=> Matters(e)
        /\ \A p \in Procs : (Announcing(p)' <=> Announcing(p)) /\ EventOf(p)' = EventOf(p)
        /\ Visible(post)' = Visible(post)
    BY <2>1 DEF Rest, Announcing, Matters, Route, EventOf, Visible, Published
  <2> QED
    BY <2>1, <2>2 DEF FollowInv, FitInv, AnnouncedFits, QueueFits, WorkerFits, EsFits, Free
<1>3. ASSUME NEW p \in Procs,
             Request(p) \/ PublishFails(p) \/ \E o \in OpNames : Begin(p, o)
      PROVE  FollowInv'
  BY <1>1, <1>3, RequestFollow, PublishFollow
<1>4. ASSUME NEW w \in Workers, Sync(w) \/ SyncFault(w)
      PROVE  FollowInv'
  BY <1>4, TakeFollow, WorkerFollow
<1>5. CASE SidecarStops
  BY <1>5, SidecarStopsFollow
<1>6. CASE BeginReindex \/ Reindex \/ ReindexFails
  BY <1>6, ReindexFollow
<1>7. CASE Listen \/ ListenerFails
  BY <1>7, ListenFollow
<1> QED
  BY <1>2, <1>3, <1>4, <1>5, <1>6, <1>7 DEF Next

LEMMA InitFollow == Init => StatusInv /\ QuietInv /\ FollowInv
<1> SUFFICES ASSUME Init
             PROVE  StatusInv /\ QuietInv /\ FollowInv
  OBVIOUS
<1>1. post = None /\ queue = <<>> /\ scan = "idle" /\ es = None
      /\ (\A w \in Workers : Free(w)) /\ \A p \in Procs : pc[p] = "idle"
  BY DEF Init, Free
<1>2. FitInv
  BY <1>1 DEF FitInv, AnnouncedFits, QueueFits, WorkerFits, EsFits, Announcing, Visible, Published
<1> QED
  BY <1>1, <1>2, PostAssumption DEF StatusInv, QuietInv, FollowInv

\* Where requests follow each other, only posts that wait for it are audited, a
\* reindex runs alone and the sidecar has one worker, the index shows the post as it
\* is in MongoDB whenever nothing is in flight and no change was missed since the
\* last reindex: also after the sidecar has stopped, commands were repeated and
\* events were delivered again.
THEOREM IndexAgrees ==
  ASSUME Overlap = FALSE, PendingOnly, QuietReindex, \A v, w \in Workers : v = w
  PROVE  Spec => []IndexFollowsPost
<1>1. TypeInv /\ TurnInv /\ StatusInv /\ QuietInv /\ FollowInv /\ [Next]_vars
        => StatusInv' /\ QuietInv' /\ FollowInv'
  BY NextStatus, NextQuiet, NextFollow
<1>2. FollowInv => IndexFollowsPost
  <2> SUFFICES ASSUME FollowInv, Settled, ~broken
               PROVE  es = Visible(post)
    BY DEF IndexFollowsPost
  <2>1. FitInv
    BY DEF FollowInv, Settled
  <2>2. Rest(1) /\ \A w \in Workers : Free(w)
    BY DEF Settled, IndexSettled, Rest, Announcing, Idle
  <2> QED
    BY <2>1, <2>2 DEF FitInv, EsFits
<1> QED
  BY <1>1, <1>2, InitFollow, AlwaysTurn, PTL DEF Spec

-----------------------------------------------------------------------------
(* The lists and the pages of Feed. *)

\* A list shows what its reader opens, if the index follows the post and the deleted
\* have no comments.
LEMMA ListShows ==
  ASSUME TypeInv, IndexFollowsPost, CommentsCounted,
         NEW l \in Lists, NEW r \in Readers, Current(l)
  PROVE  /\ Shown(l, r) # None =>
                /\ Kept(post) /\ Shown(l, r) = post.text
                /\ l \notin Unfiltered => Opens(r)
         /\ Published(post) /\ l \notin Personal => Shown(l, r) = post.text
<1>1. Published(post) => Kept(post) /\ post.status = 1
  BY DEF Published, Kept
<1>2. CASE l \in Indexed
  <2>1. Shown(l, r) = es
    BY <1>2 DEF Indexed, Shown, Search, Suggest
  <2>2. es = Visible(post)
    <3>1. l # "commented"
      BY <1>2 DEF Indexed
    <3>2. Settled /\ ~broken
      BY <1>2, <3>1 DEF Current
    <3> QED
      BY <3>2 DEF IndexFollowsPost
  <2>3. CASE Published(post)
    <3>1. Shown(l, r) = post.text
      BY <2>1, <2>2, <2>3 DEF Visible
    <3> QED
      BY <1>1, <2>3, <3>1 DEF Opens
  <2>4. CASE ~Published(post)
    BY <2>1, <2>2, <2>4 DEF Visible
  <2> QED
    BY <2>3, <2>4
<1>3. CASE l = "commented"
  <2>1. Settled /\ slips = 0
    BY <1>3 DEF Current, Indexed
  <2>2. post # None /\ comments # 0 => ~post.deleted
    BY <2>1 DEF CommentsCounted
  <2>3. Shown(l, r) = Commented(r)
    BY <1>3 DEF Shown
  <2>4. l \in Unfiltered /\ l \in Personal
    BY <1>3 DEF Unfiltered, Personal, OwnMarks
  <2> QED
    BY <2>2, <2>3, <2>4 DEF Commented, Kept
<1>4. CASE l \in {"liked", "collected", "rated", "viewed"}
  <2>1. Shown(l, r) \in {None, ById}
    BY <1>4 DEF Shown, Liked, Collected, Rated, Viewed
  <2>2. l \in Unfiltered /\ l \in Personal
    BY <1>4 DEF Unfiltered, Personal, OwnMarks
  <2> QED
    BY <2>1, <2>2 DEF ById, TextIf
<1>5. CASE l = "tagged"
  <2>1. Shown(l, r) = TextIf(Kept(post)) /\ l \in Unfiltered
    BY <1>5 DEF Shown, Tagged, Unfiltered
  <2> QED
    BY <1>1, <2>1 DEF TextIf
<1>6. CASE l \in {"recommended", "hot"}
  <2>1. Shown(l, r) = TextIf(Published(post))
    BY <1>6 DEF Shown, Recommended, HotTags
  <2> QED
    BY <1>1, <2>1 DEF TextIf, Opens
<1>7. CASE l = "followed"
  <2>1. Shown(l, r) = TextIf(r = "other" /\ Published(post)) /\ l \in Personal
    BY <1>7 DEF Shown, Followed, Personal
  <2> QED
    BY <1>1, <2>1 DEF TextIf, Opens
<1>8. CASE l = "mine"
  <2>1. Shown(l, r) = TextIf(r = "author" /\ Kept(post)) /\ l \in Personal
    BY <1>8 DEF Shown, Mine, Personal
  <2> QED
    BY <2>1 DEF TextIf, Opens
<1>9. CASE l = "user"
  <2>1. Shown(l, r) = TextIf(IF r = "author" THEN Kept(post) ELSE Published(post))
    BY <1>9 DEF Shown, OfUser
  <2> QED
    BY <1>1, <2>1 DEF TextIf, Opens
<1> QED
  BY <1>2, <1>3, <1>4, <1>5, <1>6, <1>7, <1>8, <1>9 DEF Lists, Indexed

\* An administrator finds a post on one tab besides that of all.
LEMMA TabsShare ==
  ASSUME TypeInv
  PROVE  Cardinality({t \in Tabs \ {"all"} : OnTab(t)}) = IF AdminOpens THEN 1 ELSE 0
<1> DEFINE T == {t \in Tabs \ {"all"} : OnTab(t)}
           the == IF post.deleted THEN "bin" ELSE IF post.status = 0 THEN "waiting"
                  ELSE IF post.status = 1 THEN "passed" ELSE "rejected"
<1>1. CASE post = None
  <2>1. T = {}
    BY <1>1 DEF OnTab, Kept, Tabs
  <2> QED
    BY <1>1, <2>1, FS_EmptySet DEF AdminOpens
<1>2. CASE post # None
  <2>1. post.status \in {0, 1, 2} /\ post.deleted \in BOOLEAN
    BY <1>2 DEF TypeInv, TypeOK, PostDoc
  <2>2. \A t \in Tabs \ {"all"} : OnTab(t) <=> t = the
    BY <1>2, <2>1 DEF OnTab, Kept, Tabs
  <2>3. the \in Tabs \ {"all"}
    BY DEF Tabs
  <2>4. T = {the}
    BY <2>2, <2>3
  <2> HIDE DEF T, the
  <2>5. Cardinality(T) = 1
    BY <2>4, FS_Singleton
  <2> QED
    BY <1>2, <2>5 DEF AdminOpens, T
<1> QED
  BY <1>1, <1>2

\* Under the assumptions of IndexAgrees what any list shows its reader can open as the
\* page of the post has it, and a published post is on every list that is for
\* everybody (PostServiceImpl, UserServiceImpl, AdminServiceImpl, search-rpc).
THEOREM ListsShowPages ==
  ASSUME Overlap = FALSE, PendingOnly, QuietReindex, \A v, w \in Workers : v = w
  PROVE  Spec => []ListsFitPages
<1>1. TypeInv /\ IndexFollowsPost /\ CommentsCounted => ListsFitPages
  <2> SUFFICES ASSUME TypeInv, IndexFollowsPost, CommentsCounted
               PROVE  ListsFitPages
    OBVIOUS
  <2>1. OnTab("all") <=> AdminOpens
    BY DEF OnTab, AdminOpens
  <2>2. Ranking # None <=> OnTab("passed")
    <3>1. post # None => post.text # None
      BY PostAssumption DEF TypeInv, TypeOK, PostDoc
    <3> QED
      BY <3>1 DEF Ranking, OnTab, TextIf, Published, Kept
  <2> QED
    BY <2>1, <2>2, ListShows, TabsShare DEF ListsFitPages
<1> QED
  BY <1>1, AlwaysTypeInv, CommentsAreCounted, IndexAgrees, PTL
==============================================================================
