------------------------ MODULE NotificationsProofs -------------------------
(***************************************************************************)
(* What Notifications guarantees for every set of keys, callers and        *)
(* clean-ups, every old database and any number of restarts.               *)
(***************************************************************************)
EXTENDS Notifications, FiniteSetTheorems, WellFoundedInduction, TLAPS

-----------------------------------------------------------------------------
(* Ids and times. *)

\* A call under way has a time and an id of its own, which no clean-up knows.
CallOK(p) ==
    call[p] # None =>
        /\ call[p].at \in 1..clock
        /\ NewId(call[p].at) \notin Ids
        /\ \A i \in Ids : docs[i].at # call[p].at
        /\ \A c \in Cleaners : doomed[c] # None => NewId(call[p].at) \notin doomed[c]
        /\ \A q \in Callers : call[q] # None /\ call[q].at = call[p].at => p = q

DocOK(i) ==
    /\ i \in 1..NewId(clock)
    /\ docs[i].at <= clock
    /\ docs[i].key \in StateKeys => docs[i].key \in written

\* What a clean-up is to delete is about a state.
CleanOK(c) ==
    doomed[c] # None =>
        /\ doomed[c] \subseteq 1..NewId(clock)
        /\ \A i \in doomed[c] \cap Ids : docs[i].key \in StateKeys

IdsInv == /\ \A p \in Callers : CallOK(p)
          /\ \A i \in Ids : DocOK(i)
          /\ \A c \in Cleaners : CleanOK(c)

TypeInv == TypeOK /\ IdsInv

(* What the properties rest on. *)

UniqueInv ==
    indexed => \A i, j \in Ids : docs[i].key = docs[j].key /\ docs[i].key \in StateKeys => i = j

HistoryInv == \A k \in HistoryKeys : Cardinality(With(k)) = sent[k]

\* One clean-up at a time leaves a document of each state.
Left(k, c) == doomed[c] # None => With(k) \ doomed[c] # {}

LostInv == \A k \in written : With(k) # {} /\ \A c \in Cleaners : Left(k, c)

\* The document of the last occurrence: it is unread, the only latest of its state,
\* and no clean-up deletes it.
Shown(k, i) ==
    /\ i \in With(k) /\ ~docs[i].read
    /\ \A j \in With(k) \ {i} : docs[j].at < docs[i].at
    /\ \A c \in Cleaners : doomed[c] # None => i \notin doomed[c]

KeptInv == ~disturbed => \A k \in pending : \E i \in Ids : Shown(k, i)

-----------------------------------------------------------------------------
(* Types. *)

LEMMA NewIdFacts ==
  ASSUME NEW m \in Nat, NEW n \in Nat
  PROVE  /\ NewId(m) \in Nat
         /\ NewId(m) = NewId(n) => m = n
         /\ m < n => NewId(m) < NewId(n)
         /\ m > 0 => NewId(m) >= 1
         /\ m <= n => NewId(m) <= NewId(n)
<1>1. Len(OldDocs) \in Nat
  BY NotificationAssumption
<1> QED BY <1>1 DEF NewId

LEMMA InitTypeInv == Init => TypeInv
<1> SUFFICES ASSUME Init PROVE TypeInv
  OBVIOUS
<1>1. /\ Len(OldDocs) \in Nat /\ Ids = 1..Len(OldDocs) /\ docs \in [Ids -> Doc]
      /\ NewId(clock) = Len(OldDocs)
  BY NotificationAssumption DEF Init, NewId, Ids
<1>2. \A i \in Ids : docs[i].at = 0
  BY NotificationAssumption DEF Init, Ids
<1>3. sent \in [HistoryKeys -> Nat]
  <2> SUFFICES ASSUME NEW k \in HistoryKeys PROVE Cardinality(With(k)) \in Nat
    BY DEF Init
  <2>1. IsFiniteSet(Ids)
    BY <1>1, FS_Interval
  <2> QED BY <2>1, FS_Subset, FS_CardinalityType DEF With
<1>4. TypeOK
  <2>0. indexed \in BOOLEAN
    BY DEF Init, NoDuplicates
  <2>1. docs \in [Ids -> Doc] /\ Ids \subseteq Nat /\ indexed \in BOOLEAN /\ clock \in Nat
    BY <1>1, <2>0 DEF Init
  <2>2. call \in [Callers -> Call \cup {None}] /\ doomed \in [Cleaners -> {None} \cup SUBSET Nat]
    BY DEF Init
  <2>3. pending \subseteq written /\ written \subseteq StateKeys /\ disturbed \in BOOLEAN
        /\ cleans \in Nat /\ stops \in Nat
    BY DEF Init
  <2> QED BY <1>3, <2>1, <2>2, <2>3 DEF TypeOK
<1>5. \A i \in Ids : DocOK(i)
  BY <1>1, <1>2 DEF Init, DocOK, With
<1>6. (\A p \in Callers : CallOK(p)) /\ \A c \in Cleaners : CleanOK(c)
  BY DEF Init, CallOK, CleanOK
<1> QED BY <1>4, <1>5, <1>6 DEF TypeInv, IdsInv

\* A write of the same documents leaves what is known of ids.
LEMMA SameIds ==
  ASSUME TypeInv, clock' = clock, Ids' = Ids, docs' \in [Ids -> Doc],
         \A i \in Ids : /\ docs'[i].key = docs[i].key
                        /\ docs'[i].at = docs[i].at
                             \/ \E p \in Callers : call[p] # None /\ call'[p] = None /\ docs'[i].at = call[p].at,
         \A p \in Callers : call'[p] # None => call[p] # None /\ call'[p].at = call[p].at,
         doomed' = doomed, written \subseteq written'
  PROVE  IdsInv'
<1>1. \A p \in Callers : call'[p] # None => call[p] # None /\ call'[p].at = call[p].at
  OBVIOUS
<1>2. NewId(clock)' = NewId(clock) /\ \A n : NewId(n)' = NewId(n)
  BY DEF NewId
<1>3. ASSUME NEW p \in Callers, call'[p] # None PROVE CallOK(p)'
  <2>1. CallOK(p) /\ call[p] # None /\ call'[p].at = call[p].at
    BY <1>3 DEF TypeInv, IdsInv
  <2>2. \A i \in Ids : docs'[i].at # call[p].at
    <3> SUFFICES ASSUME NEW i \in Ids, docs'[i].at = call[p].at PROVE FALSE
      OBVIOUS
    <3>1. docs[i].at # call[p].at
      BY <2>1 DEF CallOK
    <3>2. PICK q \in Callers : call[q] # None /\ call'[q] = None /\ docs'[i].at = call[q].at
      BY <3>1
    <3>3. p = q
      BY <2>1, <3>2 DEF CallOK
    <3> QED BY <1>3, <3>2, <3>3
  <2>3. \A q \in Callers : call'[q] # None /\ call'[q].at = call'[p].at => p = q
    BY <2>1 DEF CallOK
  <2>4. \A c \in Cleaners : doomed'[c] # None => NewId(call'[p].at) \notin doomed'[c]
    BY <2>1 DEF CallOK
  <2>5. call'[p].at \in 1..clock' /\ NewId(call'[p].at) \notin Ids'
    BY <2>1 DEF CallOK
  <2>6. \A i \in Ids' : docs'[i].at # call'[p].at
    BY <2>1, <2>2
  <2> QED BY <1>2, <2>3, <2>4, <2>5, <2>6 DEF CallOK
<1>4. ASSUME NEW i \in Ids PROVE DocOK(i)'
  <2>1. DocOK(i) /\ docs'[i].key = docs[i].key
    BY DEF TypeInv, IdsInv
  <2>2. docs'[i].at <= clock
    <3>1. CASE docs'[i].at = docs[i].at
      BY <2>1, <3>1 DEF DocOK
    <3>2. CASE \E p \in Callers : call[p] # None /\ call'[p] = None /\ docs'[i].at = call[p].at
      <4>1. PICK p \in Callers : call[p] # None /\ docs'[i].at = call[p].at
        BY <3>2
      <4>2. call[p].at \in 1..clock /\ clock \in Nat
        BY <4>1 DEF TypeInv, IdsInv, CallOK, TypeOK
      <4> QED BY <4>1, <4>2
    <3> QED BY <3>1, <3>2
  <2> QED BY <1>2, <2>1, <2>2 DEF DocOK
<1>5. ASSUME NEW c \in Cleaners PROVE CleanOK(c)'
  BY <1>2 DEF CleanOK, TypeInv, IdsInv
<1> QED BY <1>3, <1>4, <1>5 DEF IdsInv, CallOK

\* The times of writes already under way are no news.
LEMMA CallTypes ==
  ASSUME TypeInv, NEW p \in Callers, call[p] # None
  PROVE  /\ call[p] \in Call /\ call[p].key \in StateKeys /\ call[p].key \in Keys /\ call[p].at \in Nat
         /\ Fresh(p) \in Doc /\ Fresh(p).key = call[p].key /\ Fresh(p).at = call[p].at
         /\ ~Fresh(p).read /\ NewId(call[p].at) \in Nat
         /\ call[p].at \in 1..clock /\ NewId(call[p].at) \notin Ids
         /\ \A i \in Ids : docs[i].at # call[p].at
         /\ \A c \in Cleaners : doomed[c] # None => NewId(call[p].at) \notin doomed[c]
         /\ NewId(call[p].at) \in 1..NewId(clock)
<1>1. call[p] \in Call /\ CallOK(p) /\ clock \in Nat
  BY DEF TypeInv, TypeOK, IdsInv
<1>2. call[p].key \in StateKeys /\ call[p].key \in Keys /\ call[p].at \in Nat
  BY <1>1 DEF Call, Keys
<1>3. NewId(call[p].at) \in 1..NewId(clock)
  BY <1>1, <1>2, NewIdFacts DEF CallOK
<1> QED BY <1>1, <1>2, <1>3, NewIdFacts DEF Fresh, Doc, CallOK

\* A document more.
LEMMA OneMoreId ==
  ASSUME TypeInv, NEW i, NEW d \in Doc, docs' = WithDoc(i, d), i \notin Ids,
         clock' \in Nat, clock <= clock', i \in 1..NewId(clock'), d.at <= clock',
         \A p \in Callers : call'[p] # None =>
            call[p] # None /\ call'[p].at = call[p].at /\ d.at # call[p].at /\ NewId(call[p].at) # i,
         doomed' = doomed, \A c \in Cleaners : doomed[c] # None => i \notin doomed[c],
         written \subseteq written', d.key \in StateKeys => d.key \in written'
  PROVE  /\ IdsInv'
         /\ Ids' = Ids \cup {i} /\ docs' \in [Ids' -> Doc] /\ Ids' \subseteq Nat
         /\ docs'[i] = d /\ \A j \in Ids : docs'[j] = docs[j]
<1>1. Ids' = Ids \cup {i} /\ docs'[i] = d /\ \A j \in Ids : docs'[j] = docs[j]
  BY DEF WithDoc, Ids
<1>2. docs' = [j \in Ids \cup {i} |-> IF j = i THEN d ELSE docs[j]] /\ docs \in [Ids -> Doc]
  BY DEF WithDoc, TypeInv, TypeOK
<1>3. docs' \in [Ids' -> Doc]
  BY <1>1, <1>2
<1>4. clock \in Nat /\ NewId(clock) <= NewId(clock') /\ NewId(clock) \in Nat /\ NewId(clock') \in Nat
  BY NewIdFacts DEF TypeInv, TypeOK
<1>5. NewId(clock)' = NewId(clock') /\ \A n : NewId(n)' = NewId(n)
  BY DEF NewId
<1>6. Ids' \subseteq Nat
  <2>1. Ids \subseteq Nat
    BY DEF TypeInv, TypeOK
  <2>2. i \in Nat
    BY <1>4
  <2>3. Ids' = Ids \cup {i}
    BY <1>1
  <2> QED BY ONLY <2>1, <2>2, <2>3
<1>7. ASSUME NEW p \in Callers, call'[p] # None PROVE CallOK(p)'
  <2>1. CallOK(p) /\ call[p] # None /\ call'[p].at = call[p].at /\ d.at # call[p].at
        /\ NewId(call[p].at) # i
    BY <1>7 DEF TypeInv, IdsInv
  <2>2. call'[p].at \in 1..clock'
    BY <1>4, <2>1 DEF CallOK
  <2>3. NewId(call'[p].at) \notin Ids'
    BY <1>1, <2>1 DEF CallOK
  <2>4. \A j \in Ids' : docs'[j].at # call'[p].at
    BY <1>1, <2>1 DEF CallOK
  <2>5. \A c \in Cleaners : doomed'[c] # None => NewId(call'[p].at) \notin doomed'[c]
    BY <2>1 DEF CallOK
  <2>6. \A q \in Callers : call'[q] # None /\ call'[q].at = call'[p].at => p = q
    BY <2>1 DEF CallOK
  <2> QED BY <1>5, <2>2, <2>3, <2>4, <2>5, <2>6 DEF CallOK
<1>8. ASSUME NEW j \in Ids' PROVE DocOK(j)'
  <2>1. CASE j = i
    BY <1>1, <1>5, <2>1 DEF DocOK
  <2>2. CASE j \in Ids
    <3>1. DocOK(j) /\ docs'[j] = docs[j] /\ docs[j] \in Doc
      BY <1>1, <1>2, <2>2 DEF TypeInv, IdsInv
    <3>2. j \in 1..NewId(clock') /\ docs[j].at <= clock'
      BY <1>4, <3>1 DEF DocOK, Doc
    <3> QED BY <1>5, <3>1, <3>2 DEF DocOK
  <2> QED BY <1>1, <2>1, <2>2
<1>9. ASSUME NEW c \in Cleaners, doomed'[c] # None PROVE CleanOK(c)'
  <2>1. CleanOK(c) /\ doomed[c] # None /\ doomed'[c] = doomed[c] /\ i \notin doomed[c]
    BY <1>9 DEF TypeInv, IdsInv
  <2>2. doomed[c] \subseteq 1..NewId(clock')
    BY <1>4, <2>1 DEF CleanOK
  <2>3. \A j \in doomed[c] \cap Ids' : docs'[j].key \in StateKeys
    BY <1>1, <2>1 DEF CleanOK
  <2> QED BY <1>5, <2>1, <2>2, <2>3 DEF CleanOK
<1> QED BY <1>1, <1>3, <1>6, <1>7, <1>8, <1>9 DEF IdsInv, CallOK, CleanOK

LEMMA UpsertTypeInv ==
  ASSUME TypeInv, NEW p \in Callers, NEW k \in StateKeys, Upsert(p, k)
  PROVE  TypeInv'
<1>1. /\ clock \in Nat /\ clock' = clock + 1 /\ docs' = docs /\ Ids' = Ids /\ doomed' = doomed
      /\ written' = written
      /\ NewId(clock) \in Nat /\ NewId(clock + 1) \in Nat /\ NewId(clock) < NewId(clock + 1)
  BY NewIdFacts DEF Upsert, TypeInv, TypeOK, historyVars, Ids
<1>2. call' \in [Callers -> Call \cup {None}] /\ call'[p] = [key |-> k, at |-> clock + 1, step |-> "match"]
      /\ \A q \in Callers \ {p} : call'[q] = call[q]
  BY <1>1 DEF Upsert, TypeInv, TypeOK, Call
<1>3. TypeOK'
  BY <1>1, <1>2 DEF Upsert, TypeInv, TypeOK, historyVars, Ids
<1>4. NewId(clock)' = NewId(clock + 1) /\ \A n : NewId(n)' = NewId(n)
  BY <1>1 DEF NewId
<1>5. ASSUME NEW i \in Ids PROVE DocOK(i)' /\ docs[i].at <= clock /\ i <= NewId(clock)
  <2>1. DocOK(i) /\ docs[i] \in Doc
    BY DEF TypeInv, IdsInv, TypeOK
  <2> QED BY <1>1, <1>4, <2>1 DEF DocOK, Doc
<1>6. ASSUME NEW c \in Cleaners, doomed[c] # None PROVE CleanOK(c)' /\ NewId(clock + 1) \notin doomed[c]
  <2>1. CleanOK(c)
    BY DEF TypeInv, IdsInv
  <2> QED BY <1>1, <1>4, <1>6, <2>1 DEF CleanOK
<1>7. CallOK(p)'
  <2>1. NewId(clock + 1) \notin Ids
    BY <1>1, <1>5 DEF TypeInv, TypeOK
  <2>2. \A i \in Ids : docs[i].at # clock + 1
    BY <1>1, <1>5 DEF TypeInv, TypeOK, Doc
  <2>3. \A q \in Callers \ {p} : call[q] # None => call[q].at # clock + 1
    BY <1>1 DEF TypeInv, IdsInv, CallOK
  <2>4. \A q \in Callers : call'[q] # None /\ call'[q].at = call'[p].at => p = q
    BY <1>2, <2>3
  <2> QED BY <1>1, <1>2, <1>4, <1>6, <2>1, <2>2, <2>4 DEF CallOK
<1>8. ASSUME NEW q \in Callers \ {p}, call'[q] # None PROVE CallOK(q)'
  <2>1. CallOK(q) /\ call'[q] = call[q] /\ call[q] # None
    BY <1>2, <1>8 DEF TypeInv, IdsInv
  <2>2. call[q].at \in 1..clock
    BY <2>1 DEF CallOK
  <2>3. call[q].at # clock + 1 /\ call[q].at \in 1..(clock + 1)
    BY <1>1, <2>2
  <2>4. \A r \in Callers : call'[r] # None /\ call'[r].at = call'[q].at => q = r
    BY <1>2, <2>1, <2>3 DEF CallOK
  <2> QED BY <1>1, <1>4, <2>1, <2>3, <2>4 DEF CallOK
<1> QED BY <1>1, <1>3, <1>5, <1>6, <1>7, <1>8 DEF TypeInv, IdsInv, CallOK, CleanOK

LEMMA MatchTypeInv ==
  ASSUME TypeInv, NEW p \in Callers, Match(p)
  PROVE  TypeInv'
<1>1. PICK i \in With(call[p].key) : docs' = [docs EXCEPT ![i] = Fresh(p)]
  BY DEF Match, Refreshed
<1>2. i \in Ids /\ docs[i].key = call[p].key /\ call[p] # None /\ clock' = clock /\ doomed' = doomed
  BY <1>1 DEF With, Match
<1>3. call[p].key \in StateKeys /\ Fresh(p) \in Doc /\ Fresh(p).key = call[p].key /\ Fresh(p).at = call[p].at
  BY <1>2, CallTypes
<1>4. Ids' = Ids /\ docs' \in [Ids -> Doc] /\ docs'[i] = Fresh(p) /\ \A j \in Ids \ {i} : docs'[j] = docs[j]
  BY <1>1, <1>2, <1>3 DEF Ids, TypeInv, TypeOK
<1>5. call' \in [Callers -> Call \cup {None}] /\ call'[p] = None /\ \A q \in Callers \ {p} : call'[q] = call[q]
  BY DEF Match, TypeInv, TypeOK
<1>6. /\ pending' \subseteq written' /\ written' \subseteq StateKeys /\ disturbed' \in BOOLEAN
      /\ written \subseteq written' /\ sent' = sent
  <2>1. disturbed' \in BOOLEAN
    BY DEF Match, Wrote
  <2> QED BY <1>3, <2>1 DEF Match, Wrote, TypeInv, TypeOK
<1>7. TypeOK'
  BY <1>2, <1>4, <1>5, <1>6 DEF Match, TypeInv, TypeOK
<1>8. IdsInv'
  <2>1. \A j \in Ids : docs'[j].key = docs[j].key
                       /\ (docs'[j].at = docs[j].at
                            \/ \E q \in Callers : call[q] # None /\ call'[q] = None /\ docs'[j].at = call[q].at)
    BY <1>2, <1>3, <1>4, <1>5
  <2>2. \A q \in Callers : call'[q] # None => call[q] # None /\ call'[q].at = call[q].at
    BY <1>5
  <2> QED BY <1>2, <1>4, <1>6, <2>1, <2>2, SameIds
<1> QED BY <1>7, <1>8 DEF TypeInv

\* A call that writes nothing or gives up.
LEMMA QuietCallTypeInv ==
  ASSUME TypeInv, NEW p \in Callers, docs' = docs, clock' = clock, doomed' = doomed,
         UNCHANGED historyVars, call' \in [Callers -> Call \cup {None}],
         \A q \in Callers : call'[q] # None => call[q] # None /\ call'[q].at = call[q].at,
         indexed' = indexed, cleans' = cleans, stops' \in Nat
  PROVE  TypeInv'
<1>1. Ids' = Ids /\ docs' \in [Ids -> Doc] /\ written' = written
  BY DEF Ids, TypeInv, TypeOK, historyVars
<1>2. IdsInv'
  BY <1>1, SameIds
<1> QED BY <1>1, <1>2 DEF TypeInv, TypeOK, historyVars

LEMMA MissTypeInv ==
  ASSUME TypeInv, NEW p \in Callers, Miss(p) \/ CallFails(p)
  PROVE  TypeInv'
<1>1. CASE Miss(p)
  <2>1. call[p] \in Call /\ call[p] # None /\ call' = [call EXCEPT ![p] = [call[p] EXCEPT !.step = "insert"]]
    BY <1>1, CallTypes DEF Miss
  <2>2. [call[p] EXCEPT !.step = "insert"] \in Call /\ [call[p] EXCEPT !.step = "insert"].at = call[p].at
    BY <2>1 DEF Call
  <2>3. /\ call' \in [Callers -> Call \cup {None}]
        /\ \A q \in Callers : call'[q] # None => call[q] # None /\ call'[q].at = call[q].at
    BY <2>1, <2>2 DEF TypeInv, TypeOK
  <2> QED BY <1>1, <2>3, QuietCallTypeInv DEF Miss, TypeInv, TypeOK
<1>2. CASE CallFails(p)
  <2>1. /\ call' \in [Callers -> Call \cup {None}]
        /\ \A q \in Callers : call'[q] # None => call[q] # None /\ call'[q].at = call[q].at
    BY <1>2 DEF CallFails, TypeInv, TypeOK
  <2> QED BY <1>2, <2>1, QuietCallTypeInv DEF CallFails, TypeInv, TypeOK
<1> QED BY <1>1, <1>2

LEMMA InsertTypeInv ==
  ASSUME TypeInv, NEW p \in Callers, Insert(p)
  PROVE  TypeInv'
<1>1. call[p] # None /\ clock' = clock /\ doomed' = doomed
  BY DEF Insert
<1>2. CASE Refused(call[p].key)
  <2>1. call[p] \in Call /\ call' = [call EXCEPT ![p] = [call[p] EXCEPT !.step = "match"]]
    BY <1>1, <1>2, CallTypes DEF Insert
  <2>2. [call[p] EXCEPT !.step = "match"] \in Call /\ [call[p] EXCEPT !.step = "match"].at = call[p].at
    BY <2>1 DEF Call
  <2>3. /\ call' \in [Callers -> Call \cup {None}]
        /\ \A q \in Callers : call'[q] # None => call[q] # None /\ call'[q].at = call[q].at
    BY <1>1, <2>1, <2>2 DEF TypeInv, TypeOK
  <2> QED BY <1>2, <2>3, QuietCallTypeInv DEF Insert, TypeInv, TypeOK
<1>3. CASE ~Refused(call[p].key)
  <2> DEFINE i == NewId(call[p].at)
  <2>1. docs' = WithDoc(i, Fresh(p)) /\ Wrote(p) /\ call' = [call EXCEPT ![p] = None]
    BY <1>3 DEF Insert
  <2>2. /\ call[p].key \in StateKeys /\ Fresh(p) \in Doc /\ Fresh(p).key = call[p].key /\ Fresh(p).at = call[p].at
        /\ call[p].at \in 1..clock /\ i \notin Ids /\ i \in 1..NewId(clock)
        /\ \A c \in Cleaners : doomed[c] # None => i \notin doomed[c]
    BY <1>1, CallTypes
  <2>3. call' \in [Callers -> Call \cup {None}] /\ call'[p] = None /\ \A q \in Callers \ {p} : call'[q] = call[q]
    BY <2>1 DEF TypeInv, TypeOK
  <2>4. \A q \in Callers : call'[q] # None =>
           call[q] # None /\ call'[q].at = call[q].at /\ call[p].at # call[q].at /\ NewId(call[q].at) # i
    <3> SUFFICES ASSUME NEW q \in Callers, call'[q] # None
                 PROVE  call[q] # None /\ call'[q].at = call[q].at /\ call[p].at # call[q].at
                         /\ NewId(call[q].at) # i
      OBVIOUS
    <3>1. q # p /\ call'[q] = call[q] /\ call[q] # None
      BY <2>3
    <3>2. call[p].at # call[q].at
      BY <1>1, <3>1 DEF TypeInv, IdsInv, CallOK
    <3>3. call[q].at \in Nat /\ call[p].at \in Nat
      BY <1>1, <3>1, CallTypes
    <3> QED BY <3>1, <3>2, <3>3, NewIdFacts
  <2>5. clock \in Nat /\ NewId(clock') = NewId(clock)
    BY <1>1 DEF TypeInv, TypeOK, NewId
  <2>6. written \subseteq written' /\ Fresh(p).key \in written' /\ pending' \subseteq written'
        /\ written' \subseteq StateKeys /\ sent' = sent /\ disturbed' \in BOOLEAN
    <3>1. disturbed' \in BOOLEAN
      BY <2>1 DEF Wrote
    <3> QED BY <2>1, <2>2, <3>1 DEF Wrote, TypeInv, TypeOK
  <2> HIDE DEF i
  <2>7. IdsInv' /\ docs' \in [Ids' -> Doc] /\ Ids' \subseteq Nat
    BY <1>1, <2>1, <2>2, <2>4, <2>5, <2>6, OneMoreId
  <2>8. TypeOK'
    BY <1>1, <2>3, <2>5, <2>6, <2>7 DEF Insert, TypeInv, TypeOK
  <2> QED BY <2>7, <2>8 DEF TypeInv
<1> QED BY <1>2, <1>3

LEMMA CreateTypeInv ==
  ASSUME TypeInv, NEW p \in Callers, NEW k \in HistoryKeys, Create(p, k)
  PROVE  /\ TypeInv'
         /\ Ids' = Ids \cup {NewId(clock + 1)} /\ NewId(clock + 1) \notin Ids
         /\ docs'[NewId(clock + 1)].key = k /\ \A j \in Ids : docs'[j] = docs[j]
<1> DEFINE i == NewId(clock + 1)
           d == [key |-> k, read |-> FALSE, at |-> clock + 1]
<1>1. /\ docs' = WithDoc(i, d) /\ clock' = clock + 1 /\ clock \in Nat /\ doomed' = doomed /\ call' = call
      /\ written' = written
  BY DEF Create, TypeInv, TypeOK
<1>2. d \in Doc /\ d.at = clock + 1 /\ d.key = k /\ k \notin StateKeys
  BY <1>1, NotificationAssumption DEF Doc, Keys
<1>3. NewId(clock) \in Nat /\ i \in Nat /\ NewId(clock) < i /\ i >= 1 /\ i = NewId(clock')
  BY <1>1, NewIdFacts
<1>4. i \notin Ids /\ \A c \in Cleaners : doomed[c] # None => i \notin doomed[c]
  <2>1. \A j \in Ids : j \in 1..NewId(clock)
    BY DEF TypeInv, IdsInv, DocOK
  <2>2. \A c \in Cleaners : doomed[c] # None => doomed[c] \subseteq 1..NewId(clock)
    BY DEF TypeInv, IdsInv, CleanOK
  <2> QED BY <1>3, <2>1, <2>2
<1>5. ASSUME NEW q \in Callers, call[q] # None PROVE d.at # call[q].at /\ NewId(call[q].at) # i
  <2>1. call[q].at \in 1..clock
    BY <1>5 DEF TypeInv, IdsInv, CallOK
  <2>2. call[q].at \in Nat /\ call[q].at < clock + 1
    BY <1>1, <2>1
  <2>3. NewId(call[q].at) < i
    BY <1>1, <2>2, NewIdFacts
  <2> QED BY <1>2, <1>3, <2>2, <2>3, NewIdFacts
<1>6. sent' \in [HistoryKeys -> Nat]
  BY DEF Create, TypeInv, TypeOK
<1> HIDE DEF i, d
<1>7. /\ IdsInv' /\ docs' \in [Ids' -> Doc] /\ Ids' \subseteq Nat
      /\ Ids' = Ids \cup {i} /\ docs'[i] = d /\ \A j \in Ids : docs'[j] = docs[j]
  BY <1>1, <1>2, <1>3, <1>4, <1>5, OneMoreId
<1>8. TypeOK'
  <2>1. UNCHANGED <<indexed, call, doomed, pending, written, disturbed, cleans, stops>>
    BY DEF Create
  <2>2. clock' \in Nat
    BY <1>1
  <2> QED BY <1>6, <1>7, <2>1, <2>2 DEF TypeInv, TypeOK
<1> QED BY <1>2, <1>4, <1>7, <1>8 DEF TypeInv, i

LEMMA MarkTypeInv ==
  ASSUME TypeInv, NEW u, NEW ids, MarkRead(u, ids)
  PROVE  /\ TypeInv' /\ Ids' = Ids /\ \A i \in Ids : docs'[i].key = docs[i].key /\ docs'[i].at = docs[i].at
         /\ \A i \in Ids : docs'[i].read <=> docs[i].read \/ i \in Unread(u, ids)
<1>1. /\ docs' = [i \in Ids |-> [docs[i] EXCEPT !.read = docs[i].read \/ i \in Unread(u, ids)]]
      /\ UNCHANGED <<indexed, clock, call, doomed, sent, written, disturbed, cleans, stops>>
      /\ pending' \subseteq pending
  BY DEF MarkRead
<1>2. \A i \in Ids : docs[i] \in Doc
  BY DEF TypeInv, TypeOK
<1>3. \A i \in Ids : /\ docs'[i] \in Doc /\ docs'[i].key = docs[i].key /\ docs'[i].at = docs[i].at
                     /\ docs'[i].read = (docs[i].read \/ i \in Unread(u, ids))
  <2> SUFFICES ASSUME NEW i \in Ids
               PROVE  /\ docs'[i] \in Doc /\ docs'[i].key = docs[i].key /\ docs'[i].at = docs[i].at
                      /\ docs'[i].read = (docs[i].read \/ i \in Unread(u, ids))
    OBVIOUS
  <2>1. docs'[i] = [docs[i] EXCEPT !.read = docs[i].read \/ i \in Unread(u, ids)] /\ docs[i] \in Doc
    BY <1>1, <1>2
  <2>2. (docs[i].read \/ i \in Unread(u, ids)) \in BOOLEAN
    OBVIOUS
  <2> QED BY <2>1, <2>2 DEF Doc
<1>4. Ids' = Ids /\ docs' \in [Ids -> Doc]
  BY <1>1, <1>3 DEF Ids
<1>5. TypeOK'
  BY <1>1, <1>4 DEF TypeInv, TypeOK
<1>6. IdsInv'
  BY <1>1, <1>3, <1>4, SameIds
<1> QED BY <1>3, <1>4, <1>5, <1>6 DEF TypeInv

LEMMA AggregateTypeInv ==
  ASSUME TypeInv, NEW c \in Cleaners, Aggregate(c)
  PROVE  TypeInv'
<1> DEFINE S == {i \in Ids : Cardinality(Group(i)) > 1 /\ i # Latest(Group(i))}
<1>1. /\ doomed' = [doomed EXCEPT ![c] = S] /\ docs' = docs /\ Ids' = Ids /\ clock' = clock /\ call' = call
      /\ written' = written /\ pending' = pending /\ sent' = sent /\ indexed' = indexed /\ stops' = stops
      /\ cleans' = cleans + 1
  BY DEF Aggregate, Ids
<1>2. S \subseteq Ids
  OBVIOUS
<1>3. \A i \in S : docs[i].key \in StateKeys
  <2> SUFFICES ASSUME NEW i \in Ids, Cardinality(Group(i)) > 1, docs[i].key \notin StateKeys PROVE FALSE
    OBVIOUS
  <2> QED BY FS_Singleton DEF Group
<1> HIDE DEF S
<1>4. doomed' \in [Cleaners -> {None} \cup SUBSET Nat] /\ doomed'[c] = S
      /\ \A d \in Cleaners \ {c} : doomed'[d] = doomed[d]
  BY <1>1, <1>2 DEF TypeInv, TypeOK
<1>5. disturbed' \in BOOLEAN /\ cleans' \in Nat
  BY DEF Aggregate, TypeInv, TypeOK
<1>6. TypeOK'
  BY <1>1, <1>4, <1>5 DEF TypeInv, TypeOK
<1>7. NewId(clock)' = NewId(clock) /\ \A n : NewId(n)' = NewId(n)
  BY <1>1 DEF NewId
<1>8. ASSUME NEW d \in Cleaners PROVE CleanOK(d)'
  <2>1. CASE d = c
    <3>1. S \subseteq 1..NewId(clock)
      BY <1>2 DEF TypeInv, IdsInv, DocOK
    <3> QED BY <1>1, <1>3, <1>4, <1>7, <2>1, <3>1 DEF CleanOK
  <2>2. CASE d # c
    BY <1>1, <1>4, <1>7, <2>2 DEF CleanOK, TypeInv, IdsInv
  <2> QED BY <2>1, <2>2
<1>9. ASSUME NEW p \in Callers PROVE CallOK(p)'
  BY <1>1, <1>2, <1>4, <1>7 DEF CallOK, TypeInv, IdsInv
<1>10. ASSUME NEW i \in Ids PROVE DocOK(i)'
  BY <1>1, <1>7 DEF DocOK, TypeInv, IdsInv
<1> QED BY <1>1, <1>6, <1>8, <1>9, <1>10 DEF TypeInv, IdsInv, CallOK, CleanOK

LEMMA DeleteTypeInv ==
  ASSUME TypeInv, NEW c \in Cleaners, Delete(c)
  PROVE  /\ TypeInv' /\ Ids' \subseteq Ids /\ \A i \in Ids' : docs'[i] = docs[i]
         /\ Ids \ Ids' \subseteq doomed[c]
<1>1. /\ doomed[c] # None /\ UNCHANGED <<indexed, clock, call, historyVars, cleans, stops>>
  BY DEF Delete
<1>2. /\ Ids' \subseteq Ids /\ \A i \in Ids' : docs'[i] = docs[i]
      /\ docs' \in [Ids' -> Doc] /\ Ids \ Ids' \subseteq doomed[c]
      /\ doomed' \in [Cleaners -> {None} \cup SUBSET Nat]
      /\ \A d \in Cleaners : doomed'[d] # None => doomed[d] # None /\ doomed'[d] \subseteq doomed[d]
  <2>1. CASE doomed[c] = {} /\ doomed' = [doomed EXCEPT ![c] = None] /\ docs' = docs
    BY <2>1 DEF TypeInv, TypeOK, Ids
  <2>2. CASE \E i \in doomed[c] : /\ docs' = Restrict(docs, Ids \ {i})
                                  /\ doomed' = [doomed EXCEPT ![c] = @ \ {i}]
    <3>1. PICK i \in doomed[c] : /\ docs' = Restrict(docs, Ids \ {i})
                                 /\ doomed' = [doomed EXCEPT ![c] = doomed[c] \ {i}]
      BY <2>2
    <3>2. docs' = [j \in Ids \ {i} |-> docs[j]]
      BY <3>1 DEF Restrict
    <3>3. Ids' = Ids \ {i} /\ \A j \in Ids' : docs'[j] = docs[j]
      BY <3>2 DEF Ids
    <3>4. doomed[c] \in SUBSET Nat
      BY <1>1 DEF TypeInv, TypeOK
    <3>5. doomed' \in [Cleaners -> {None} \cup SUBSET Nat]
      BY <3>1, <3>4 DEF TypeInv, TypeOK
    <3>6. \A d \in Cleaners : doomed'[d] # None => doomed[d] # None /\ doomed'[d] \subseteq doomed[d]
      BY <1>1, <3>1 DEF TypeInv, TypeOK
    <3>7. docs' \in [Ids' -> Doc]
      BY <3>2, <3>3 DEF TypeInv, TypeOK
    <3> QED BY <3>1, <3>3, <3>5, <3>6, <3>7
  <2> QED BY <2>1, <2>2 DEF Delete
<1>3. TypeOK'
  BY <1>1, <1>2 DEF TypeInv, TypeOK, historyVars
<1>4. NewId(clock)' = NewId(clock) /\ \A n : NewId(n)' = NewId(n)
  BY <1>1 DEF NewId
<1>5. ASSUME NEW i \in Ids' PROVE DocOK(i)'
  BY <1>1, <1>2, <1>4 DEF DocOK, TypeInv, IdsInv, historyVars
<1>6. ASSUME NEW p \in Callers PROVE CallOK(p)'
  BY <1>1, <1>2, <1>4 DEF CallOK, TypeInv, IdsInv
<1>7. ASSUME NEW d \in Cleaners PROVE CleanOK(d)'
  BY <1>1, <1>2, <1>4 DEF CleanOK, TypeInv, IdsInv
<1> QED BY <1>2, <1>3, <1>5, <1>6, <1>7 DEF TypeInv, IdsInv, CallOK, CleanOK

LEMMA RestartTypeInv ==
  ASSUME TypeInv, Restart
  PROVE  TypeInv'
<1>1. /\ call' = [p \in Callers |-> None] /\ doomed' = [c \in Cleaners |-> None]
      /\ docs' = docs /\ Ids' = Ids /\ clock' = clock /\ UNCHANGED historyVars /\ cleans' = cleans
  BY DEF Restart, Ids
<1>2. indexed' \in BOOLEAN /\ stops' \in Nat
  BY DEF Restart, NoDuplicates, TypeInv, TypeOK
<1>3. TypeOK'
  <2>1. call' \in [Callers -> Call \cup {None}] /\ doomed' \in [Cleaners -> {None} \cup SUBSET Nat]
    BY <1>1 DEF Call
  <2>2. docs' \in [Ids' -> Doc] /\ Ids' \subseteq Nat /\ clock' \in Nat
    BY <1>1 DEF TypeInv, TypeOK
  <2>3. /\ sent' \in [HistoryKeys -> Nat] /\ pending' \subseteq written' /\ written' \subseteq StateKeys
        /\ disturbed' \in BOOLEAN /\ cleans' \in Nat
    BY <1>1 DEF TypeInv, TypeOK, historyVars
  <2> QED BY <1>2, <2>1, <2>2, <2>3 DEF TypeOK
<1>4. NewId(clock)' = NewId(clock)
  BY <1>1 DEF NewId
<1> QED BY <1>1, <1>3, <1>4 DEF TypeInv, IdsInv, CallOK, CleanOK, DocOK, historyVars

LEMMA StutterTypeInv ==
  ASSUME TypeInv, UNCHANGED vars
  PROVE  TypeInv'
BY DEF TypeInv, TypeOK, IdsInv, CallOK, DocOK, CleanOK, NewId, Ids, vars, historyVars

\* Types, and that every document, every call under way and every deletion still to
\* come has an id that no other will ever have, through failures and restarts.
THEOREM NotificationTypes == Spec => []TypeInv
<1>1. TypeInv /\ [Next]_vars => TypeInv'
  <2> SUFFICES ASSUME TypeInv, [Next]_vars PROVE TypeInv'
    OBVIOUS
  <2>1. ASSUME NEW p \in Callers, NEW k \in Keys, Save(p, k) PROVE TypeInv'
    BY <2>1, UpsertTypeInv, CreateTypeInv DEF Save, Keys
  <2>2. ASSUME NEW p \in Callers, Match(p) \/ Miss(p) \/ Insert(p) \/ CallFails(p) PROVE TypeInv'
    BY <2>2, MatchTypeInv, MissTypeInv, InsertTypeInv
  <2>3. ASSUME NEW u \in Users, MarkAllRead(u) \/ MarkBatchRead(u) PROVE TypeInv'
    BY <2>3, MarkTypeInv DEF MarkAllRead, MarkBatchRead
  <2>4. ASSUME NEW c \in Cleaners, Aggregate(c) \/ Delete(c) PROVE TypeInv'
    BY <2>4, AggregateTypeInv, DeleteTypeInv
  <2>5. CASE Restart
    BY <2>5, RestartTypeInv
  <2>6. CASE UNCHANGED vars
    BY <2>6, StutterTypeInv
  <2> QED BY <2>1, <2>2, <2>3, <2>4, <2>5, <2>6 DEF Next
<1> QED BY <1>1, InitTypeInv, PTL DEF Spec
-----------------------------------------------------------------------------
(* One document per state key. *)

LEMMA AtMostOne ==
  ASSUME NEW S, IsFiniteSet(S)
  PROVE  Cardinality(S) <= 1 <=> \A x, y \in S : x = y
<1>1. Cardinality(S) \in Nat
  BY FS_CardinalityType
<1>2. ASSUME Cardinality(S) <= 1 PROVE \A x, y \in S : x = y
  <2>1. CASE Cardinality(S) = 0
    BY <2>1, FS_EmptySet
  <2>2. CASE Cardinality(S) = 1
    BY <2>2, FS_Singleton
  <2> QED BY <1>1, <1>2, <2>1, <2>2
<1>3. ASSUME \A x, y \in S : x = y PROVE Cardinality(S) <= 1
  <2>1. CASE S = {}
    BY <2>1, FS_EmptySet
  <2>2. CASE S # {}
    <3>1. PICK x \in S : S = {x}
      BY <1>3, <2>2
    <3> QED BY <3>1, FS_Singleton
  <2> QED BY <2>1, <2>2
<1> QED BY <1>2, <1>3

LEMMA FiniteIds ==
  ASSUME TypeInv
  PROVE  IsFiniteSet(Ids) /\ \A k : IsFiniteSet(With(k)) /\ Cardinality(With(k)) \in Nat
<1>1. NewId(clock) \in Nat
  BY NewIdFacts DEF TypeInv, TypeOK
<1>2. Ids \subseteq 1..NewId(clock)
  BY DEF TypeInv, IdsInv, DocOK
<1>3. IsFiniteSet(Ids)
  <2>1. IsFiniteSet(1..NewId(clock))
    BY <1>1, FS_Interval
  <2> QED BY <1>2, <2>1, FS_Subset
<1>4. \A k : With(k) \subseteq Ids
  BY DEF With
<1> QED BY <1>3, <1>4, FS_Subset, FS_CardinalityType

Alone == \A i, j \in Ids : docs[i].key = docs[j].key /\ docs[i].key \in StateKeys => i = j

LEMMA NoDuplicatesAlone ==
  ASSUME TypeInv
  PROVE  NoDuplicates <=> Alone
<1>1. \A k : Cardinality(With(k)) <= 1 <=> \A x, y \in With(k) : x = y
  BY FiniteIds, AtMostOne
<1>2. NoDuplicates <=> \A k \in StateKeys : \A x, y \in With(k) : x = y
  BY <1>1 DEF NoDuplicates
<1>3. (\A k \in StateKeys : \A x, y \in With(k) : x = y) <=> Alone
  BY DEF Alone, With
<1> QED BY <1>2, <1>3

LEMMA UniqueNext ==
  ASSUME TypeInv, UniqueInv, [Next]_vars
  PROVE  UniqueInv'
<1> USE DEF UniqueInv
<1>1. ASSUME NEW p \in Callers, NEW k \in Keys, Save(p, k) PROVE UniqueInv'
  <2>1. CASE Upsert(p, k)
    BY <2>1 DEF Upsert, Ids
  <2>2. CASE k \in HistoryKeys /\ Create(p, k)
    <3>1. \A j \in Ids' : docs'[j].key \in StateKeys => j \in Ids /\ docs'[j] = docs[j]
      BY <2>2, CreateTypeInv, NotificationAssumption
    <3> QED BY <2>2, <3>1 DEF Create
  <2> QED BY <1>1, <2>1, <2>2 DEF Save, Keys
<1>2. ASSUME NEW p \in Callers, Match(p) PROVE UniqueInv'
  <2>1. PICK i \in With(call[p].key) : docs' = [docs EXCEPT ![i] = Fresh(p)]
    BY <1>2 DEF Match, Refreshed
  <2>2. Fresh(p).key = docs[i].key /\ i \in Ids
    BY <1>2, CallTypes DEF Match, With
  <2>3. Ids' = Ids /\ docs'[i] = Fresh(p) /\ \A j \in Ids \ {i} : docs'[j] = docs[j]
    BY <2>1, <2>2 DEF Ids
  <2>4. \A j \in Ids : docs'[j].key = docs[j].key
    BY <2>2, <2>3
  <2> QED BY <1>2, <2>3, <2>4 DEF Match
<1>3. ASSUME NEW p \in Callers, Miss(p) \/ CallFails(p) PROVE UniqueInv'
  BY <1>3 DEF Miss, CallFails, Ids
<1>4. ASSUME NEW p \in Callers, Insert(p) PROVE UniqueInv'
  <2>1. CASE Refused(call[p].key)
    BY <1>4, <2>1 DEF Insert, Ids
  <2>2. CASE ~Refused(call[p].key)
    <3> DEFINE i == NewId(call[p].at)
    <3>1. docs' = WithDoc(i, Fresh(p)) /\ indexed' = indexed /\ call[p] # None
      BY <1>4, <2>2 DEF Insert
    <3>2. Fresh(p).key = call[p].key /\ call[p].key \in StateKeys
      BY <3>1, CallTypes
    <3>3. Ids' = Ids \cup {i} /\ docs'[i] = Fresh(p) /\ \A j \in Ids \ {i} : docs'[j] = docs[j]
      BY <3>1 DEF WithDoc, Ids
    <3>4. indexed => \A j \in Ids : docs[j].key # call[p].key
      BY <2>2, <3>2 DEF Refused, With
    <3> HIDE DEF i
    <3> QED BY <3>1, <3>2, <3>3, <3>4
  <2> QED BY <2>1, <2>2
<1>5. ASSUME NEW u \in Users, MarkAllRead(u) \/ MarkBatchRead(u) PROVE UniqueInv'
  <2>1. PICK ids : MarkRead(u, ids)
    BY <1>5 DEF MarkAllRead, MarkBatchRead
  <2>2. indexed' = indexed
    BY <2>1 DEF MarkRead
  <2>3. Ids' = Ids /\ \A i \in Ids : docs'[i].key = docs[i].key
    BY <2>1, MarkTypeInv
  <2> QED BY <2>2, <2>3
<1>6. ASSUME NEW c \in Cleaners, Aggregate(c) PROVE UniqueInv'
  BY <1>6 DEF Aggregate, Ids
<1>7. ASSUME NEW c \in Cleaners, Delete(c) PROVE UniqueInv'
  <2>1. Ids' \subseteq Ids /\ \A i \in Ids' : docs'[i] = docs[i]
    BY <1>7, DeleteTypeInv
  <2> QED BY <1>7, <2>1 DEF Delete
<1>8. CASE Restart
  <2>1. docs' = docs /\ Ids' = Ids /\ indexed' = (indexed \/ NoDuplicates)
    BY <1>8 DEF Restart, Ids
  <2> QED BY <2>1, NoDuplicatesAlone DEF Alone
<1>9. CASE UNCHANGED vars
  BY <1>9 DEF vars, Ids
<1> QED BY <1>1, <1>2, <1>3, <1>4, <1>5, <1>6, <1>7, <1>8, <1>9 DEF Next

\* Once the index could be built, no interleaving of upserts, failures, clean-ups and
\* restarts leaves two documents of one state.
THEOREM StateKeysUnique == Spec => []StateKeyUnique
<1>1. Init => UniqueInv
  <2> SUFFICES ASSUME Init PROVE UniqueInv
    OBVIOUS
  <2>1. TypeInv
    BY InitTypeInv
  <2> QED BY <2>1, NoDuplicatesAlone DEF Init, UniqueInv, Alone
<1>2. TypeInv /\ UniqueInv /\ [Next]_vars => UniqueInv'
  BY UniqueNext
<1>3. TypeInv /\ UniqueInv => StateKeyUnique
  BY NoDuplicatesAlone DEF UniqueInv, Alone, StateKeyUnique
<1> QED BY <1>1, <1>2, <1>3, NotificationTypes, PTL DEF Spec
-----------------------------------------------------------------------------
(* The history and its pages. *)

\* Of the pages of n documents exactly one holds the document at place r.
LEMMA OnOnePage ==
  ASSUME NEW n \in Nat, NEW r \in Nat, r < n, NEW size \in Nat \ {0}
  PROVE  \E m \in 1 .. ((n + size - 1) \div size) :
            \A l \in 1 .. ((n + size - 1) \div size) :
               r \in ((l - 1) * size) .. (l * size - 1) <=> l = m
<1> DEFINE q == r \div size
           last == (n + size - 1) \div size
<1>1. q \in Nat /\ q * size <= r /\ r < (q + 1) * size
  OBVIOUS
<1>2. last \in Nat /\ n + size - 1 < (last + 1) * size
  OBVIOUS
<1> HIDE DEF q, last
<1>3. q + 1 \in 1..last
  <2>1. SUFFICES ASSUME last <= q PROVE FALSE
    BY <1>1, <1>2
  <2>2. (last + 1) * size <= (q + 1) * size
    BY <1>1, <1>2, <2>1
  <2>3. (q + 1) * size = q * size + size
    BY <1>1
  <2> QED BY <1>1, <1>2, <2>2, <2>3
<1>4. ASSUME NEW l \in 1..last PROVE r \in ((l - 1) * size) .. (l * size - 1) <=> l = q + 1
  <2>1. (l - 1) * size \in Int /\ l * size \in Int /\ l * size = (l - 1) * size + size
    BY <1>2
  <2>2. CASE l = q + 1
    BY <1>1, <2>1, <2>2
  <2>3. CASE l < q + 1
    <3>1. l * size <= q * size
      BY <1>1, <1>2, <2>3
    <3> QED BY <1>1, <2>1, <2>3, <3>1
  <2>4. CASE l > q + 1
    <3>1. (q + 1) * size <= (l - 1) * size
      BY <1>1, <1>2, <2>4
    <3> QED BY <1>1, <2>1, <2>4, <3>1
  <2> QED BY <1>1, <1>2, <2>2, <2>3, <2>4
<1> QED BY <1>3, <1>4 DEF last

LEMMA EveryPage ==
  ASSUME TypeInv, NEW k \in HistoryKeys, NEW i \in With(k)
  PROVE  Cardinality({n \in Pages(Receiver[k]) : i \in Page(Receiver[k], n)}) = 1
<1> DEFINE u == Receiver[k]
           Ahead == {j \in Of(u) : Before(j, i)}
<1>1. IsFiniteSet(Of(u)) /\ Cardinality(Of(u)) \in Nat
  BY FiniteIds, FS_Subset, FS_CardinalityType DEF Of
<1>2. i \in Of(u)
  BY DEF With, Of
<1>3. i \notin Ahead /\ Ahead \subseteq Of(u)
  <2>1. i \in Nat /\ docs[i].at \in Nat
    BY DEF With, TypeInv, TypeOK, Doc
  <2> QED BY <2>1 DEF Before
<1>4. Cardinality(Ahead) \in Nat /\ Cardinality(Ahead) < Cardinality(Of(u))
  <2>1. IsFiniteSet(Ahead) /\ Cardinality(Ahead) \in Nat
    BY <1>1, <1>3, FS_Subset, FS_CardinalityType
  <2>2. Cardinality(Ahead) <= Cardinality(Of(u)) /\ Cardinality(Ahead) # Cardinality(Of(u))
    BY <1>1, <1>2, <1>3, FS_Subset
  <2> QED BY <1>1, <2>1, <2>2
<1>5. PageSize \in Nat \ {0}
  BY NotificationAssumption
<1>6. PICK m \in Pages(u) :
         \A l \in Pages(u) : Cardinality(Ahead) \in ((l - 1) * PageSize) .. (l * PageSize - 1) <=> l = m
  BY <1>1, <1>4, <1>5, OnOnePage DEF Pages
<1>7. \A l : i \in Page(u, l) <=> Cardinality(Ahead) \in ((l - 1) * PageSize) .. (l * PageSize - 1)
  BY <1>2 DEF Page
<1>8. {n \in Pages(u) : i \in Page(u, n)} = {m}
  BY <1>6, <1>7
<1> QED BY <1>8, FS_Singleton

LEMMA SameHistory ==
  ASSUME HistoryInv, sent' = sent, \A k \in HistoryKeys : With(k)' = With(k)
  PROVE  HistoryInv'
BY DEF HistoryInv

LEMMA KeysKept ==
  ASSUME Ids' = Ids, \A i \in Ids : docs'[i].key = docs[i].key
  PROVE  \A k : With(k)' = With(k)
BY DEF With

LEMMA HistoryNext ==
  ASSUME TypeInv, HistoryInv, [Next]_vars
  PROVE  HistoryInv'
<1>1. ASSUME docs' = docs, sent' = sent PROVE HistoryInv'
  BY <1>1, SameHistory DEF With, Ids
<1>2. ASSUME NEW p \in Callers, NEW k \in Keys, Save(p, k) PROVE HistoryInv'
  <2>1. CASE Upsert(p, k)
    BY <1>1, <2>1 DEF Upsert, historyVars
  <2>2. CASE k \in HistoryKeys /\ Create(p, k)
    <3> DEFINE i == NewId(clock + 1)
    <3>1. Ids' = Ids \cup {i} /\ i \notin Ids /\ docs'[i].key = k /\ \A j \in Ids : docs'[j] = docs[j]
      BY <2>2, CreateTypeInv
    <3>2. sent' = [sent EXCEPT ![k] = sent[k] + 1] /\ sent \in [HistoryKeys -> Nat]
      BY <2>2 DEF Create, TypeInv, TypeOK
    <3> HIDE DEF i
    <3>3. With(k)' = With(k) \cup {i} /\ i \notin With(k)
      BY <3>1 DEF With
    <3>4. \A l \in HistoryKeys \ {k} : With(l)' = With(l)
      BY <3>1 DEF With
    <3>5. Cardinality(With(k)') = Cardinality(With(k)) + 1
      BY <3>3, FiniteIds, FS_AddElement
    <3>6. Cardinality(With(k)') = sent'[k]
      BY <2>2, <3>2, <3>5 DEF HistoryInv
    <3>7. \A l \in HistoryKeys \ {k} : Cardinality(With(l)') = sent'[l]
      BY <3>2, <3>4 DEF HistoryInv
    <3> QED BY <3>6, <3>7 DEF HistoryInv
  <2> QED BY <1>2, <2>1, <2>2 DEF Save, Keys
<1>3. ASSUME NEW p \in Callers, Match(p) PROVE HistoryInv'
  <2>1. PICK i \in With(call[p].key) : docs' = [docs EXCEPT ![i] = Fresh(p)]
    BY <1>3 DEF Match, Refreshed
  <2>2. Fresh(p).key = docs[i].key /\ i \in Ids
    BY <1>3, CallTypes DEF Match, With
  <2>3. Ids' = Ids /\ docs'[i] = Fresh(p) /\ \A j \in Ids \ {i} : docs'[j] = docs[j]
    BY <2>1, <2>2 DEF Ids
  <2>4. \A j \in Ids : docs'[j].key = docs[j].key
    BY <2>2, <2>3
  <2> QED BY <1>3, <2>3, <2>4, KeysKept, SameHistory DEF Match, Wrote
<1>4. ASSUME NEW p \in Callers, Miss(p) \/ CallFails(p) PROVE HistoryInv'
  BY <1>1, <1>4 DEF Miss, CallFails, historyVars
<1>5. ASSUME NEW p \in Callers, Insert(p) PROVE HistoryInv'
  <2>1. CASE Refused(call[p].key)
    BY <1>1, <1>5, <2>1 DEF Insert, historyVars
  <2>2. CASE ~Refused(call[p].key)
    <3> DEFINE i == NewId(call[p].at)
    <3>1. docs' = WithDoc(i, Fresh(p)) /\ call[p] # None /\ sent' = sent
      BY <1>5, <2>2 DEF Insert, Wrote
    <3>2. Fresh(p).key \in StateKeys /\ i \notin Ids
      BY <3>1, CallTypes
    <3>3. Ids' = Ids \cup {i} /\ docs'[i] = Fresh(p) /\ \A j \in Ids : docs'[j] = docs[j]
      BY <3>1, <3>2 DEF WithDoc, Ids
    <3> HIDE DEF i
    <3>4. \A k \in HistoryKeys : With(k)' = With(k)
      BY <3>2, <3>3, NotificationAssumption DEF With
    <3> QED BY <3>1, <3>4, SameHistory
  <2> QED BY <2>1, <2>2
<1>6. ASSUME NEW u \in Users, MarkAllRead(u) \/ MarkBatchRead(u) PROVE HistoryInv'
  <2>1. PICK ids : MarkRead(u, ids)
    BY <1>6 DEF MarkAllRead, MarkBatchRead
  <2>2. sent' = sent
    BY <2>1 DEF MarkRead
  <2>3. Ids' = Ids /\ \A i \in Ids : docs'[i].key = docs[i].key
    BY <2>1, MarkTypeInv
  <2> QED BY <2>2, <2>3, KeysKept, SameHistory
<1>7. ASSUME NEW c \in Cleaners, Aggregate(c) PROVE HistoryInv'
  BY <1>1, <1>7 DEF Aggregate
<1>8. ASSUME NEW c \in Cleaners, Delete(c) PROVE HistoryInv'
  <2>1. Ids' \subseteq Ids /\ (\A i \in Ids' : docs'[i] = docs[i]) /\ Ids \ Ids' \subseteq doomed[c]
    BY <1>8, DeleteTypeInv
  <2>2. doomed[c] # None /\ sent' = sent
    BY <1>8 DEF Delete, historyVars
  <2>3. \A i \in Ids \ Ids' : docs[i].key \in StateKeys
    BY <2>1, <2>2 DEF TypeInv, IdsInv, CleanOK
  <2>4. \A k \in HistoryKeys : With(k)' = With(k)
    BY <2>1, <2>3, NotificationAssumption DEF With
  <2> QED BY <2>2, <2>4, SameHistory
<1>9. CASE Restart \/ UNCHANGED vars
  BY <1>1, <1>9 DEF Restart, vars, historyVars
<1> QED BY <1>2, <1>3, <1>4, <1>5, <1>6, <1>7, <1>8, <1>9 DEF Next

\* Every comment and message ever stored is still there and on exactly one page of
\* its receiver's list, for pages of any size and whatever is cleaned up.
THEOREM HistoryStays == Spec => []HistoryComplete
<1>1. Init => HistoryInv
  BY DEF Init, HistoryInv
<1>2. TypeInv /\ HistoryInv /\ [Next]_vars => HistoryInv'
  BY HistoryNext
<1>3. TypeInv /\ HistoryInv => HistoryComplete
  BY EveryPage DEF HistoryInv, HistoryComplete
<1> QED BY <1>1, <1>2, <1>3, NotificationTypes, PTL DEF Spec
-----------------------------------------------------------------------------
(* Clean-ups. *)

LEMMA SmallestOf ==
  ASSUME NEW T \in SUBSET Nat, T # {}
  PROVE  \E m \in T : \A n \in T : m <= n
<1> DEFINE R == OpToRel(<, Nat)
<1>1. IsWellFoundedOn(R, Nat)
  BY NatLessThanWellFounded
<1> HIDE DEF R
<1>2. PICK m \in T : \A n \in T : ~(<<n, m>> \in R)
  BY <1>1, WFMin
<1>3. \A n \in T : ~(n < m)
  <2> SUFFICES ASSUME NEW n \in T, n < m PROVE <<n, m>> \in R
    BY <1>2
  <2> QED BY DEF R, OpToRel
<1> QED BY <1>3

\* Sorting by descending createdAt finds a first document.
LEMMA LatestExists ==
  ASSUME TypeInv, NEW k, With(k) # {}
  PROVE  /\ Latest(With(k)) \in With(k)
         /\ \A j \in With(k) : docs[Latest(With(k))].at >= docs[j].at
<1> DEFINE T == {clock - docs[i].at : i \in With(k)}
<1>1. clock \in Nat /\ \A i \in With(k) : docs[i].at \in Nat /\ docs[i].at <= clock
  BY DEF With, TypeInv, TypeOK, IdsInv, DocOK, Doc
<1>2. T \in SUBSET Nat /\ T # {}
  BY <1>1
<1>3. PICK m \in T : \A n \in T : m <= n
  BY <1>2, SmallestOf
<1>4. PICK i \in With(k) : m = clock - docs[i].at
  BY <1>3
<1>5. \A j \in With(k) : docs[i].at >= docs[j].at
  <2> SUFFICES ASSUME NEW j \in With(k) PROVE docs[i].at >= docs[j].at
    OBVIOUS
  <2>1. clock - docs[i].at <= clock - docs[j].at
    BY <1>3, <1>4
  <2> QED BY <1>1, <2>1
<1> QED BY <1>5 DEF Latest

LEMMA SameLost ==
  ASSUME LostInv, \A k : With(k)' = With(k), written' = written,
         \A c \in Cleaners : doomed'[c] # None => doomed[c] # None /\ doomed'[c] = doomed[c]
  PROVE  LostInv'
BY DEF LostInv, Left

LEMMA LostNext ==
  ASSUME \A c, d \in Cleaners : c = d, TypeInv, LostInv, [Next]_vars
  PROVE  LostInv'
<1>1. ASSUME docs' = docs, written' = written,
             \A c \in Cleaners : doomed'[c] # None => doomed[c] # None /\ doomed'[c] = doomed[c]
      PROVE  LostInv'
  <2>1. \A k : With(k)' = With(k)
    BY <1>1 DEF With, Ids
  <2> QED BY <1>1, <2>1, SameLost
<1>2. ASSUME NEW i, NEW k, Ids' = Ids \cup {i}, docs'[i].key = k, \A j \in Ids : docs'[j] = docs[j],
             i \notin Ids, written' \subseteq written \cup {k}, doomed' = doomed,
             \A c \in Cleaners : doomed[c] # None => i \notin doomed[c]
      PROVE  LostInv'
  <2>1. With(k)' = With(k) \cup {i} /\ \A l : With(l) \subseteq With(l)'
    BY <1>2 DEF With
  <2>2. ASSUME NEW l \in written' PROVE With(l)' # {} /\ \A c \in Cleaners : Left(l, c)'
    <3>1. CASE l = k
      BY <1>2, <2>1, <3>1 DEF Left
    <3>2. CASE l # k
      BY <1>2, <2>1, <2>2, <3>2 DEF LostInv, Left
    <3> QED BY <3>1, <3>2
  <2> QED BY <2>2 DEF LostInv
<1>3. ASSUME NEW p \in Callers, NEW k \in Keys, Save(p, k) PROVE LostInv'
  <2>1. CASE Upsert(p, k)
    BY <1>1, <2>1 DEF Upsert, historyVars
  <2>2. CASE k \in HistoryKeys /\ Create(p, k)
    <3>1. /\ Ids' = Ids \cup {NewId(clock + 1)} /\ NewId(clock + 1) \notin Ids
          /\ docs'[NewId(clock + 1)].key = k /\ \A j \in Ids : docs'[j] = docs[j]
      BY <2>2, CreateTypeInv
    <3>2. \A l : With(l) \subseteq With(l)'
      BY <3>1 DEF With
    <3>3. written' = written /\ doomed' = doomed
      BY <2>2 DEF Create
    <3> QED BY <3>2, <3>3 DEF LostInv, Left
  <2> QED BY <1>3, <2>1, <2>2 DEF Save, Keys
<1>4. ASSUME NEW p \in Callers, Match(p) PROVE LostInv'
  <2>1. PICK i \in With(call[p].key) : docs' = [docs EXCEPT ![i] = Fresh(p)]
    BY <1>4 DEF Match, Refreshed
  <2>2. Fresh(p).key = docs[i].key /\ i \in Ids /\ call[p].key \in StateKeys /\ docs[i].key = call[p].key
    BY <1>4, <2>1, CallTypes DEF Match, With
  <2>3. Ids' = Ids /\ docs'[i] = Fresh(p) /\ \A j \in Ids \ {i} : docs'[j] = docs[j]
    BY <2>1, <2>2 DEF Ids
  <2>4. \A j \in Ids : docs'[j].key = docs[j].key
    BY <2>2, <2>3
  <2>5. \A k : With(k)' = With(k)
    BY <2>3, <2>4, KeysKept
  <2>6. call[p].key \in written
    BY <2>2 DEF TypeInv, IdsInv, DocOK
  <2>7. written' = written /\ doomed' = doomed
    BY <1>4, <2>6 DEF Match, Wrote
  <2> QED BY <2>5, <2>7, SameLost
<1>5. ASSUME NEW p \in Callers, Miss(p) \/ CallFails(p) PROVE LostInv'
  BY <1>1, <1>5 DEF Miss, CallFails, historyVars
<1>6. ASSUME NEW p \in Callers, Insert(p) PROVE LostInv'
  <2>1. CASE Refused(call[p].key)
    BY <1>1, <1>6, <2>1 DEF Insert, historyVars
  <2>2. CASE ~Refused(call[p].key)
    <3> DEFINE i == NewId(call[p].at)
    <3>1. /\ docs' = WithDoc(i, Fresh(p)) /\ call[p] # None /\ written' = written \cup {call[p].key}
          /\ doomed' = doomed
      BY <1>6, <2>2 DEF Insert, Wrote
    <3>2. /\ Fresh(p).key = call[p].key /\ i \notin Ids
          /\ \A c \in Cleaners : doomed[c] # None => i \notin doomed[c]
      BY <3>1, CallTypes
    <3>3. Ids' = Ids \cup {i} /\ docs'[i] = Fresh(p) /\ \A j \in Ids : docs'[j] = docs[j]
      BY <3>1, <3>2 DEF WithDoc, Ids
    <3> HIDE DEF i
    <3> QED BY <1>2, <3>1, <3>2, <3>3
  <2> QED BY <2>1, <2>2
<1>7. ASSUME NEW u \in Users, MarkAllRead(u) \/ MarkBatchRead(u) PROVE LostInv'
  <2>1. PICK ids : MarkRead(u, ids)
    BY <1>7 DEF MarkAllRead, MarkBatchRead
  <2>2. written' = written /\ doomed' = doomed
    BY <2>1 DEF MarkRead
  <2>3. Ids' = Ids /\ \A i \in Ids : docs'[i].key = docs[i].key
    BY <2>1, MarkTypeInv
  <2> QED BY <2>2, <2>3, KeysKept, SameLost
<1>8. ASSUME NEW c \in Cleaners, Aggregate(c) PROVE LostInv'
  <2> DEFINE S == {i \in Ids : Cardinality(Group(i)) > 1 /\ i # Latest(Group(i))}
  <2>1. docs' = docs /\ written' = written /\ doomed' = [doomed EXCEPT ![c] = S]
    BY <1>8 DEF Aggregate
  <2>2. \A k : With(k)' = With(k)
    BY <2>1 DEF With, Ids
  <2>3. ASSUME NEW k \in written PROVE With(k) \ S # {}
    <3>1. With(k) # {} /\ k \in StateKeys
      BY <2>3 DEF LostInv, TypeInv, TypeOK
    <3>2. Latest(With(k)) \in With(k)
      BY <3>1, LatestExists
    <3>3. Group(Latest(With(k))) = With(k)
      BY <3>1, <3>2 DEF Group, With
    <3>4. Latest(With(k)) \notin S
      BY <3>3
    <3> QED BY <3>2, <3>4
  <2>4. doomed'[c] = S
    BY <2>1 DEF TypeInv, TypeOK
  <2> HIDE DEF S
  <2> QED BY <2>1, <2>2, <2>3, <2>4 DEF LostInv, Left
<1>9. ASSUME NEW c \in Cleaners, Delete(c) PROVE LostInv'
  <2>1. CASE doomed[c] = {} /\ doomed' = [doomed EXCEPT ![c] = None] /\ docs' = docs
    BY <1>1, <1>9, <2>1 DEF Delete, historyVars, TypeInv, TypeOK
  <2>2. CASE \E i \in doomed[c] : /\ docs' = Restrict(docs, Ids \ {i})
                                  /\ doomed' = [doomed EXCEPT ![c] = @ \ {i}]
    <3>1. PICK i \in doomed[c] : /\ docs' = Restrict(docs, Ids \ {i})
                                 /\ doomed' = [doomed EXCEPT ![c] = doomed[c] \ {i}]
      BY <2>2
    <3>2. Ids' = Ids \ {i} /\ \A j \in Ids' : docs'[j] = docs[j]
      BY <3>1 DEF Restrict, Ids
    <3>3. doomed'[c] = doomed[c] \ {i} /\ doomed[c] # None /\ written' = written
      BY <1>9, <3>1 DEF Delete, historyVars, TypeInv, TypeOK
    <3>4. \A k : With(k) \ doomed[c] \subseteq With(k)' \ doomed'[c]
      BY <3>2, <3>3 DEF With
    <3>5. ASSUME NEW k \in written PROVE With(k) \ doomed[c] # {}
      BY <3>3, <3>5 DEF LostInv, Left
    <3>6. ASSUME NEW k \in written PROVE With(k)' # {} /\ With(k)' \ doomed'[c] # {}
      BY <3>4, <3>5, <3>6
    <3> QED BY <3>3, <3>6 DEF LostInv, Left
  <2> QED BY <1>9, <2>1, <2>2 DEF Delete
<1>10. CASE Restart
  BY <1>1, <1>10 DEF Restart, historyVars
<1>11. CASE UNCHANGED vars
  BY <1>1, <1>11 DEF vars, historyVars
<1> QED BY <1>3, <1>4, <1>5, <1>6, <1>7, <1>8, <1>9, <1>10, <1>11 DEF Next

\* One clean-up at a time never deletes the last document of a state, wherever upserts
\* insert and refresh documents between its aggregation and its deletions, and
\* wherever it stops.
THEOREM StatesNeverLost ==
  ASSUME \A c, d \in Cleaners : c = d
  PROVE  Spec => []NeverLost
<1>1. Init => LostInv
  BY DEF Init, LostInv, Left, With
<1>2. TypeInv /\ LostInv /\ [Next]_vars => LostInv'
  BY LostNext
<1>3. LostInv => NeverLost
  BY DEF LostInv, NeverLost
<1> QED BY <1>1, <1>2, <1>3, NotificationTypes, PTL DEF Spec
-----------------------------------------------------------------------------
(* What is unread. *)

LEMMA SameShown ==
  ASSUME KeptInv, docs' = docs, pending' = pending, disturbed' = disturbed,
         \A c \in Cleaners : doomed'[c] # None => doomed[c] # None /\ doomed'[c] = doomed[c]
  PROVE  KeptInv'
<1>1. ASSUME NEW k, NEW i, Shown(k, i) PROVE Shown(k, i)'
  BY <1>1 DEF Shown, With, Ids
<1> QED BY <1>1 DEF KeptInv, Ids

\* A write while no clean-up runs and no later document of its state is there.
LEMMA WrittenShown ==
  ASSUME TypeInv, NEW p \in Callers, call[p] # None, KeptInv,
         NEW i \in Ids', docs'[i] = Fresh(p),
         \A j \in Ids' \ {i} : j \in Ids /\ docs'[j] = docs[j],
         \A j \in Ids : j # i => j \in Ids',
         i \in Ids => docs[i].key = call[p].key,
         Wrote(p), doomed' = doomed
  PROVE  KeptInv'
<1>1. SUFFICES ASSUME ~disturbed', NEW k \in pending' PROVE \E j \in Ids' : Shown(k, j)'
  BY DEF KeptInv
<1>2. /\ ~disturbed /\ ~Cleaning /\ \A j \in With(call[p].key) : ~(docs[j].at > call[p].at)
      /\ k \in pending \/ k = call[p].key
  BY <1>1 DEF Wrote
<1>3. /\ Fresh(p).key = call[p].key /\ Fresh(p).at = call[p].at /\ ~Fresh(p).read /\ call[p].at \in Nat
      /\ \A j \in Ids : docs[j].at # call[p].at
  BY CallTypes
<1>4. \A c \in Cleaners : doomed'[c] = None
  BY <1>2 DEF Cleaning
<1>5. CASE k = call[p].key
  <2>1. i \in With(k)' /\ ~docs'[i].read
    BY <1>3, <1>5 DEF With
  <2>2. ASSUME NEW j \in With(k)' \ {i} PROVE docs'[j].at < docs'[i].at
    <3>1. j \in With(call[p].key) /\ docs'[j] = docs[j]
      BY <1>5, <2>2 DEF With
    <3>2. docs[j].at \in Nat
      BY <3>1 DEF With, TypeInv, TypeOK, Doc
    <3> QED BY <1>2, <1>3, <3>1, <3>2 DEF With
  <2> QED BY <1>4, <2>1, <2>2 DEF Shown
<1>6. CASE k # call[p].key
  <2>1. PICK j \in Ids : Shown(k, j)
    BY <1>2, <1>6 DEF KeptInv
  <2>2. docs[j].key = k /\ j # i /\ j \in Ids' /\ docs'[j] = docs[j]
    BY <1>6, <2>1 DEF Shown, With
  <2>3. With(k)' = With(k)
    BY <1>3, <1>6 DEF With
  <2>4. \A l \in With(k) : docs'[l] = docs[l]
    BY <1>6 DEF With
  <2> QED BY <1>4, <2>1, <2>2, <2>3, <2>4 DEF Shown
<1> QED BY <1>5, <1>6

LEMMA KeptNext ==
  ASSUME TypeInv, KeptInv, [Next]_vars
  PROVE  KeptInv'
<1>1. ASSUME NEW p \in Callers, NEW k \in Keys, Save(p, k) PROVE KeptInv'
  <2>1. CASE Upsert(p, k)
    BY <2>1, SameShown DEF Upsert, historyVars
  <2>2. CASE k \in HistoryKeys /\ Create(p, k)
    <3>1. /\ Ids' = Ids \cup {NewId(clock + 1)} /\ NewId(clock + 1) \notin Ids
          /\ docs'[NewId(clock + 1)].key = k /\ \A j \in Ids : docs'[j] = docs[j]
      BY <2>2, CreateTypeInv
    <3>2. pending' = pending /\ disturbed' = disturbed /\ doomed' = doomed
      BY <2>2 DEF Create
    <3>3. \A l \in StateKeys : With(l)' = With(l) /\ \A j \in With(l) : docs'[j] = docs[j]
      BY <2>2, <3>1, NotificationAssumption DEF With
    <3>4. pending \subseteq StateKeys
      BY DEF TypeInv, TypeOK
    <3>5. ASSUME NEW l \in pending, NEW i \in Ids, Shown(l, i) PROVE Shown(l, i)'
      BY <3>1, <3>2, <3>3, <3>4, <3>5 DEF Shown
    <3> QED BY <3>1, <3>2, <3>5 DEF KeptInv
  <2> QED BY <1>1, <2>1, <2>2 DEF Save, Keys
<1>2. ASSUME NEW p \in Callers, Match(p) PROVE KeptInv'
  <2>1. PICK i \in With(call[p].key) : docs' = [docs EXCEPT ![i] = Fresh(p)]
    BY <1>2 DEF Match, Refreshed
  <2>2. i \in Ids /\ docs[i].key = call[p].key
    BY <2>1 DEF With
  <2>3. Ids' = Ids /\ docs'[i] = Fresh(p) /\ \A j \in Ids \ {i} : docs'[j] = docs[j]
    BY <2>1, <2>2 DEF Ids
  <2> QED BY <1>2, <2>2, <2>3, WrittenShown DEF Match
<1>3. ASSUME NEW p \in Callers, Miss(p) \/ CallFails(p) PROVE KeptInv'
  BY <1>3, SameShown DEF Miss, CallFails, historyVars
<1>4. ASSUME NEW p \in Callers, Insert(p) PROVE KeptInv'
  <2>1. CASE Refused(call[p].key)
    BY <1>4, <2>1, SameShown DEF Insert, historyVars
  <2>2. CASE ~Refused(call[p].key)
    <3> DEFINE i == NewId(call[p].at)
    <3>1. docs' = WithDoc(i, Fresh(p)) /\ call[p] # None /\ Wrote(p) /\ doomed' = doomed
      BY <1>4, <2>2 DEF Insert
    <3>2. i \notin Ids
      BY <3>1, CallTypes
    <3>3. Ids' = Ids \cup {i} /\ docs'[i] = Fresh(p) /\ \A j \in Ids : docs'[j] = docs[j]
      BY <3>1, <3>2 DEF WithDoc, Ids
    <3> HIDE DEF i
    <3> QED BY <3>1, <3>2, <3>3, WrittenShown
  <2> QED BY <2>1, <2>2
<1>5. ASSUME NEW u \in Users, MarkAllRead(u) \/ MarkBatchRead(u) PROVE KeptInv'
  <2>1. PICK ids : MarkRead(u, ids)
    BY <1>5 DEF MarkAllRead, MarkBatchRead
  <2>2. /\ disturbed' = disturbed /\ doomed' = doomed
        /\ pending' = pending \ {k \in StateKeys : Receiver[k] = u /\ With(k) \cap ids # {}}
    BY <2>1 DEF MarkRead
  <2>3. /\ Ids' = Ids /\ \A i \in Ids : docs'[i].key = docs[i].key /\ docs'[i].at = docs[i].at
        /\ \A i \in Ids : docs'[i].read <=> docs[i].read \/ i \in Unread(u, ids)
    BY <2>1, MarkTypeInv
  <2>4. ASSUME NEW k \in pending', NEW i \in Ids, Shown(k, i) PROVE Shown(k, i)'
    <3>1. k \in StateKeys /\ i \in With(k) /\ ~docs[i].read /\ docs[i].key = k
      BY <2>2, <2>4 DEF Shown, With, TypeInv, TypeOK
    <3>2. i \notin Unread(u, ids)
      BY <2>2, <3>1 DEF Unread
    <3>3. With(k)' = With(k)
      BY <2>3 DEF With
    <3> QED BY <2>2, <2>3, <2>4, <3>1, <3>2, <3>3 DEF Shown, With
  <2> QED BY <2>2, <2>3, <2>4 DEF KeptInv
<1>6. ASSUME NEW c \in Cleaners, Aggregate(c) PROVE KeptInv'
  <2> DEFINE S == {i \in Ids : Cardinality(Group(i)) > 1 /\ i # Latest(Group(i))}
  <2>1. /\ docs' = docs /\ Ids' = Ids /\ pending' = pending /\ doomed' = [doomed EXCEPT ![c] = S]
        /\ disturbed' = (disturbed \/ Cleaning \/ \E p \in Callers : call[p] # None)
    BY <1>6 DEF Aggregate, Ids
  <2>2. \A k : With(k)' = With(k)
    BY <2>1 DEF With
  <2>3. ASSUME NEW k \in pending, NEW i \in Ids, Shown(k, i) PROVE Shown(k, i)'
    <3>1. k \in StateKeys /\ i \in With(k) /\ docs[i].key = k
          /\ \A j \in With(k) \ {i} : docs[j].at < docs[i].at
      BY <2>3 DEF Shown, With, TypeInv, TypeOK
    <3>2. \A j \in With(k) : docs[j].at \in Nat
      BY DEF With, TypeInv, TypeOK, Doc
    <3>3. Latest(With(k)) \in With(k) /\ \A j \in With(k) : docs[Latest(With(k))].at >= docs[j].at
      BY <3>1, LatestExists
    <3>4. Latest(With(k)) = i
      BY <3>1, <3>2, <3>3
    <3>5. Group(i) = With(k)
      BY <3>1 DEF Group
    <3>6. i \notin S
      BY <3>4, <3>5
    <3>7. doomed'[c] = S /\ \A d \in Cleaners \ {c} : doomed'[d] = doomed[d]
      BY <2>1 DEF TypeInv, TypeOK
    <3> HIDE DEF S
    <3>8. \A d \in Cleaners : doomed'[d] # None => i \notin doomed'[d]
      BY <2>3, <3>6, <3>7 DEF Shown
    <3> QED BY <2>1, <2>2, <2>3, <3>8 DEF Shown
  <2> QED BY <2>1, <2>3 DEF KeptInv
<1>7. ASSUME NEW c \in Cleaners, Delete(c) PROVE KeptInv'
  <2>1. /\ Ids' \subseteq Ids /\ (\A i \in Ids' : docs'[i] = docs[i])
        /\ Ids \ Ids' \subseteq doomed[c]
    BY <1>7, DeleteTypeInv
  <2>2. doomed[c] # None /\ pending' = pending /\ disturbed' = disturbed
    BY <1>7 DEF Delete, historyVars
  <2>3. \A d \in Cleaners : doomed'[d] # None => doomed[d] # None /\ doomed'[d] \subseteq doomed[d]
    BY <1>7 DEF Delete, TypeInv, TypeOK
  <2>4. ASSUME NEW k \in pending, NEW i \in Ids, Shown(k, i) PROVE i \in Ids' /\ Shown(k, i)'
    <3>1. i \in Ids'
      BY <2>1, <2>2, <2>4 DEF Shown
    <3>2. With(k)' \subseteq With(k) /\ i \in With(k)'
      BY <2>1, <2>4, <3>1 DEF With, Shown
    <3> QED BY <2>1, <2>3, <2>4, <3>1, <3>2 DEF Shown, With
  <2> QED BY <2>2, <2>4 DEF KeptInv
<1>8. CASE Restart
  BY <1>8, SameShown DEF Restart, historyVars
<1>9. CASE UNCHANGED vars
  BY <1>9, SameShown DEF vars, historyVars
<1> QED BY <1>1, <1>2, <1>3, <1>4, <1>5, <1>6, <1>7, <1>8, <1>9 DEF Next

\* A state that occurred again after its receiver marked it is unread, however many
\* upserts, marks, clean-ups and restarts meet, as long as no write overlapped a
\* clean-up or a later write of its state.
THEOREM RepetitionsUnread == Spec => []UnreadKept
<1>1. Init => KeptInv
  BY DEF Init, KeptInv
<1>2. TypeInv /\ KeptInv /\ [Next]_vars => KeptInv'
  BY KeptNext
<1>3. TypeInv /\ KeptInv => UnreadKept
  <2> SUFFICES ASSUME TypeInv, KeptInv, ~disturbed, NEW k \in pending
               PROVE  With(k) \cap Unread(Receiver[k], Ids) # {}
    BY DEF UnreadKept
  <2>1. PICK i \in Ids : Shown(k, i)
    BY DEF KeptInv
  <2> QED BY <2>1 DEF Shown, With, Unread
<1> QED BY <1>1, <1>2, <1>3, NotificationTypes, PTL DEF Spec
-----------------------------------------------------------------------------
(* The boxes of Inbox. *)

\* Where the index exists a clean-up has nothing to delete.
QuietInv == indexed => \A c \in Cleaners : doomed[c] \in {None, {}}

LEMMA NothingDoomed ==
  ASSUME TypeInv, Alone
  PROVE  {i \in Ids : Cardinality(Group(i)) > 1 /\ i # Latest(Group(i))} = {}
<1> SUFFICES ASSUME NEW i \in Ids PROVE ~(Cardinality(Group(i)) > 1)
  OBVIOUS
<1>1. CASE docs[i].key \in StateKeys
  <2>1. Group(i) = With(docs[i].key) /\ \A x, y \in With(docs[i].key) : x = y
    BY <1>1 DEF Group, With, Alone
  <2>2. IsFiniteSet(Group(i)) /\ Cardinality(Group(i)) \in Nat
    BY <2>1, FiniteIds
  <2>3. Cardinality(Group(i)) <= 1
    BY <2>1, <2>2, AtMostOne
  <2> QED BY <2>2, <2>3
<1>2. CASE docs[i].key \notin StateKeys
  <2>1. Group(i) = {i}
    BY <1>2 DEF Group
  <2>2. Cardinality({i}) = 1
    BY FS_Singleton
  <2> QED BY <2>1, <2>2
<1> QED BY <1>1, <1>2

LEMMA QuietNext ==
  ASSUME TypeInv, UniqueInv, QuietInv, [Next]_vars
  PROVE  QuietInv'
<1> USE DEF QuietInv
<1>1. ASSUME NEW p \in Callers, NEW k \in Keys, Save(p, k) PROVE QuietInv'
  BY <1>1 DEF Save, Upsert, Create
<1>2. ASSUME NEW p \in Callers, Match(p) \/ Miss(p) \/ Insert(p) \/ CallFails(p) PROVE QuietInv'
  BY <1>2 DEF Match, Miss, Insert, CallFails
<1>3. ASSUME NEW u \in Users, MarkAllRead(u) \/ MarkBatchRead(u) PROVE QuietInv'
  BY <1>3 DEF MarkAllRead, MarkBatchRead, MarkRead
<1>4. ASSUME NEW c \in Cleaners, Aggregate(c) PROVE QuietInv'
  <2> SUFFICES ASSUME indexed' PROVE \A b \in Cleaners : doomed'[b] \in {None, {}}
    OBVIOUS
  <2>1. indexed /\ Alone
    BY <1>4 DEF Aggregate, UniqueInv, Alone
  <2>2. doomed' = [doomed EXCEPT ![c] = {}]
    BY <1>4, <2>1, NothingDoomed DEF Aggregate
  <2> QED BY <2>1, <2>2 DEF TypeInv, TypeOK
<1>5. ASSUME NEW c \in Cleaners, Delete(c) PROVE QuietInv'
  <2> SUFFICES ASSUME indexed' PROVE \A b \in Cleaners : doomed'[b] \in {None, {}}
    OBVIOUS
  <2>1. indexed /\ doomed[c] = {}
    BY <1>5 DEF Delete
  <2>2. doomed' = [doomed EXCEPT ![c] = None]
    BY <1>5, <2>1 DEF Delete
  <2> QED BY <2>1, <2>2 DEF TypeInv, TypeOK
<1>6. CASE Restart
  BY <1>6 DEF Restart
<1>7. CASE UNCHANGED vars
  BY <1>7 DEF vars
<1> QED BY <1>1, <1>2, <1>3, <1>4, <1>5, <1>6, <1>7 DEF Next

\* What is in the boxes, and that it is what Inbox has there.
LEMMA LetterTypes == TypeInv => \A i \in Ids : Letter(i) \in Box!Notification
BY DEF TypeInv, TypeOK, Doc, Letter, Box!Notification

LEMMA SeenLetter ==
  ASSUME NEW d \in Box!Notification, NEW e \in Box!Notification,
         e.id = d.id, e.read = TRUE, e.at = d.at
  PROVE  [d EXCEPT !.read = TRUE] = e
BY DEF Box!Notification

LEMMA BoxTypes == TypeInv => Box!TypeOK
<1> SUFFICES ASSUME TypeInv PROVE Box!TypeOK
  OBVIOUS
<1>1. Waiting \in [Callers -> Box!Occurrence \cup {None}]
  <2>1. \A p \in Callers : call[p] # None =>
            [key |-> call[p].key, at |-> call[p].at] \in Box!Occurrence
    BY CallTypes DEF Box!Occurrence
  <2> QED BY <2>1 DEF Waiting
<1>2. Boxes \in [StateKeys -> SUBSET Box!Notification]
  <2>1. \A i \in Ids : Letter(i) \in Box!Notification
    BY LetterTypes
  <2> QED BY <2>1 DEF Boxes, With
<1> QED BY <1>1, <1>2 DEF Box!TypeOK, TypeInv, TypeOK

LEMMA BoxSingle == UniqueInv => (indexed => Box!Single)
BY DEF UniqueInv, Box!Single, Boxes, With

\* Who waits.
LEMMA WaitingFacts ==
  ASSUME TypeInv, NEW p \in Callers
  PROVE  /\ call[p] = None <=> Waiting[p] = None
         /\ call[p] # None => /\ Waiting[p].key = call[p].key /\ Waiting[p].at = call[p].at
                              /\ Waiting[p].key \in StateKeys
<1>1. ASSUME call[p] # None PROVE Waiting[p] # None
  <2>1. Waiting[p] \in [key : StateKeys, at : Nat]
    BY <1>1, CallTypes DEF Waiting
  <2> QED BY <2>1, NotificationAssumption
<1> QED BY <1>1, CallTypes DEF Waiting

\* The next command of an upsert is nobody's business.
LEMMA SameWaiting ==
  ASSUME TypeInv, NEW p \in Callers, call[p] # None, NEW s \in {"match", "insert"},
         call' = [call EXCEPT ![p] = [call[p] EXCEPT !.step = s]]
  PROVE  Waiting' = Waiting
<1> DEFINE c == [call[p] EXCEPT !.step = s]
<1>1. call[p] \in Call /\ c \in Call /\ c.key = call[p].key /\ c.at = call[p].at
  BY CallTypes DEF Call
<1>2. c # None
  BY <1>1, NotificationAssumption DEF Call
<1> HIDE DEF c
<1>3. call' = [call EXCEPT ![p] = c]
  BY DEF c
<1> QED BY <1>1, <1>2, <1>3 DEF Waiting, TypeInv, TypeOK

LEMMA SameBoxes ==
  ASSUME \A i \in Ids : docs[i].key \in StateKeys => i \in Ids',
         \A i \in Ids' : docs'[i].key \in StateKeys =>
             i \in Ids /\ docs'[i].key = docs[i].key
                       /\ docs'[i].read = docs[i].read /\ docs'[i].at = docs[i].at,
         \A i \in Ids \cap Ids' : docs[i].key \in StateKeys => docs'[i].key = docs[i].key
  PROVE  Boxes' = Boxes
<1>1. ASSUME NEW k \in StateKeys
      PROVE  With(k)' = With(k) /\ \A i \in With(k) : Letter(i)' = Letter(i)
  <2>1. \A i \in With(k) : i \in With(k)'
    BY DEF With
  <2>2. \A i \in With(k)' : i \in With(k) /\ Letter(i)' = Letter(i)
    BY DEF With, Letter
  <2> QED BY <2>1, <2>2
<1>2. \A k \in StateKeys : {Letter(i) : i \in With(k)}' = {Letter(i) : i \in With(k)}
  BY <1>1
<1> QED BY <1>2 DEF Boxes

\* Storing a notification: the one of its state that was there, if any, is replaced.
LEMMA BoxStores ==
  ASSUME TypeInv, UniqueInv, indexed, NEW p \in Callers, call[p] # None,
         NEW k, k = call[p].key, NEW i, With(k) \subseteq {i},
         call' = [call EXCEPT ![p] = None], indexed' = indexed,
         Ids' = Ids \cup {i}, docs'[i] = Fresh(p), i \in Ids => docs[i].key = k,
         \A j \in Ids \ {i} : docs'[j] = docs[j]
  PROVE  Box!Store(p)
<1> DEFINE d == [id |-> i, read |-> FALSE, at |-> call[p].at]
<1>1. k \in StateKeys /\ Fresh(p).key = k /\ Fresh(p).read = FALSE /\ Fresh(p).at = call[p].at
  BY CallTypes DEF Fresh
<1>2. With(k)' = {i} /\ Letter(i)' = d
  BY <1>1 DEF With, Letter
<1>3. \A j \in StateKeys \ {k} : With(j)' = With(j) /\ \A x \in With(j) : Letter(x)' = Letter(x)
  <2>1. ASSUME NEW j \in StateKeys \ {k}, NEW x \in With(j) PROVE x \in With(j)' /\ Letter(x)' = Letter(x)
    BY <2>1 DEF With, Letter
  <2>2. ASSUME NEW j \in StateKeys \ {k}, NEW x \in With(j)' PROVE x \in With(j)
    BY <1>1, <2>2 DEF With
  <2> QED BY <2>1, <2>2
<1>4. Boxes' = [Boxes EXCEPT ![k] = {d}]
  <2>0. {Letter(x) : x \in With(k)}' = {d}
    BY ZenonT(60), <1>2
  <2>1. Boxes'[k] = {d}
    BY <1>1, <2>0 DEF Boxes
  <2>2. \A j \in StateKeys \ {k} : Boxes'[j] = Boxes[j]
    BY <1>3 DEF Boxes
  <2> HIDE DEF d
  <2> QED BY <2>1, <2>2 DEF Boxes
<1>5. \A e \in Boxes[k] : e.id = i
  BY <1>1 DEF Boxes, Letter
<1>6. Waiting' = [Waiting EXCEPT ![p] = None]
  BY DEF Waiting, TypeInv, TypeOK
<1>7. Waiting[p] # None /\ Waiting[p].key = k /\ Waiting[p].at = call[p].at
  BY WaitingFacts
<1>8. d \in Boxes'[k] /\ ~d.read /\ d.at = call[p].at /\ d.id = i
  BY <1>1, <1>4 DEF Boxes
<1> HIDE DEF d
<1> QED BY <1>4, <1>5, <1>6, <1>7, <1>8 DEF Box!Store

\* A receiver marks: every one of his boxes that he names is read.
LEMMA BoxSees ==
  ASSUME TypeInv, UniqueInv, indexed, NEW u, NEW ids, MarkRead(u, ids)
  PROVE  \/ UNCHANGED <<indexed, Waiting, Boxes>>
         \/ \E K \in SUBSET StateKeys : \E v \in {Receiver[k] : k \in K} : Box!See(v, K)
<1> DEFINE K == {k \in StateKeys : Receiver[k] = u /\ With(k) \cap ids # {}}
<1>1. /\ Ids' = Ids /\ \A i \in Ids : docs'[i].key = docs[i].key /\ docs'[i].at = docs[i].at
      /\ \A i \in Ids : docs'[i].read <=> docs[i].read \/ i \in Unread(u, ids)
      /\ \A i \in Ids : docs'[i].read \in BOOLEAN /\ docs[i].read \in BOOLEAN
  BY MarkTypeInv DEF TypeInv, TypeOK, Doc
<1>2. indexed' = indexed /\ Waiting' = Waiting
  BY DEF MarkRead, Waiting
<1>3. \A k \in StateKeys : With(k)' = With(k)
  BY <1>1 DEF With
<1>4. ASSUME NEW k \in StateKeys \ K, NEW i \in With(k) PROVE Letter(i)' = Letter(i)
  <2>1. i \notin Unread(u, ids)
    BY <1>4 DEF Unread, With
  <2> QED BY <1>1, <1>4, <2>1 DEF With, Letter
<1>5. ASSUME NEW k \in K, NEW i \in With(k) PROVE Letter(i)' = [Letter(i) EXCEPT !.read = TRUE]
  <2>1. i \in ids
    BY <1>5 DEF UniqueInv, With
  <2>2. docs[i].read \/ i \in Unread(u, ids)
    BY <1>5, <2>1 DEF Unread, With
  <2>3. i \in Ids /\ docs'[i].read = TRUE /\ docs'[i].at = docs[i].at
    BY <1>1, <1>5, <2>2 DEF With
  <2>4. Letter(i)' = [id |-> i, read |-> TRUE, at |-> docs[i].at]
    BY <2>3 DEF Letter
  <2>5. Letter(i).id = i /\ Letter(i).at = docs[i].at /\ Letter(i) \in Box!Notification
    BY <2>3, LetterTypes DEF Letter
  <2>6. Letter(i)' \in Box!Notification
    BY <2>4, <2>5 DEF Box!Notification
  <2>7. PICK d, e : d = Letter(i) /\ e = Letter(i)'
    OBVIOUS
  <2>8. e.id = d.id /\ e.read = TRUE /\ e.at = d.at
    BY <2>4, <2>5, <2>7
  <2>9. [d EXCEPT !.read = TRUE] = e
    BY <2>5, <2>6, <2>7, <2>8, SeenLetter
  <2> QED BY <2>7, <2>9
<1>6. Boxes' = [k \in StateKeys |-> IF k \in K THEN {[d EXCEPT !.read = TRUE] : d \in Boxes[k]}
                                    ELSE Boxes[k]]
  <2>1. \A k \in StateKeys \ K : {Letter(i) : i \in With(k)}' = {Letter(i) : i \in With(k)}
    BY <1>3, <1>4
  <2>2. \A k \in K : {Letter(i) : i \in With(k)}'
                       = {[Letter(i) EXCEPT !.read = TRUE] : i \in With(k)}
    BY <1>3, <1>5
  <2>3. \A k \in K : {[Letter(i) EXCEPT !.read = TRUE] : i \in With(k)}
                       = {[d EXCEPT !.read = TRUE] : d \in {Letter(i) : i \in With(k)}}
    OBVIOUS
  <2> QED BY <2>1, <2>2, <2>3 DEF Boxes
<1>7. CASE K = {}
  <2>1. Boxes' = Boxes
    BY <1>6, <1>7 DEF Boxes
  <2> QED BY <1>2, <2>1
<1>8. CASE K # {}
  <2>1. u \in {Receiver[k] : k \in K} /\ \A k \in K : Receiver[k] = u
    BY <1>8
  <2>2. Box!See(u, K)
    BY <1>2, <1>6, <2>1 DEF Box!See
  <2> QED BY <2>1, <2>2
<1> QED BY <1>7, <1>8

\* Every step is a step of Inbox, or none for it.
LEMMA BoxStep ==
  ASSUME TypeInv, UniqueInv, QuietInv, indexed, [Next]_vars
  PROVE  [Box!Next]_(Box!vars)
<1> SUFFICES \/ \E p \in Callers : Box!Send(p) \/ Box!Store(p)
             \/ \E P \in SUBSET Callers : Box!Lose(P)
             \/ \E K \in SUBSET StateKeys : \E v \in {Receiver[k] : k \in K} : Box!See(v, K)
             \/ UNCHANGED <<indexed, Waiting, Boxes>>
  BY DEF Box!Next, Box!vars
<1>1. ASSUME NEW p \in Callers, NEW k \in StateKeys, Upsert(p, k) PROVE Box!Send(p)
  <2> DEFINE c == [key |-> k, at |-> clock + 1, step |-> "match"]
             o == [key |-> k, at |-> clock + 1]
  <2>1. call[p] = None /\ call' = [call EXCEPT ![p] = c] /\ UNCHANGED <<docs, indexed>>
    BY <1>1 DEF Upsert
  <2>2. c \in Call /\ o \in Box!Occurrence
    BY DEF Call, Box!Occurrence, TypeInv, TypeOK
  <2>3. c # None
    BY <2>2, NotificationAssumption
  <2>4. c.key = k /\ c.at = clock + 1
    OBVIOUS
  <2> HIDE DEF c
  <2>5. Waiting' = [Waiting EXCEPT ![p] = o]
    BY <2>1, <2>3, <2>4 DEF Waiting, TypeInv, TypeOK
  <2>6. Waiting'[p] = o /\ Waiting[p] = None
    BY <2>1, <2>5 DEF Waiting
  <2>7. Boxes' = Boxes
    BY <2>1 DEF Boxes, With, Ids, Letter
  <2> QED BY <2>1, <2>2, <2>5, <2>6, <2>7 DEF Box!Send
<1>2. ASSUME NEW p \in Callers, NEW k \in HistoryKeys, Create(p, k)
      PROVE  UNCHANGED <<indexed, Waiting, Boxes>>
  <2>1. UNCHANGED <<indexed, Waiting>>
    BY <1>2 DEF Create, Waiting
  <2>2. /\ Ids \subseteq Ids' /\ \A j \in Ids : docs'[j] = docs[j]
        /\ \A j \in Ids' : docs'[j].key \in StateKeys => j \in Ids
    BY <1>2, CreateTypeInv, NotificationAssumption
  <2>3. Boxes' = Boxes
    BY <2>2, SameBoxes
  <2> QED BY <2>1, <2>3
<1>3. ASSUME NEW p \in Callers, Match(p) PROVE Box!Store(p)
  <2>1. /\ call[p] # None /\ call' = [call EXCEPT ![p] = None] /\ indexed' = indexed
    BY <1>3 DEF Match
  <2>2. PICK i \in With(call[p].key) : docs' = [docs EXCEPT ![i] = Fresh(p)]
    BY <1>3 DEF Match, Refreshed
  <2>3. PICK k : k = call[p].key
    OBVIOUS
  <2>4. /\ Ids' = Ids /\ i \in Ids /\ docs[i].key = k
        /\ docs'[i] = Fresh(p) /\ \A j \in Ids \ {i} : docs'[j] = docs[j]
    BY <2>2, <2>3 DEF Ids, With
  <2>5. With(k) \subseteq {i}
    BY <2>1, <2>3, <2>4, CallTypes DEF With, UniqueInv
  <2> QED BY ZenonT(60), <2>1, <2>3, <2>4, <2>5, BoxStores
<1>4. ASSUME NEW p \in Callers, Miss(p) PROVE UNCHANGED <<indexed, Waiting, Boxes>>
  <2>1. /\ call[p] # None /\ call' = [call EXCEPT ![p] = [call[p] EXCEPT !.step = "insert"]]
        /\ UNCHANGED <<docs, indexed>>
    BY <1>4 DEF Miss
  <2> QED BY <2>1, SameWaiting DEF Boxes, With, Ids, Letter
<1>5. ASSUME NEW p \in Callers, Insert(p) PROVE UNCHANGED <<indexed, Waiting, Boxes>> \/ Box!Store(p)
  <2>1. call[p] # None /\ indexed' = indexed
    BY <1>5 DEF Insert
  <2>2. CASE Refused(call[p].key)
    <3>1. call' = [call EXCEPT ![p] = [call[p] EXCEPT !.step = "match"]] /\ docs' = docs
      BY <1>5, <2>2 DEF Insert
    <3> QED BY <2>1, <3>1, SameWaiting DEF Boxes, With, Ids, Letter
  <2>3. CASE ~Refused(call[p].key)
    <3>1. PICK i : i = NewId(call[p].at)
      OBVIOUS
    <3>2. PICK k : k = call[p].key
      OBVIOUS
    <3>3. /\ docs' = WithDoc(i, Fresh(p)) /\ call' = [call EXCEPT ![p] = None]
          /\ With(k) = {} /\ i \notin Ids
      BY <1>5, <2>1, <2>3, <3>1, <3>2, CallTypes DEF Insert, Refused
    <3>4. Ids' = Ids \cup {i} /\ docs'[i] = Fresh(p) /\ \A j \in Ids \ {i} : docs'[j] = docs[j]
      BY <3>3 DEF WithDoc, Ids
    <3> QED BY <2>1, <3>2, <3>3, <3>4, BoxStores
  <2> QED BY <2>2, <2>3
<1>6. ASSUME NEW p \in Callers, CallFails(p) PROVE \E P \in SUBSET Callers : Box!Lose(P)
  <2>1. call' = [call EXCEPT ![p] = None] /\ UNCHANGED <<docs, indexed>>
    BY <1>6 DEF CallFails
  <2>2. Waiting' = [q \in Callers |-> IF q \in {p} THEN None ELSE Waiting[q]]
    BY <2>1 DEF Waiting, TypeInv, TypeOK
  <2>3. Box!Lose({p})
    BY <2>1, <2>2 DEF Box!Lose, Boxes, With, Ids, Letter
  <2> QED BY <2>3
<1>7. ASSUME NEW u \in Users, MarkAllRead(u) \/ MarkBatchRead(u)
      PROVE  \/ \E K \in SUBSET StateKeys : \E v \in {Receiver[k] : k \in K} : Box!See(v, K)
             \/ UNCHANGED <<indexed, Waiting, Boxes>>
  BY <1>7, BoxSees DEF MarkAllRead, MarkBatchRead
<1>8. ASSUME NEW c \in Cleaners, Aggregate(c) PROVE UNCHANGED <<indexed, Waiting, Boxes>>
  BY <1>8 DEF Aggregate, Waiting, Boxes, With, Ids, Letter
<1>9. ASSUME NEW c \in Cleaners, Delete(c) PROVE UNCHANGED <<indexed, Waiting, Boxes>>
  <2>1. doomed[c] = {}
    BY <1>9 DEF QuietInv, Delete
  <2> QED BY <1>9, <2>1 DEF Delete, Waiting, Boxes, With, Ids, Letter
<1>10. CASE Restart
  <2>1. indexed' = indexed
    BY <1>10 DEF Restart, TypeInv, TypeOK
  <2>2. Waiting' = [q \in Callers |-> IF q \in Callers THEN None ELSE Waiting[q]]
    BY <1>10 DEF Restart, Waiting
  <2>3. Box!Lose(Callers)
    BY <1>10, <2>1, <2>2 DEF Box!Lose, Restart, Boxes, With, Ids, Letter
  <2> QED BY <2>3
<1>11. CASE UNCHANGED vars
  BY <1>11 DEF vars, Waiting, Boxes, With, Ids, Letter
<1> QED
  BY <1>1, <1>2, <1>3, <1>4, <1>5, <1>6, <1>7, <1>8, <1>9, <1>10, <1>11 DEF Next, Save, Keys

\* Once the index exists, notifications of states are kept as in Inbox, whatever
\* overlaps, fails or is cleaned up: an upsert of two commands is one store.
THEOREM UpsertsAreAtomic == Spec => ImplementsInbox
<1>1. Init => TypeInv /\ UniqueInv /\ QuietInv
  BY InitTypeInv, NoDuplicatesAlone DEF Init, UniqueInv, Alone, QuietInv
<1>2. TypeInv /\ UniqueInv /\ [Next]_vars => UniqueInv'
  BY UniqueNext
<1>3. TypeInv /\ UniqueInv /\ QuietInv /\ [Next]_vars => QuietInv'
  BY QuietNext
<1>4. Init /\ TypeInv /\ UniqueInv => Box!Init
  BY BoxTypes, BoxSingle DEF Init, Box!Init, Waiting
<1>5. TypeInv /\ UniqueInv => Box!TypeOK /\ (indexed => Box!Single)
  BY BoxTypes, BoxSingle
<1>6. ~indexed /\ Box!TypeOK' /\ (indexed => Box!Single)' => Box!Unguarded
  BY DEF Box!Unguarded
<1>7. TypeInv /\ UniqueInv /\ QuietInv /\ indexed /\ [Next]_vars => [Box!Next]_(Box!vars)
  BY BoxStep
<1>8. Box!Unguarded => [Box!Next]_(Box!vars)
  BY DEF Box!Next
<1> QED
  BY <1>1, <1>2, <1>3, <1>4, <1>5, <1>6, <1>7, <1>8, NotificationTypes, PTL
     DEF Spec, ImplementsInbox, Box!Spec
=============================================================================
