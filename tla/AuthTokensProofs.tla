-------------------------- MODULE AuthTokensProofs --------------------------
(***************************************************************************)
(* What AuthTokens and the Gateway built on it guarantee for every set of  *)
(* handlers and token pairs, whatever requests overlap.                    *)
(***************************************************************************)
EXTENDS Gateway, FiniteSetTheorems, SequenceTheorems, TLAPS

-----------------------------------------------------------------------------
(* Type correctness needs what a handler knows at each step: the row it read, *)
(* the pair it drew, the pair its client presented.                           *)

Issuers == {"login", "refresh"}

HandlerOK(p) ==
    /\ op[p] \in Presenters => tok[p] \in issued
    /\ pc[p] \in {"blocked", "exists", "delold"} => op[p] = "refresh"
    /\ pc[p] \in {"block", "delkey"} => op[p] = "logout"
    /\ pc[p] = "find" => op[p] \in Issuers \cup RowWriters
    /\ pc[p] = "setex" => op[p] \in Issuers
    /\ pc[p] = "setver" => op[p] \in Issuers \cup Bumpers
    /\ pc[p] = "setver" /\ op[p] \in Issuers => new[p] \in Drawn
    /\ pc[p] = "delold" => new[p] \in Drawn
    /\ pc[p] \in {"exists", "setex", "setver", "delold", "update"} => read[p] \in Row
    /\ pc[p] = "update" => op[p] \in RowWriters
    /\ pc[p] # "idle" => op[p] \in OpNames

HandlersOK == \A p \in Procs : HandlerOK(p)

\* A pair nobody drew has no trace.
PairsOK ==
    /\ issued \subseteq Drawn
    /\ keys \subseteq Drawn
    /\ \A j \in Jtis : j \notin Drawn => uses[j] = 0

TypeInv == TypeOK /\ HandlersOK /\ PairsOK

LEMMA InitTypeInv == Init => TypeInv
BY TokenAssumption
   DEF Init, TypeInv, TypeOK, HandlersOK, HandlerOK, PairsOK, Row, Steps, Drawn, Presenters, OpNames

\* A request begins with the facts its first step needs.
LEMMA BeginTypeInv ==
  ASSUME TypeInv, NEW p \in Procs, NEW o \in Ops, NEW j \in Jtis \cup {None}, Begin(p, o, j)
  PROVE  TypeInv'
<1> USE TokenAssumption
<1>1. o \in OpNames
  OBVIOUS
<1>2. FirstStep(o) \in Steps
  BY DEF FirstStep, Steps
<1>3. TypeOK'
  BY <1>1, <1>2 DEF TypeInv, TypeOK, Begin, GoTo, redisVars
<1>4. HandlersOK'
  BY <1>1 DEF TypeInv, TypeOK, HandlersOK, HandlerOK, Begin, GoTo, redisVars, FirstStep, Drawn,
              OpNames, Issuers, Presenters, RowWriters
<1>5. PairsOK'
  BY DEF TypeInv, PairsOK, Begin, Drawn, redisVars
<1> QED
  BY <1>3, <1>4, <1>5 DEF TypeInv

\* An answer leaves the types of a handler's variables and the facts about the
\* others.
LEMMA ReplyTypes ==
  ASSUME TypeInv, NEW p \in Procs, Reply(p), issued \subseteq issued', Drawn \subseteq Drawn'
  PROVE  /\ pc' \in [Procs -> Steps]
         /\ op' \in [Procs -> OpNames \cup {None}]
         /\ tok' \in [Procs -> Jtis \cup {None}]
         /\ read' \in [Procs -> Row \cup {None}]
         /\ new' \in [Procs -> Jtis \cup {None}]
         /\ late' \in [Procs -> BOOLEAN]
         /\ HandlersOK'
<1>1. "idle" \in Steps
  BY DEF Steps
<1>2. None \notin Presenters
  BY TokenAssumption DEF OpNames
<1>3. /\ pc' \in [Procs -> Steps]
      /\ op' \in [Procs -> OpNames \cup {None}]
      /\ tok' \in [Procs -> Jtis \cup {None}]
      /\ read' \in [Procs -> Row \cup {None}]
      /\ new' \in [Procs -> Jtis \cup {None}]
      /\ late' \in [Procs -> BOOLEAN]
  BY <1>1 DEF TypeInv, TypeOK, Reply
<1>4. HandlersOK'
  <2> SUFFICES ASSUME NEW q \in Procs
               PROVE  HandlerOK(q)'
    BY DEF HandlersOK
  <2>1. CASE q = p
    BY <2>1, <1>2 DEF TypeInv, TypeOK, HandlerOK, Reply
  <2>2. CASE q # p
    BY <2>2 DEF TypeInv, TypeOK, HandlersOK, HandlerOK, Reply
  <2> QED
    BY <2>1, <2>2
<1> QED
  BY <1>3, <1>4

\* The steps of a request that read.
LEMMA CheckTypeInv ==
  ASSUME TypeInv, NEW p \in Procs, CheckBlocked(p) \/ CheckKey(p) \/ FindUser(p)
  PROVE  TypeInv'
<1> USE TokenAssumption
<1>1. TypeOK'
  <2>1. CASE CheckBlocked(p)
    BY <2>1 DEF TypeInv, TypeOK, CheckBlocked, GoTo, Steps, redisVars, historyVars
  <2>2. CASE CheckKey(p)
    BY <2>2 DEF TypeInv, TypeOK, CheckKey, GoTo, Steps, redisVars, historyVars
  <2>3. CASE FindUser(p)
    BY <2>3 DEF TypeInv, TypeOK, FindUser, GoTo, Steps, redisVars, historyVars
  <2> QED
    BY <2>1, <2>2, <2>3
<1>2. HandlersOK'
  <2> SUFFICES ASSUME NEW q \in Procs
               PROVE  HandlerOK(q)'
    BY DEF HandlersOK
  <2> HandlerOK(q) /\ HandlerOK(p)
    BY DEF TypeInv, HandlersOK
  <2> USE DEF TypeInv, TypeOK, HandlerOK, GoTo, Drawn, redisVars, historyVars
  <2>1. CASE CheckBlocked(p)
    BY <2>1 DEF CheckBlocked, Issuers
  <2>2. CASE CheckKey(p)
    BY <2>2 DEF CheckKey, Issuers
  <2>3. CASE FindUser(p)
    BY <2>3 DEF FindUser, Issuers, OpNames
  <2> QED
    BY <2>1, <2>2, <2>3
<1>3. PairsOK'
  BY DEF TypeInv, PairsOK, CheckBlocked, CheckKey, FindUser, Drawn, redisVars, historyVars
<1> QED
  BY <1>1, <1>2, <1>3 DEF TypeInv

\* Drawing a pair: it was not drawn before, so nobody knows it.
LEMMA StoreKeyTypeInv ==
  ASSUME TypeInv, NEW p \in Procs, StoreKey(p)
  PROVE  TypeInv'
<1> USE TokenAssumption
<1>1. read[p] \in Row /\ read[p].ver \in Nat /\ op[p] \in Issuers
  BY DEF TypeInv, HandlersOK, HandlerOK, StoreKey, Row
<1>2. PICK j \in Jtis \ Drawn :
        /\ keys' = keys \cup {j}
        /\ verOf' = [verOf EXCEPT ![j] = read[p].ver]
        /\ new' = [new EXCEPT ![p] = j]
  BY DEF StoreKey
<1>3. TypeOK'
  BY <1>1, <1>2 DEF TypeInv, TypeOK, StoreKey, GoTo, Steps, historyVars
<1>4. Drawn' = Drawn \cup {j}
  BY <1>1, <1>2 DEF TypeInv, TypeOK, Drawn
<1>5. HandlersOK'
  <2> SUFFICES ASSUME NEW q \in Procs
               PROVE  HandlerOK(q)'
    BY DEF HandlersOK
  <2> HandlerOK(q) /\ HandlerOK(p)
    BY DEF TypeInv, HandlersOK
  <2> QED
    BY <1>1, <1>2, <1>4 DEF TypeInv, TypeOK, HandlerOK, StoreKey, GoTo, historyVars
<1>6. PairsOK'
  BY <1>2, <1>4 DEF TypeInv, PairsOK, StoreKey, historyVars
<1> QED
  BY <1>3, <1>5, <1>6 DEF TypeInv

LEMMA WrittenType ==
  ASSUME NEW p, read[p] \in Row
  PROVE  Written(p) \in Nat /\ read[p].ver + 1 \in Nat
BY DEF Written, Row

LEMMA SetVersionTypeInv ==
  ASSUME TypeInv, NEW p \in Procs, SetVersion(p)
  PROVE  TypeInv'
<1> USE TokenAssumption
<1>1. read[p] \in Row
  BY DEF TypeInv, HandlersOK, HandlerOK, SetVersion
<1>2. version' \in Nat
  BY <1>1, WrittenType DEF SetVersion
<1>3. CASE op[p] = "refresh" /\ GoTo(p, "delold") /\ UNCHANGED <<op, tok, read, new, issued, historyVars>>
  <2>1. TypeOK'
    BY <1>2, <1>3 DEF TypeInv, TypeOK, SetVersion, GoTo, Steps, historyVars
  <2>2. HandlersOK'
    <3> SUFFICES ASSUME NEW q \in Procs
                 PROVE  HandlerOK(q)'
      BY DEF HandlersOK
    <3> HandlerOK(q) /\ HandlerOK(p)
      BY DEF TypeInv, HandlersOK
    <3> QED
      BY <1>1, <1>3 DEF TypeInv, TypeOK, HandlerOK, SetVersion, GoTo, historyVars, Drawn, Issuers
  <2>3. PairsOK'
    BY <1>3 DEF TypeInv, PairsOK, SetVersion, Drawn, historyVars
  <2> QED
    BY <2>1, <2>2, <2>3 DEF TypeInv
<1>4. CASE /\ op[p] = "login"
           /\ Reply(p)
           /\ issued' = issued \cup {new[p]}
           /\ UNCHANGED <<floor, out, uses>>
  <2>1. new[p] \in Drawn
    BY <1>4 DEF TypeInv, HandlersOK, HandlerOK, SetVersion, Issuers
  <2>2. HandlersOK' /\ TypeOK'
    BY <1>2, <1>4, <2>1, ReplyTypes DEF TypeInv, TypeOK, SetVersion, Drawn
  <2>3. PairsOK'
    BY <1>4, <2>1 DEF TypeInv, PairsOK, SetVersion, Drawn
  <2> QED
    BY <2>2, <2>3 DEF TypeInv
<1>5. CASE /\ op[p] \in Bumpers
           /\ Reply(p)
           /\ floor' = IF read[p].ver < floor THEN floor ELSE read[p].ver + 1
           /\ out' = IF op[p] = "logout" THEN out \cup {tok[p]} ELSE out
           /\ UNCHANGED <<issued, uses>>
  <2>1. floor' \in Nat
    BY <1>1, <1>5, WrittenType DEF TypeInv, TypeOK
  <2>2. op[p] = "logout" => tok[p] \in Jtis
    BY DEF TypeInv, TypeOK, HandlersOK, HandlerOK, Presenters
  <2>3. HandlersOK' /\ TypeOK'
    BY <1>2, <1>5, <2>1, <2>2, ReplyTypes DEF TypeInv, TypeOK, SetVersion, Drawn
  <2>4. PairsOK'
    BY <1>5 DEF TypeInv, PairsOK, SetVersion, Drawn
  <2> QED
    BY <2>3, <2>4 DEF TypeInv
<1> QED
  BY <1>3, <1>4, <1>5 DEF SetVersion

LEMMA DeleteOldKeyTypeInv ==
  ASSUME TypeInv, NEW p \in Procs, DeleteOldKey(p)
  PROVE  TypeInv'
<1> USE TokenAssumption
<1>1. tok[p] \in issued /\ new[p] \in Drawn /\ tok[p] \in Drawn
  BY DEF TypeInv, HandlersOK, HandlerOK, PairsOK, DeleteOldKey, Presenters
<1>2. HandlersOK'
  BY ReplyTypes DEF DeleteOldKey, Drawn
<1>3. TypeOK'
  <2>1. uses' \in [Jtis -> Nat] /\ issued' \subseteq Jtis /\ keys' \subseteq Jtis /\ ignored' \in Nat
    BY <1>1 DEF TypeInv, TypeOK, DeleteOldKey, Drawn
  <2> QED
    BY <2>1, ReplyTypes DEF TypeInv, TypeOK, DeleteOldKey, Drawn
<1>4. PairsOK'
  BY <1>1 DEF TypeInv, TypeOK, PairsOK, DeleteOldKey, Drawn
<1> QED
  BY <1>2, <1>3, <1>4 DEF TypeInv

LEMMA LogoutTypeInv ==
  ASSUME TypeInv, NEW p \in Procs, Logout(p)
  PROVE  TypeInv'
<1> USE TokenAssumption
<1>1. op[p] = "logout" /\ tok[p] \in issued /\ tok[p] \in Jtis
  BY DEF TypeInv, TypeOK, HandlersOK, HandlerOK, PairsOK, Logout, BlockTokens, DeleteKey, Presenters
<1>2. CASE BlockTokens(p)
  <2>1. TypeOK'
    BY <1>1, <1>2 DEF TypeInv, TypeOK, BlockTokens, GoTo, Steps, historyVars
  <2>2. HandlersOK'
    BY <1>1, <1>2 DEF TypeInv, TypeOK, HandlersOK, HandlerOK, BlockTokens, GoTo, Drawn, historyVars
  <2>3. PairsOK'
    BY <1>2 DEF TypeInv, PairsOK, BlockTokens, Drawn, historyVars
  <2> QED
    BY <2>1, <2>2, <2>3 DEF TypeInv
<1>3. CASE DeleteKey(p)
  <2>1. /\ keys' \subseteq keys /\ ignored' \in Nat
        /\ UNCHANGED <<row, version, blocked, verOf, issued, floor, uses, restarts>>
    BY <1>3 DEF TypeInv, TypeOK, DeleteKey
  <2>2. PairsOK'
    BY <2>1 DEF TypeInv, PairsOK, Drawn
  <2>3. CASE LogoutNamesUser
    <3>1. GoTo(p, "find") /\ UNCHANGED <<op, tok, read, new, late, out>>
      BY <1>3, <2>3 DEF DeleteKey
    <3>2. TypeOK'
      BY <2>1, <3>1 DEF TypeInv, TypeOK, GoTo, Steps
    <3>3. HandlersOK'
      BY <1>1, <2>1, <2>3, <3>1
         DEF TypeInv, TypeOK, HandlersOK, HandlerOK, GoTo, Drawn, RowWriters, Bumpers, OpNames
    <3> QED
      BY <2>2, <3>2, <3>3 DEF TypeInv
  <2>4. CASE ~LogoutNamesUser
    <3>1. Reply(p) /\ out' = out \cup {tok[p]}
      BY <1>3, <2>4 DEF DeleteKey
    <3>2. TypeOK' /\ HandlersOK'
      BY <1>1, <2>1, <3>1, ReplyTypes DEF TypeInv, TypeOK, Drawn
    <3> QED
      BY <2>2, <3>2 DEF TypeInv
  <2> QED
    BY <2>3, <2>4
<1> QED
  BY <1>2, <1>3 DEF Logout

\* What a request writes is a row.
LEMMA NewRowType ==
  ASSUME NEW p, read[p] \in Row, NEW r \in NewRow(p)
  PROVE  r \in Row
<1> DEFINE bumped == [read[p] EXCEPT !.ver = read[p].ver + 1]
<1>1. CASE op[p] = "delete"
  <2>1. read[p].ver + 1 \in Nat
    BY WrittenType
  <2>2. r = [ver |-> read[p].ver + 1, status |-> 0, deleted |-> TRUE]
    BY <1>1 DEF NewRow
  <2> QED
    BY <2>1, <2>2 DEF Row
<1>2. CASE op[p] # "delete" /\ op[p] \in Bumpers
  <2>1. bumped \in Row
    BY DEF Row
  <2>2. r = bumped
    BY <1>2 DEF NewRow
  <2> QED
    BY <2>1, <2>2
<1>3. CASE op[p] # "delete" /\ op[p] \notin Bumpers /\ op[p] = "ban"
  BY <1>3 DEF NewRow, Row
<1>4. CASE op[p] # "delete" /\ op[p] \notin Bumpers /\ op[p] # "ban"
  BY <1>4 DEF NewRow
<1> QED
  BY <1>1, <1>2, <1>3, <1>4

LEMMA UpdateUserTypeInv ==
  ASSUME TypeInv, NEW p \in Procs, UpdateUser(p)
  PROVE  TypeInv'
<1>1. read[p] \in Row
  BY DEF TypeInv, HandlersOK, HandlerOK, UpdateUser
<1>2. row' \in Row
  BY <1>1, NewRowType DEF UpdateUser
<1>3. UNCHANGED <<redisVars, verOf, issued, floor, out, uses, ignored, restarts>>
  BY DEF UpdateUser
<1>4. PairsOK'
  BY <1>3 DEF TypeInv, PairsOK, redisVars, Drawn
<1>5. CASE op[p] \in Bumpers
  <2>1. GoTo(p, "setver") /\ UNCHANGED <<op, tok, read, new, late>>
    BY <1>5 DEF UpdateUser
  <2>2. TypeOK'
    BY <1>2, <1>3, <2>1 DEF TypeInv, TypeOK, GoTo, Steps, redisVars
  <2>3. op[p] \notin Issuers
    BY <1>5 DEF Bumpers, Issuers
  <2>4. HandlersOK'
    <3> SUFFICES ASSUME NEW q \in Procs
                 PROVE  HandlerOK(q)'
      BY DEF HandlersOK
    <3> HandlerOK(q) /\ HandlerOK(p)
      BY DEF TypeInv, HandlersOK
    <3>1. CASE q = p
      BY <1>1, <1>3, <1>5, <2>1, <2>3, <3>1
         DEF TypeInv, TypeOK, HandlerOK, GoTo, redisVars, UpdateUser
    <3>2. CASE q # p
      BY <1>3, <2>1, <3>2 DEF TypeInv, TypeOK, HandlerOK, GoTo, redisVars, Drawn
    <3> QED
      BY <3>1, <3>2
  <2> QED
    BY <1>4, <2>2, <2>4 DEF TypeInv
<1>6. CASE op[p] \notin Bumpers
  <2>1. Reply(p)
    BY <1>6 DEF UpdateUser
  <2>2. TypeOK' /\ HandlersOK'
    BY <1>2, <1>3, <2>1, ReplyTypes DEF TypeInv, TypeOK, redisVars, Drawn
  <2> QED
    BY <1>4, <2>2 DEF TypeInv
<1> QED
  BY <1>5, <1>6

LEMMA FailTypeInv ==
  ASSUME TypeInv, NEW p \in Procs, Fail(p)
  PROVE  TypeInv'
<1>1. /\ Reply(p)
      /\ UNCHANGED <<row, redisVars, verOf, issued, floor, out, uses, ignored, restarts>>
  BY DEF Fail, Refuse
<1>2. TypeOK' /\ HandlersOK'
  BY <1>1, ReplyTypes DEF TypeInv, TypeOK, redisVars, Drawn
<1>3. PairsOK'
  BY <1>1 DEF TypeInv, PairsOK, redisVars, Drawn
<1> QED
  BY <1>2, <1>3 DEF TypeInv

LEMMA RestartTypeInv == TypeInv /\ RedisRestarts => TypeInv'
<1> SUFFICES ASSUME TypeInv, RedisRestarts
             PROVE  TypeInv'
  OBVIOUS
<1>1. TypeOK'
  BY DEF TypeInv, TypeOK, RedisRestarts, handlerVars, historyVars
<1>2. HandlersOK'
  BY DEF TypeInv, HandlersOK, HandlerOK, RedisRestarts, handlerVars, historyVars, Drawn
<1>3. PairsOK'
  BY DEF TypeInv, PairsOK, RedisRestarts, handlerVars, historyVars, Drawn
<1> QED
  BY <1>1, <1>2, <1>3 DEF TypeInv

LEMMA StutterTypeInv == TypeInv /\ UNCHANGED vars => TypeInv'
BY DEF TypeInv, TypeOK, HandlersOK, HandlerOK, PairsOK, vars, redisVars, handlerVars,
       historyVars, Drawn

LEMMA NextTypeInv == TypeInv /\ [Next]_vars => TypeInv'
<1> SUFFICES ASSUME TypeInv, [Next]_vars
             PROVE  TypeInv'
  OBVIOUS
<1>1. ASSUME NEW p \in Procs, NEW o \in Ops, NEW j \in Jtis \cup {None}, Begin(p, o, j)
      PROVE  TypeInv'
  BY <1>1, BeginTypeInv
<1>2. ASSUME NEW p \in Procs,
             FindUser(p) \/ Issue(p) \/ Logout(p) \/ UpdateUser(p) \/ Fail(p)
      PROVE  TypeInv'
  BY <1>2, CheckTypeInv, StoreKeyTypeInv, SetVersionTypeInv, DeleteOldKeyTypeInv,
     LogoutTypeInv, UpdateUserTypeInv, FailTypeInv DEF Issue
<1>3. CASE RedisRestarts
  BY <1>3, RestartTypeInv
<1>4. CASE UNCHANGED vars
  BY <1>4, StutterTypeInv
<1> QED
  BY <1>1, <1>2, <1>3, <1>4 DEF Next

LEMMA AlwaysTypeInv == Spec => []TypeInv
<1>1. Init => TypeInv
  BY InitTypeInv
<1>2. TypeInv /\ [Next]_vars => TypeInv'
  BY NextTypeInv
<1> QED
  BY <1>1, <1>2, PTL DEF Spec

\* Every variable keeps its type, whatever requests overlap and wherever they
\* stop: in particular no handler goes on with a row or a pair it does not have.
THEOREM TokensTypeCorrect == Spec => []TypeOK
<1>1. TypeInv => TypeOK
  BY DEF TypeInv
<1> QED
  BY <1>1, AlwaysTypeInv, PTL

-----------------------------------------------------------------------------
(* How often one refresh token is good for a new pair.                       *)

\* Handlers that saw the key of pair j and have not answered yet.
Pending(j) == {p \in Procs : tok[p] = j /\ pc[p] \in {"setex", "setver", "delold"}
                              /\ op[p] = "refresh"}

\* While the key of a pair is there, only refreshes whose DEL failed have used
\* it; once it is gone, the handlers that saw it are all that can.
ReuseInv ==
    \A j \in Jtis :
        /\ j \in keys => uses[j] <= ignored
        /\ uses[j] + Cardinality(Pending(j)) <= Cardinality(Procs) + ignored
             \/ j \in keys

LEMMA PendingFinite ==
  ASSUME NEW j
  PROVE  /\ IsFiniteSet(Pending(j))
         /\ Cardinality(Pending(j)) \in Nat
         /\ Cardinality(Procs) \in Nat
         /\ Cardinality(Pending(j)) <= Cardinality(Procs)
<1>1. Pending(j) \subseteq Procs
  BY DEF Pending
<1> QED
  BY <1>1, TokenAssumption, FS_Subset, FS_CardinalityType

\* A step that uses no token, stores no key and lets no handler pass the test of a
\* key that is gone keeps the invariant; keys may go for any reason.
LEMMA ReuseKept ==
  ASSUME TypeInv, ReuseInv, ignored' \in Nat, ignored <= ignored', uses' = uses,
         keys' \subseteq keys,
         \A j \in Jtis : j \notin keys => Pending(j)' \subseteq Pending(j)
  PROVE  ReuseInv'
<1> SUFFICES ASSUME NEW j \in Jtis
             PROVE  /\ j \in keys' => uses[j] <= ignored'
                    /\ \/ uses[j] + Cardinality(Pending(j)') <= Cardinality(Procs) + ignored'
                       \/ j \in keys'
  BY DEF ReuseInv
<1>1. uses[j] \in Nat /\ ignored \in Nat
  BY DEF TypeInv, TypeOK
<1>2. /\ j \in keys => uses[j] <= ignored
      /\ uses[j] + Cardinality(Pending(j)) <= Cardinality(Procs) + ignored \/ j \in keys
  BY DEF ReuseInv
<1>3. /\ IsFiniteSet(Pending(j)) /\ Cardinality(Pending(j)) \in Nat
      /\ Cardinality(Procs) \in Nat
  BY PendingFinite
<1>4. /\ Cardinality(Pending(j)') \in Nat
      /\ Cardinality(Pending(j)') <= Cardinality(Procs)
  <2>1. Pending(j)' \subseteq Procs
    BY DEF Pending
  <2> QED
    BY <2>1, TokenAssumption, FS_Subset, FS_CardinalityType
<1>5. CASE j \in keys
  BY <1>1, <1>2, <1>3, <1>4, <1>5
<1>6. CASE j \notin keys
  <2>1. Cardinality(Pending(j)') <= Cardinality(Pending(j))
    BY <1>3, <1>6, FS_Subset
  <2> QED
    BY <1>1, <1>2, <1>3, <1>4, <1>6, <2>1
<1> QED
  BY <1>5, <1>6

\* A handler that answers is no longer pending.
LEMMA ReplyPending ==
  ASSUME TypeInv, NEW p \in Procs, Reply(p), NEW j
  PROVE  Pending(j)' = Pending(j) \ {p}
BY DEF TypeInv, TypeOK, Reply, Pending

\* A pair that is drawn was never used.
LEMMA StoreKeyReuse ==
  ASSUME TypeInv, ReuseInv, NEW p \in Procs, StoreKey(p)
  PROVE  ReuseInv'
<1>1. PICK n \in Jtis \ Drawn : keys' = keys \cup {n}
  BY DEF StoreKey
<1>2. uses[n] = 0
  BY <1>1 DEF TypeInv, PairsOK
<1>3. \A j : Pending(j)' = Pending(j)
  BY DEF TypeInv, TypeOK, StoreKey, GoTo, Pending, historyVars
<1>4. UNCHANGED <<uses, ignored>> /\ ignored \in Nat
  BY DEF TypeInv, TypeOK, StoreKey, historyVars
<1> SUFFICES ASSUME NEW j \in Jtis
             PROVE  /\ j \in keys' => uses[j] <= ignored
                    /\ \/ uses[j] + Cardinality(Pending(j)) <= Cardinality(Procs) + ignored
                       \/ j \in keys'
  BY <1>3, <1>4 DEF ReuseInv
<1> QED
  BY <1>1, <1>2, <1>4 DEF ReuseInv

\* The handler that used the token leaves the pending ones.
LEMMA DeleteOldKeyReuse ==
  ASSUME TypeInv, ReuseInv, NEW p \in Procs, DeleteOldKey(p)
  PROVE  ReuseInv'
<1> DEFINE t == tok[p]
<1>1. t \in Jtis /\ p \in Pending(t) /\ Reply(p)
  BY DEF TypeInv, TypeOK, HandlersOK, HandlerOK, DeleteOldKey, Presenters, Pending
<1>2. /\ uses \in [Jtis -> Nat]
      /\ uses' = [uses EXCEPT ![t] = @ + 1]
      /\ ignored \in Nat /\ ignored' \in {ignored, ignored + 1}
      /\ \/ keys' = keys \ {t}
         \/ keys' = keys /\ ignored' = ignored + 1
  BY DEF TypeInv, TypeOK, DeleteOldKey
<1> SUFFICES ASSUME NEW j \in Jtis
             PROVE  /\ j \in keys' => uses'[j] <= ignored'
                    /\ \/ uses'[j] + Cardinality(Pending(j)') <= Cardinality(Procs) + ignored'
                       \/ j \in keys'
  BY DEF ReuseInv
<1>3. /\ j \in keys => uses[j] <= ignored
      /\ uses[j] + Cardinality(Pending(j)) <= Cardinality(Procs) + ignored \/ j \in keys
  BY DEF ReuseInv
<1>4. /\ IsFiniteSet(Pending(j)) /\ Cardinality(Pending(j)) \in Nat
      /\ Cardinality(Procs) \in Nat
      /\ Cardinality(Pending(j)) <= Cardinality(Procs)
  BY PendingFinite
<1>5. Pending(j)' = Pending(j) \ {p}
  BY <1>1, ReplyPending
<1> HIDE DEF t
<1>6. CASE j = t
  <2>1. Cardinality(Pending(j)') = Cardinality(Pending(j)) - 1
    BY <1>1, <1>4, <1>5, <1>6, FS_RemoveElement
  <2>2. uses'[j] = uses[j] + 1 /\ uses[j] \in Nat
    BY <1>2, <1>6
  <2> QED
    BY <1>2, <1>3, <1>4, <1>6, <2>1, <2>2
<1>7. CASE j # t
  <2>1. Cardinality(Pending(j)') <= Cardinality(Pending(j)) /\ Cardinality(Pending(j)') \in Nat
    BY <1>4, <1>5, FS_Subset, FS_CardinalityType
  <2>2. uses'[j] = uses[j] /\ uses[j] \in Nat /\ (j \in keys' <=> j \in keys)
    BY <1>2, <1>7
  <2> QED
    BY <1>2, <1>3, <1>4, <2>1, <2>2
<1> QED
  BY <1>6, <1>7

\* Only a handler that sees a key becomes pending.
LEMMA OtherReuse ==
  ASSUME TypeInv, ReuseInv, NEW p \in Procs,
         \/ \E o \in Ops, j \in Jtis \cup {None} : Begin(p, o, j)
         \/ FindUser(p) \/ CheckBlocked(p) \/ CheckKey(p) \/ SetVersion(p)
         \/ Logout(p) \/ UpdateUser(p) \/ Fail(p)
  PROVE  ReuseInv'
<1> USE DEF redisVars, historyVars, TypeInv, TypeOK
<1>1. ASSUME NEW o \in Ops, NEW i \in Jtis \cup {None}, Begin(p, o, i)
      PROVE  ReuseInv'
  <2>1. FirstStep(o) \notin {"setex", "setver", "delold"}
    BY DEF FirstStep
  <2>2. \A j : Pending(j)' \subseteq Pending(j)
    BY <1>1, <2>1 DEF Begin, GoTo, Pending
  <2> QED
    BY <1>1, <2>2, ReuseKept DEF Begin
<1>2. CASE FindUser(p)
  <2>1. \A j : Pending(j)' \subseteq Pending(j)
    BY <1>2 DEF FindUser, GoTo, Pending
  <2> QED
    BY <1>2, <2>1, ReuseKept DEF FindUser
<1>3. CASE CheckBlocked(p)
  <2>1. \A j : Pending(j)' \subseteq Pending(j)
    BY <1>3 DEF CheckBlocked, GoTo, Pending
  <2> QED
    BY <1>3, <2>1, ReuseKept DEF CheckBlocked
<1>4. CASE CheckKey(p)
  <2>1. \A j : j \notin keys => Pending(j)' \subseteq Pending(j)
    BY <1>4 DEF CheckKey, GoTo, Pending
  <2> QED
    BY <1>4, <2>1, ReuseKept DEF CheckKey
<1>5. CASE SetVersion(p)
  <2>1. \A j : Pending(j)' \subseteq Pending(j)
    BY <1>5 DEF SetVersion, GoTo, Reply, Pending
  <2> QED
    BY <1>5, <2>1, ReuseKept DEF SetVersion
<1>6. CASE BlockTokens(p)
  <2>1. \A j : Pending(j)' \subseteq Pending(j)
    BY <1>6 DEF BlockTokens, GoTo, Pending
  <2> QED
    BY <1>6, <2>1, ReuseKept DEF BlockTokens
<1>7. CASE DeleteKey(p)
  <2>1. \A j : Pending(j)' \subseteq Pending(j)
    BY <1>7 DEF DeleteKey, GoTo, Reply, Pending
  <2>2. keys' \subseteq keys /\ ignored' \in Nat /\ ignored <= ignored' /\ uses' = uses
    BY <1>7 DEF DeleteKey
  <2> QED
    BY <2>1, <2>2, ReuseKept
<1>8. CASE UpdateUser(p)
  <2>1. \A j : Pending(j)' \subseteq Pending(j)
    <3>1. op[p] \in Bumpers => op[p] # "refresh"
      BY DEF Bumpers
    <3> QED
      BY <1>8, <3>1 DEF UpdateUser, GoTo, Reply, Pending
  <2> QED
    BY <1>8, <2>1, ReuseKept DEF UpdateUser
<1>9. CASE Fail(p)
  <2>1. \A j : Pending(j)' \subseteq Pending(j)
    BY <1>9, ReplyPending DEF Fail, Refuse
  <2> QED
    BY <1>9, <2>1, ReuseKept DEF Fail, Refuse
<1> QED
  BY <1>1, <1>2, <1>3, <1>4, <1>5, <1>6, <1>7, <1>8, <1>9 DEF Logout

LEMMA InitReuseInv == Init => ReuseInv
<1> SUFFICES ASSUME Init, NEW j \in Jtis
             PROVE  /\ j \notin keys
                    /\ uses[j] + Cardinality(Pending(j)) <= Cardinality(Procs) + ignored
  BY DEF ReuseInv
<1>1. uses[j] = 0 /\ ignored = 0 /\ keys = {}
  BY DEF Init
<1> QED
  BY <1>1, PendingFinite

LEMMA NextReuseInv == TypeInv /\ ReuseInv /\ [Next]_vars => ReuseInv'
<1> SUFFICES ASSUME TypeInv, ReuseInv, [Next]_vars
             PROVE  ReuseInv'
  OBVIOUS
<1>1. ASSUME NEW p \in Procs, NEW o \in Ops, NEW j \in Jtis \cup {None}, Begin(p, o, j)
      PROVE  ReuseInv'
  BY <1>1, OtherReuse
<1>2. ASSUME NEW p \in Procs,
             FindUser(p) \/ Issue(p) \/ Logout(p) \/ UpdateUser(p) \/ Fail(p)
      PROVE  ReuseInv'
  BY <1>2, OtherReuse, StoreKeyReuse, DeleteOldKeyReuse DEF Issue
<1>3. CASE RedisRestarts
  <2>1. \A j : Pending(j)' = Pending(j)
    BY <1>3 DEF RedisRestarts, handlerVars, Pending
  <2> QED
    BY <1>3, <2>1, ReuseKept DEF RedisRestarts, historyVars, TypeInv, TypeOK
<1>4. CASE UNCHANGED vars
  <2>1. \A j : Pending(j)' = Pending(j)
    BY <1>4 DEF vars, handlerVars, Pending
  <2> QED
    BY <1>4, <2>1, ReuseKept DEF vars, redisVars, historyVars, TypeInv, TypeOK
<1> QED
  BY <1>1, <1>2, <1>3, <1>4 DEF Next

\* A refresh token serves at most as many refreshes as there are handlers that can
\* race for its key, and one more for every DEL whose error was ignored, whatever
\* logs out, fails or restarts meanwhile.
THEOREM RefreshIsBounded == Spec => []RefreshBounded
<1>1. Init => ReuseInv
  BY InitReuseInv
<1>2. TypeInv /\ ReuseInv /\ [Next]_vars => ReuseInv'
  BY NextReuseInv
<1>3. TypeInv /\ ReuseInv => RefreshBounded
  <2> SUFFICES ASSUME TypeInv, ReuseInv, NEW j \in Jtis
               PROVE  uses[j] <= Cardinality(Procs) + ignored
    BY DEF RefreshBounded
  <2>1. uses[j] \in Nat /\ ignored \in Nat
    BY DEF TypeInv, TypeOK
  <2> QED
    BY <2>1, PendingFinite DEF ReuseInv
<1> QED
  BY <1>1, <1>2, <1>3, AlwaysTypeInv, PTL DEF Spec

-----------------------------------------------------------------------------
(* Requests that write the row, one at a time: no update is lost, so that the  *)
(* version in the row only grows and never lags behind an answered revocation. *)

\* Of the requests in Exclusive at most one is in flight.
AloneInv == \A p, q \in Procs : op[p] \in Exclusive /\ op[q] \in Exclusive => p = q

RowHandlerOK(p) ==
    /\ pc[p] = "update" => read[p] = row
    /\ pc[p] = "setver" /\ op[p] \in Bumpers => row.ver = read[p].ver + 1
    /\ pc[p] \in {"exists", "setex", "setver", "delold"} => read[p].ver <= row.ver

RowInv ==
    /\ AloneInv
    /\ floor <= row.ver
    /\ \A j \in Drawn : verOf[j] <= row.ver
    /\ \A p \in Procs : RowHandlerOK(p)

\* If those that issue pairs do not overlap with them either, Redis has no version
\* but the row's once a pair of that version is out.
SerialHandlerOK(p) ==
    op[p] \in Issuers =>
        /\ pc[p] \in {"exists", "setex", "setver"} => read[p].ver = row.ver
        /\ pc[p] \in {"setver", "delold"} => verOf[new[p]] = row.ver
        /\ pc[p] = "delold" => version \in {None, row.ver}

VersionInv ==
    version # None =>
        /\ floor <= version
        /\ \A j \in issued : verOf[j] = row.ver => version = row.ver

SerialInv == VersionInv /\ \A p \in Procs : SerialHandlerOK(p)

\* A token that was logged out has its block key or lost its one-time key.
Gone(j) == j \in blocked \/ j \notin keys

LogoutOK(p) ==
    op[p] = "logout" =>
        /\ pc[p] = "delkey" => Gone(tok[p]) \/ ignored >= 1
        /\ pc[p] \in {"find", "update", "setver"} => Gone(tok[p])

LateOK(p) ==
    op[p] = "refresh" /\ late[p] =>
        /\ pc[p] = "blocked" => verOf[tok[p]] < floor \/ Gone(tok[p])
        /\ pc[p] = "find" => verOf[tok[p]] < floor \/ tok[p] \notin keys
        /\ pc[p] = "exists" => tok[p] \notin keys
        /\ pc[p] \notin {"setex", "setver", "delold"}

LateInv ==
    /\ \A j \in out : j \in Drawn /\ Gone(j)
    /\ \A p \in Procs : LogoutOK(p) /\ LateOK(p)

\* Who acts changes no other handler.
Others(p) ==
    \A q \in Procs \ {p} : /\ pc'[q] = pc[q] /\ op'[q] = op[q] /\ tok'[q] = tok[q]
                           /\ read'[q] = read[q] /\ new'[q] = new[q] /\ late'[q] = late[q]

Acts(p) ==
    FindUser(p) \/ Issue(p) \/ Logout(p) \/ UpdateUser(p) \/ Fail(p)

LEMMA ReplyActs ==
  ASSUME TypeInv, NEW p \in Procs, Reply(p)
  PROVE  Others(p) /\ pc'[p] = "idle" /\ op'[p] = None /\ late'[p] = FALSE
BY DEF Reply, Others, TypeInv, TypeOK

LEMMA GoToActs ==
  ASSUME TypeInv, NEW p \in Procs, NEW s, GoTo(p, s)
  PROVE  pc'[p] = s /\ \A q \in Procs \ {p} : pc'[q] = pc[q]
BY DEF GoTo, TypeInv, TypeOK

\* A step answers the client or keeps the request.
LEMMA StepActs ==
  ASSUME TypeInv, NEW p \in Procs, Acts(p)
  PROVE  /\ Others(p)
         /\ \/ pc'[p] = "idle" /\ op'[p] = None /\ late'[p] = FALSE
            \/ op' = op /\ tok' = tok /\ late' = late
         /\ op'[p] \in {op[p], None}
<1> USE DEF historyVars
<1>1. CASE Reply(p)
  BY <1>1, ReplyActs
<1>2. ASSUME NEW s, GoTo(p, s), op' = op, tok' = tok, late' = late,
             \A q \in Procs \ {p} : read'[q] = read[q] /\ new'[q] = new[q]
      PROVE  Others(p)
  BY <1>2, GoToActs DEF Others
<1>3. CASE FindUser(p)
  <2>1. read' = [read EXCEPT ![p] = row] /\ UNCHANGED <<op, tok, new, late>>
    BY <1>3 DEF FindUser
  <2>2. \E s : GoTo(p, s)
    BY <1>3 DEF FindUser
  <2>3. \A q \in Procs \ {p} : read'[q] = read[q] /\ new'[q] = new[q]
    BY <2>1 DEF TypeInv, TypeOK
  <2> QED BY <1>2, <2>1, <2>2, <2>3
<1>4. CASE CheckBlocked(p) \/ CheckKey(p) \/ BlockTokens(p)
  <2>1. (\E s : GoTo(p, s)) /\ UNCHANGED <<op, tok, read, new, late>>
    BY <1>4 DEF CheckBlocked, CheckKey, BlockTokens
  <2> QED BY <1>2, <2>1
<1>5. CASE StoreKey(p)
  <2>1. GoTo(p, "setver") /\ UNCHANGED <<op, tok, read, late>>
    BY <1>5 DEF StoreKey
  <2>2. \A q \in Procs \ {p} : new'[q] = new[q]
    BY <1>5 DEF StoreKey, TypeInv, TypeOK
  <2> QED BY <1>2, <2>1, <2>2
<1>6. CASE SetVersion(p) \/ UpdateUser(p) \/ DeleteKey(p)
  <2>1. Reply(p) \/ ((\E s : GoTo(p, s)) /\ UNCHANGED <<op, tok, read, new, late>>)
    BY <1>6 DEF SetVersion, UpdateUser, DeleteKey
  <2> QED BY <1>1, <1>2, <2>1
<1>7. CASE DeleteOldKey(p) \/ Fail(p)
  BY <1>1, <1>7 DEF DeleteOldKey, Fail, Refuse
<1> QED BY <1>3, <1>4, <1>5, <1>6, <1>7 DEF Acts, Issue, Logout

LEMMA BeginActs ==
  ASSUME TypeInv, NEW p \in Procs, NEW o \in Ops, NEW j \in Jtis \cup {None}, Begin(p, o, j)
  PROVE  /\ Others(p) /\ pc'[p] = FirstStep(o) /\ op'[p] = o /\ tok'[p] = j
         /\ late'[p] = (j # None /\ (verOf[j] < floor \/ j \in out))
         /\ o \in Exclusive => \A q \in Procs : op[q] \notin Exclusive
         /\ UNCHANGED <<row, version, keys, blocked, verOf, issued, floor, out, ignored>>
<1>1. TypeOK
  BY DEF TypeInv
<1> QED BY <1>1 DEF Begin, GoTo, Others, TypeOK, redisVars

LEMMA AloneStays ==
  ASSUME TypeInv, AloneInv, NEW p \in Procs,
         Acts(p) \/ \E o \in Ops, j \in Jtis \cup {None} : Begin(p, o, j)
  PROVE  AloneInv'
<1>1. None \notin Exclusive
  BY TokenAssumption
<1>2. CASE Acts(p)
  <2>1. Others(p) /\ op'[p] \in {op[p], None}
    BY <1>2, StepActs
  <2> QED BY <1>1, <2>1 DEF Others, AloneInv
<1>3. ASSUME NEW o \in Ops, NEW j \in Jtis \cup {None}, Begin(p, o, j) PROVE AloneInv'
  <2>1. Others(p) /\ op'[p] = o /\ (o \in Exclusive => \A q \in Procs : op[q] \notin Exclusive)
    BY <1>3, BeginActs
  <2> QED BY <2>1 DEF Others, AloneInv
<1> QED BY <1>2, <1>3

LEMMA RowTypes ==
  ASSUME TypeInv
  PROVE  /\ row \in Row /\ row.ver \in Nat /\ floor \in Nat
         /\ \A j \in Drawn : verOf[j] \in Nat
         /\ \A p \in Procs : read[p] \in Row => read[p].ver \in Nat
BY DEF TypeInv, TypeOK, Row, Drawn

\* The row, the pairs and the floor stay: only the handler itself is to be looked at.
LEMMA RowKept ==
  ASSUME TypeInv, RowInv, NEW p \in Procs, Others(p), AloneInv', UNCHANGED <<row, verOf, floor>>,
         RowHandlerOK(p)'
  PROVE  RowInv'
<1>1. Drawn' = Drawn
  BY DEF Drawn
<1>2. ASSUME NEW q \in Procs PROVE RowHandlerOK(q)'
  BY DEF Others, RowInv, RowHandlerOK
<1> QED BY <1>1, <1>2 DEF RowInv

LEMMA StoreKeyActs ==
  ASSUME TypeInv, NEW p \in Procs, StoreKey(p)
  PROVE  /\ pc[p] = "setex" /\ op[p] \in Issuers /\ pc'[p] = "setver" /\ op' = op /\ read' = read
         /\ read[p] \in Row /\ read[p].ver \in Nat
         /\ new'[p] \in Jtis \ Drawn /\ verOf'[new'[p]] = read[p].ver
         /\ keys' = keys \cup {new'[p]}
         /\ Drawn' = Drawn \cup {new'[p]} /\ \A j \in Drawn : verOf'[j] = verOf[j]
         /\ UNCHANGED <<row, version, blocked, issued, floor, out, ignored>>
<1>1. pc[p] = "setex" /\ op[p] \in Issuers /\ read[p] \in Row /\ read[p].ver \in Nat
  BY DEF StoreKey, TypeInv, HandlersOK, HandlerOK, Row
<1>2. PICK j \in Jtis \ Drawn : /\ keys' = keys \cup {j}
                                /\ verOf' = [verOf EXCEPT ![j] = read[p].ver]
                                /\ new' = [new EXCEPT ![p] = j]
  BY DEF StoreKey
<1>3. new'[p] = j /\ verOf'[j] = read[p].ver /\ \A i \in Jtis \ {j} : verOf'[i] = verOf[i]
  BY <1>2 DEF TypeInv, TypeOK
<1>4. read[p].ver # None
  BY <1>1, TokenAssumption
<1>5. Drawn' = Drawn \cup {j} /\ \A i \in Drawn : verOf'[i] = verOf[i]
  BY <1>3, <1>4 DEF Drawn
<1>6. GoTo(p, "setver") /\ op' = op /\ read' = read
      /\ UNCHANGED <<row, version, blocked, issued, floor, out, ignored>>
  BY DEF StoreKey, historyVars
<1>7. pc'[p] = "setver"
  BY <1>6, GoToActs
<1> QED BY <1>1, <1>2, <1>3, <1>5, <1>6, <1>7

LEMMA SetVersionActs ==
  ASSUME TypeInv, NEW p \in Procs, SetVersion(p)
  PROVE  /\ pc[p] = "setver" /\ op[p] \in Issuers \cup Bumpers /\ read[p] \in Row /\ read[p].ver \in Nat
         /\ version' = Written(p)
         /\ \/ /\ op[p] = "refresh" /\ pc'[p] = "delold" /\ op' = op /\ read' = read /\ new' = new
               /\ UNCHANGED <<floor, issued, out>>
            \/ /\ op[p] = "login" /\ pc'[p] = "idle" /\ op'[p] = None
               /\ issued' = issued \cup {new[p]} /\ UNCHANGED <<floor, out>>
            \/ /\ op[p] \in Bumpers /\ pc'[p] = "idle" /\ op'[p] = None
               /\ floor' \in {floor, read[p].ver + 1} /\ floor' >= floor
               /\ UNCHANGED issued
               /\ out' = IF op[p] = "logout" THEN out \cup {tok[p]} ELSE out
         /\ UNCHANGED <<row, keys, blocked, verOf, ignored>>
<1>1. pc[p] = "setver" /\ op[p] \in Issuers \cup Bumpers /\ read[p] \in Row
  BY DEF SetVersion, TypeInv, HandlersOK, HandlerOK
<1>2. read[p].ver \in Nat /\ floor \in Nat
  BY <1>1, RowTypes
<1>3. version' = Written(p) /\ UNCHANGED <<row, keys, blocked, verOf, ignored>>
  BY DEF SetVersion
<1>4. CASE op[p] = "refresh" /\ GoTo(p, "delold") /\ UNCHANGED <<op, tok, read, new, issued, historyVars>>
  <2>1. pc'[p] = "delold"
    BY <1>4, GoToActs
  <2> QED BY <1>1, <1>2, <1>3, <1>4, <2>1 DEF historyVars
<1>5. CASE op[p] = "login" /\ Reply(p) /\ issued' = issued \cup {new[p]} /\ UNCHANGED <<floor, out, uses>>
  <2>1. pc'[p] = "idle" /\ op'[p] = None
    BY <1>5, ReplyActs
  <2> QED BY <1>1, <1>2, <1>3, <1>5, <2>1
<1>6. CASE /\ op[p] \in Bumpers /\ Reply(p)
           /\ floor' = IF read[p].ver < floor THEN floor ELSE read[p].ver + 1
           /\ out' = IF op[p] = "logout" THEN out \cup {tok[p]} ELSE out
           /\ UNCHANGED <<issued, uses>>
  <2>1. pc'[p] = "idle" /\ op'[p] = None
    BY <1>6, ReplyActs
  <2>2. floor' \in {floor, read[p].ver + 1} /\ floor' >= floor
    BY <1>2, <1>6
  <2> QED BY <1>1, <1>2, <1>3, <1>6, <2>1, <2>2
<1> QED BY <1>4, <1>5, <1>6 DEF SetVersion

LEMMA UpdateUserActs ==
  ASSUME TypeInv, NEW p \in Procs, UpdateUser(p)
  PROVE  /\ pc[p] = "update" /\ op[p] \in RowWriters /\ read[p] \in Row /\ read[p].ver \in Nat
         /\ IF op[p] \in Bumpers
            THEN /\ row'.ver = read[p].ver + 1 /\ pc'[p] = "setver" /\ op' = op /\ read' = read /\ tok' = tok
            ELSE row'.ver = read[p].ver /\ pc'[p] = "idle" /\ op'[p] = None
         /\ UNCHANGED <<version, keys, blocked, verOf, issued, floor, out, ignored>>
<1>1. pc[p] = "update" /\ op[p] \in RowWriters /\ read[p] \in Row
  BY DEF UpdateUser, TypeInv, HandlersOK, HandlerOK
<1>2. read[p].ver \in Nat
  BY <1>1, RowTypes
<1>3. row' \in NewRow(p) /\ UNCHANGED <<version, keys, blocked, verOf, issued, floor, out, ignored>>
  BY DEF UpdateUser, redisVars
<1>4. row'.ver = IF op[p] \in Bumpers THEN read[p].ver + 1 ELSE read[p].ver
  <2>1. "delete" \in Bumpers /\ "ban" \notin Bumpers
    BY DEF Bumpers
  <2>2. CASE op[p] = "delete"
    BY <1>3, <2>1, <2>2 DEF NewRow
  <2>3. CASE op[p] # "delete" /\ op[p] \in Bumpers
    <3>1. row' = [read[p] EXCEPT !.ver = read[p].ver + 1]
      BY <1>3, <2>3 DEF NewRow
    <3> QED BY <1>1, <2>3, <3>1 DEF Row
  <2>4. CASE op[p] = "ban"
    <3>1. PICK s \in {0, 1} : row' = [read[p] EXCEPT !.status = s]
      BY <1>3, <2>1, <2>4 DEF NewRow
    <3> QED BY <1>1, <2>1, <2>4, <3>1 DEF Row
  <2>5. CASE op[p] \notin Bumpers /\ op[p] # "ban"
    BY <1>3, <2>1, <2>5 DEF NewRow
  <2> QED BY <2>1, <2>2, <2>3, <2>4, <2>5
<1>5. CASE op[p] \in Bumpers
  <2>1. GoTo(p, "setver") /\ UNCHANGED <<op, tok, read, new, late>>
    BY <1>5 DEF UpdateUser
  <2> QED BY <1>1, <1>2, <1>3, <1>4, <1>5, <2>1, GoToActs
<1>6. CASE op[p] \notin Bumpers
  <2>1. Reply(p)
    BY <1>6 DEF UpdateUser
  <2> QED BY <1>1, <1>2, <1>3, <1>4, <1>6, <2>1, ReplyActs
<1> QED BY <1>5, <1>6

\* The steps that neither draw a pair nor write a version or the row.
LEMMA QuietActs ==
  ASSUME TypeInv, NEW p \in Procs,
         FindUser(p) \/ CheckBlocked(p) \/ CheckKey(p) \/ Logout(p) \/ Fail(p) \/ DeleteOldKey(p)
  PROVE  /\ UNCHANGED <<row, version, verOf, floor>>
         /\ \/ pc'[p] = "idle" /\ op'[p] = None /\ issued' = issued
            \/ pc[p] = "delold" /\ pc'[p] = "idle" /\ op'[p] = None /\ issued' = issued \cup {new[p]}
            \/ /\ pc'[p] \in {"find", "delkey"} /\ new' = new /\ op' = op /\ issued' = issued
            \/ /\ pc[p] = "exists" /\ pc'[p] = "setex" /\ read' = read /\ new' = new /\ op' = op
               /\ issued' = issued
            \/ /\ pc'[p] \in {"setex", "exists", "update"} /\ read'[p] = row /\ new' = new /\ op' = op
               /\ issued' = issued
<1> USE DEF redisVars, historyVars
<1>1. CASE FindUser(p)
  <2>1. \E s \in {"setex", "exists", "update"} : GoTo(p, s)
    BY <1>1 DEF FindUser
  <2>2. pc'[p] \in {"setex", "exists", "update"}
    BY <2>1, GoToActs
  <2>3. read'[p] = row
    BY <1>1 DEF FindUser, TypeInv, TypeOK
  <2> QED BY <1>1, <2>2, <2>3 DEF FindUser
<1>2. CASE CheckBlocked(p)
  <2>1. GoTo(p, "find")
    BY <1>2 DEF CheckBlocked
  <2> QED BY <1>2, <2>1, GoToActs DEF CheckBlocked
<1>3. CASE CheckKey(p)
  <2>1. GoTo(p, "setex") /\ pc[p] = "exists"
    BY <1>3 DEF CheckKey
  <2> QED BY <1>3, <2>1, GoToActs DEF CheckKey
<1>4. CASE Logout(p)
  <2>1. Reply(p) \/ ((GoTo(p, "delkey") \/ GoTo(p, "find")) /\ new' = new /\ op' = op)
    BY <1>4 DEF Logout, BlockTokens, DeleteKey
  <2>2. (pc'[p] = "idle" /\ op'[p] = None) \/ (pc'[p] \in {"delkey", "find"} /\ new' = new /\ op' = op)
    BY <2>1, GoToActs, ReplyActs
  <2>3. UNCHANGED <<row, version, verOf, floor, issued>>
    BY <1>4 DEF Logout, BlockTokens, DeleteKey
  <2> QED BY <2>2, <2>3
<1>5. CASE Fail(p)
  BY <1>5, ReplyActs DEF Fail, Refuse
<1>6. CASE DeleteOldKey(p)
  <2>1. pc'[p] = "idle" /\ op'[p] = None
    BY <1>6, ReplyActs DEF DeleteOldKey
  <2>2. pc[p] = "delold" /\ issued' = issued \cup {new[p]} /\ UNCHANGED <<row, version, verOf, floor>>
    BY <1>6 DEF DeleteOldKey
  <2> QED BY <2>1, <2>2
<1> QED BY <1>1, <1>2, <1>3, <1>4, <1>5, <1>6

LEMMA BeginRow ==
  ASSUME TypeInv, RowInv, NEW p \in Procs, NEW o \in Ops, NEW j \in Jtis \cup {None}, Begin(p, o, j)
  PROVE  RowInv'
<1>1. Others(p) /\ pc'[p] = FirstStep(o) /\ UNCHANGED <<row, verOf, floor>>
  BY BeginActs
<1>2. FirstStep(o) \in {"blocked", "block", "find"}
  BY DEF FirstStep
<1>3. AloneInv'
  BY AloneStays DEF RowInv
<1> QED BY <1>1, <1>2, <1>3, RowKept DEF RowHandlerOK

LEMMA QuietRow ==
  ASSUME TypeInv, RowInv, NEW p \in Procs,
         FindUser(p) \/ CheckBlocked(p) \/ CheckKey(p) \/ Logout(p) \/ Fail(p) \/ DeleteOldKey(p)
  PROVE  RowInv'
<1>1. Acts(p)
  BY DEF Acts, Issue
<1>2. Others(p) /\ AloneInv'
  BY <1>1, StepActs, AloneStays DEF RowInv
<1>3. UNCHANGED <<row, verOf, floor>>
  BY QuietActs
<1>4. row.ver \in Nat
  BY RowTypes
<1>5. RowHandlerOK(p)'
  BY <1>3, <1>4, QuietActs DEF RowInv, RowHandlerOK
<1> QED BY <1>2, <1>3, <1>5, RowKept

LEMMA StoreKeyRow ==
  ASSUME TypeInv, RowInv, NEW p \in Procs, StoreKey(p)
  PROVE  RowInv'
<1>1. /\ pc[p] = "setex" /\ op[p] \in Issuers /\ pc'[p] = "setver" /\ op' = op /\ read' = read
      /\ verOf'[new'[p]] = read[p].ver /\ UNCHANGED <<row, floor>>
      /\ Drawn' = Drawn \cup {new'[p]} /\ \A j \in Drawn : verOf'[j] = verOf[j]
  BY StoreKeyActs
<1>2. Others(p) /\ AloneInv'
  BY StepActs, AloneStays DEF RowInv, Acts, Issue
<1>3. op[p] \notin Bumpers /\ read[p].ver <= row.ver
  BY <1>1 DEF Issuers, Bumpers, RowInv, RowHandlerOK
<1>4. \A q \in Procs : RowHandlerOK(q)'
  BY <1>1, <1>2, <1>3 DEF RowInv, RowHandlerOK, Others
<1>5. \A j \in Drawn' : verOf'[j] <= row'.ver
  BY <1>1, <1>3 DEF RowInv
<1> QED BY <1>1, <1>2, <1>4, <1>5 DEF RowInv

LEMMA SetVersionRow ==
  ASSUME TypeInv, RowInv, NEW p \in Procs, SetVersion(p)
  PROVE  RowInv'
<1>1. Others(p) /\ AloneInv'
  BY StepActs, AloneStays DEF RowInv, Acts, Issue
<1>2. UNCHANGED <<row, verOf>> /\ pc[p] = "setver" /\ read[p].ver \in Nat /\ row.ver \in Nat
  BY SetVersionActs, RowTypes
<1>3. \A q \in Procs \ {p} : RowHandlerOK(q)'
  BY <1>1, <1>2 DEF RowInv, RowHandlerOK, Others
<1>4. Drawn' = Drawn
  BY <1>2 DEF Drawn
<1>5. floor' <= row.ver /\ RowHandlerOK(p)'
  <2>1. CASE op[p] = "refresh" /\ pc'[p] = "delold" /\ read' = read /\ floor' = floor
    BY <1>2, <2>1 DEF RowInv, RowHandlerOK
  <2>2. CASE pc'[p] = "idle" /\ floor' = floor
    BY <2>2 DEF RowInv, RowHandlerOK
  <2>3. CASE op[p] \in Bumpers /\ pc'[p] = "idle" /\ floor' \in {floor, read[p].ver + 1}
    BY <1>2, <2>3 DEF RowInv, RowHandlerOK
  <2> QED BY <2>1, <2>2, <2>3, SetVersionActs
<1> QED BY <1>1, <1>2, <1>3, <1>4, <1>5 DEF RowInv

\* No other writer has read the row: with two of them the second would put the
\* version back.
LEMMA UpdateUserRow ==
  ASSUME RowWriters \subseteq Exclusive,
         TypeInv, RowInv, NEW p \in Procs, UpdateUser(p)
  PROVE  RowInv'
<1>1. Others(p) /\ AloneInv'
  BY StepActs, AloneStays DEF RowInv, Acts
<1>2. /\ pc[p] = "update" /\ op[p] \in RowWriters /\ UNCHANGED <<verOf, floor>>
      /\ row.ver \in Nat /\ floor \in Nat /\ \A j \in Drawn : verOf[j] \in Nat
  BY UpdateUserActs, RowTypes
<1>3. read[p] = row
  BY <1>2 DEF RowInv, RowHandlerOK
<1>4. row'.ver = row.ver \/ (row'.ver = row.ver + 1)
  BY <1>3, UpdateUserActs
<1>5. ASSUME NEW q \in Procs \ {p} PROVE RowHandlerOK(q)'
  <2>1. op[q] \notin RowWriters /\ RowHandlerOK(q)
    BY <1>2 DEF RowInv, AloneInv
  <2>2. pc[q] # "update" /\ op[q] \notin Bumpers
    BY <2>1 DEF RowWriters, TypeInv, HandlersOK, HandlerOK
  <2>3. pc[q] \in {"exists", "setex", "setver", "delold"} => read[q].ver \in Nat /\ read[q].ver <= row.ver
    BY <2>1, RowTypes DEF RowHandlerOK, TypeInv, HandlersOK, HandlerOK
  <2>4. pc'[q] = pc[q] /\ op'[q] = op[q] /\ read'[q] = read[q]
    BY <1>1 DEF Others
  <2> QED BY <1>2, <1>4, <2>2, <2>3, <2>4 DEF RowHandlerOK
<1>6. RowHandlerOK(p)'
  BY <1>2, <1>3, UpdateUserActs DEF RowHandlerOK
<1>7. Drawn' = Drawn
  BY <1>2 DEF Drawn
<1>8. \A j \in Drawn : verOf[j] <= row'.ver
  BY <1>2, <1>4 DEF RowInv
<1>9. floor <= row'.ver
  BY <1>2, <1>4 DEF RowInv
<1> QED BY <1>1, <1>2, <1>5, <1>6, <1>7, <1>8, <1>9 DEF RowInv

LEMMA NextRow ==
  ASSUME RowWriters \subseteq Exclusive, TypeInv, RowInv, [Next]_vars
  PROVE  RowInv'
<1>1. ASSUME NEW p \in Procs, NEW o \in Ops, NEW j \in Jtis \cup {None}, Begin(p, o, j)
      PROVE  RowInv'
  BY <1>1, BeginRow
<1>2. ASSUME NEW p \in Procs, FindUser(p) \/ Issue(p) \/ Logout(p) \/ UpdateUser(p) \/ Fail(p)
      PROVE  RowInv'
  BY <1>2, QuietRow, StoreKeyRow, SetVersionRow, UpdateUserRow DEF Issue
<1>3. CASE RedisRestarts \/ UNCHANGED vars
  <2>1. UNCHANGED <<row, verOf, handlerVars, historyVars>>
    BY <1>3 DEF RedisRestarts, vars
  <2> QED BY <2>1 DEF RowInv, AloneInv, RowHandlerOK, Drawn, handlerVars, historyVars
<1> QED BY <1>1, <1>2, <1>3 DEF Next

LEMMA InitRow == Init => RowInv
<1> SUFFICES ASSUME Init PROVE RowInv
  OBVIOUS
<1>1. None \notin Exclusive
  BY TokenAssumption
<1>2. AloneInv
  BY <1>1 DEF Init, AloneInv
<1>3. Drawn = {}
  BY DEF Init, Drawn
<1>4. floor <= row.ver /\ \A p \in Procs : RowHandlerOK(p)
  BY DEF Init, RowHandlerOK
<1> QED BY <1>2, <1>3, <1>4 DEF RowInv

-----------------------------------------------------------------------------
(* Nobody issues a pair or writes the row while another does.                 *)

LEMMA BeginSerial ==
  ASSUME TypeInv, SerialInv, NEW p \in Procs, NEW o \in Ops, NEW j \in Jtis \cup {None}, Begin(p, o, j)
  PROVE  SerialInv'
<1>1. /\ Others(p) /\ pc'[p] = FirstStep(o) /\ UNCHANGED <<row, version, verOf, issued, floor>>
  BY BeginActs
<1>2. FirstStep(o) \in {"blocked", "block", "find"}
  BY DEF FirstStep
<1>3. \A q \in Procs : SerialHandlerOK(q)'
  BY <1>1, <1>2 DEF Others, SerialInv, SerialHandlerOK
<1> QED BY <1>1, <1>3 DEF SerialInv, VersionInv

LEMMA QuietSerial ==
  ASSUME TypeInv, SerialInv, NEW p \in Procs,
         FindUser(p) \/ CheckBlocked(p) \/ CheckKey(p) \/ Logout(p) \/ Fail(p) \/ DeleteOldKey(p)
  PROVE  SerialInv'
<1>1. Acts(p)
  BY DEF Acts, Issue
<1>2. Others(p) /\ UNCHANGED <<row, version, verOf, floor>>
  BY <1>1, StepActs, QuietActs
<1>3. \A q \in Procs \ {p} : SerialHandlerOK(q)'
  BY <1>2 DEF Others, SerialInv, SerialHandlerOK
<1>4. SerialHandlerOK(p)'
  BY <1>2, QuietActs DEF SerialInv, SerialHandlerOK
<1>5. CASE issued' = issued
  BY <1>2, <1>3, <1>4, <1>5 DEF SerialInv, VersionInv
<1>6. CASE pc[p] = "delold" /\ issued' = issued \cup {new[p]}
  <2>1. op[p] \in Issuers
    BY <1>6 DEF TypeInv, HandlersOK, HandlerOK, Issuers
  <2>2. verOf[new[p]] = row.ver /\ version \in {None, row.ver}
    BY <1>6, <2>1 DEF SerialInv, SerialHandlerOK
  <2>3. VersionInv'
    BY <1>2, <1>6, <2>2 DEF SerialInv, VersionInv
  <2> QED BY <1>3, <1>4, <2>3 DEF SerialInv
<1> QED BY <1>5, <1>6, QuietActs

LEMMA StoreKeySerial ==
  ASSUME TypeInv, SerialInv, NEW p \in Procs, StoreKey(p)
  PROVE  SerialInv'
<1>1. /\ pc[p] = "setex" /\ op[p] \in Issuers /\ pc'[p] = "setver" /\ op' = op /\ read' = read
      /\ verOf'[new'[p]] = read[p].ver /\ \A j \in Drawn : verOf'[j] = verOf[j]
      /\ UNCHANGED <<row, version, issued, floor>>
  BY StoreKeyActs
<1>2. Others(p)
  BY StepActs DEF Acts, Issue
<1>3. SerialHandlerOK(p)'
  BY <1>1 DEF SerialInv, SerialHandlerOK
<1>4. ASSUME NEW q \in Procs \ {p} PROVE SerialHandlerOK(q)'
  <2>1. /\ pc'[q] = pc[q] /\ op'[q] = op[q] /\ read'[q] = read[q] /\ new'[q] = new[q]
        /\ SerialHandlerOK(q)
    BY <1>2 DEF Others, SerialInv
  <2>2. op[q] \in Issuers /\ pc[q] \in {"setver", "delold"} => new[q] \in Drawn
    BY DEF TypeInv, HandlersOK, HandlerOK
  <2>3. op[q] \in Issuers /\ pc[q] \in {"setver", "delold"} => verOf'[new[q]] = verOf[new[q]]
    BY <1>1, <2>2
  <2> QED BY <1>1, <2>1, <2>3 DEF SerialHandlerOK
<1>5. \A j \in issued : verOf'[j] = verOf[j]
  BY <1>1 DEF TypeInv, PairsOK
<1>6. VersionInv'
  BY <1>1, <1>5 DEF SerialInv, VersionInv
<1> QED BY <1>3, <1>4, <1>6 DEF SerialInv

\* The version a request writes is the row's: nobody has made a newer one since it
\* read it.
LEMMA SetVersionSerial ==
  ASSUME Issuers \cup RowWriters \subseteq Exclusive,
         TypeInv, RowInv, RowInv', SerialInv, NEW p \in Procs, SetVersion(p)
  PROVE  SerialInv'
<1>1. /\ pc[p] = "setver" /\ op[p] \in Issuers \cup Bumpers /\ version' = Written(p)
      /\ UNCHANGED <<row, verOf>>
  BY SetVersionActs
<1>2. Others(p)
  BY StepActs DEF Acts, Issue
<1>3. version' = row.ver
  <2>1. CASE op[p] \in Bumpers
    BY <1>1, <2>1 DEF Written, RowInv, RowHandlerOK
  <2>2. CASE op[p] \notin Bumpers
    BY <1>1, <2>2 DEF Written, SerialInv, SerialHandlerOK
  <2> QED BY <2>1, <2>2
<1>4. ASSUME NEW q \in Procs \ {p} PROVE op[q] \notin Issuers
  BY <1>1 DEF RowWriters, RowInv, AloneInv
<1>5. \A q \in Procs \ {p} : SerialHandlerOK(q)'
  BY <1>2, <1>4 DEF Others, SerialHandlerOK
<1>6. SerialHandlerOK(p)'
  <2>1. CASE pc'[p] = "idle"
    BY <2>1 DEF SerialHandlerOK
  <2>2. CASE op[p] = "refresh" /\ pc'[p] = "delold" /\ op' = op /\ new' = new
    <3>1. verOf[new[p]] = row.ver
      BY <1>1, <2>2 DEF SerialInv, SerialHandlerOK, Issuers
    <3> QED BY <1>1, <1>3, <2>2, <3>1 DEF SerialHandlerOK
  <2> QED BY <2>1, <2>2, SetVersionActs
<1>7. VersionInv'
  BY <1>1, <1>3 DEF VersionInv, RowInv
<1> QED BY <1>5, <1>6, <1>7 DEF SerialInv

LEMMA UpdateUserSerial ==
  ASSUME Issuers \cup RowWriters \subseteq Exclusive,
         TypeInv, RowInv, SerialInv, NEW p \in Procs, UpdateUser(p)
  PROVE  SerialInv'
<1>1. /\ pc[p] = "update" /\ op[p] \in RowWriters
      /\ UNCHANGED <<version, verOf, issued, floor>>
      /\ row.ver \in Nat /\ floor \in Nat /\ \A j \in Drawn : verOf[j] \in Nat
  BY UpdateUserActs, RowTypes
<1>2. Others(p)
  BY StepActs DEF Acts
<1>3. ASSUME NEW q \in Procs \ {p} PROVE SerialHandlerOK(q)'
  <2>1. op[q] \notin Issuers
    BY <1>1 DEF RowInv, AloneInv
  <2> QED BY <1>2, <2>1 DEF Others, SerialHandlerOK
<1>4. SerialHandlerOK(p)'
  <2>1. op[p] \notin Issuers
    BY <1>1 DEF RowWriters, Bumpers, Issuers
  <2>2. None \notin Issuers
    BY TokenAssumption DEF Issuers, OpNames
  <2> QED BY <2>1, <2>2, UpdateUserActs DEF SerialHandlerOK
<1>5. row'.ver = row.ver \/ row'.ver = row.ver + 1
  BY <1>1, UpdateUserActs DEF RowInv, RowHandlerOK
<1>6. \A j \in issued : verOf[j] \in Nat /\ verOf[j] <= row.ver
  BY <1>1 DEF TypeInv, PairsOK, RowInv
<1>7. VersionInv'
  BY <1>1, <1>5, <1>6 DEF SerialInv, VersionInv
<1> QED BY <1>3, <1>4, <1>7 DEF SerialInv

LEMMA NextSerial ==
  ASSUME Issuers \cup RowWriters \subseteq Exclusive,
         TypeInv, RowInv, RowInv', SerialInv, [Next]_vars
  PROVE  SerialInv'
<1>1. ASSUME NEW p \in Procs, NEW o \in Ops, NEW j \in Jtis \cup {None}, Begin(p, o, j)
      PROVE  SerialInv'
  BY <1>1, BeginSerial
<1>2. ASSUME NEW p \in Procs, FindUser(p) \/ Issue(p) \/ Logout(p) \/ UpdateUser(p) \/ Fail(p)
      PROVE  SerialInv'
  BY <1>2, QuietSerial, StoreKeySerial, SetVersionSerial, UpdateUserSerial DEF Issue
<1>3. CASE RedisRestarts \/ UNCHANGED vars
  <2>1. UNCHANGED <<row, verOf, issued, handlerVars, historyVars>> /\ version' \in {version, None}
    BY <1>3 DEF RedisRestarts, vars, redisVars
  <2>2. VersionInv'
    BY <2>1 DEF SerialInv, VersionInv, historyVars
  <2>3. \A q \in Procs : SerialHandlerOK(q)'
    BY <2>1 DEF SerialInv, SerialHandlerOK, handlerVars
  <2> QED BY <2>2, <2>3 DEF SerialInv
<1> QED BY <1>1, <1>2, <1>3 DEF Next

LEMMA InitSerial == Init => SerialInv
BY DEF Init, SerialInv, VersionInv, SerialHandlerOK

LEMMA AlwaysSerial ==
  ASSUME Issuers \cup RowWriters \subseteq Exclusive
  PROVE  Spec => [](TypeInv /\ RowInv /\ SerialInv)
<1>1. TypeInv /\ RowInv /\ SerialInv /\ [Next]_vars => RowInv' /\ SerialInv'
  BY NextRow, NextSerial
<1> QED BY <1>1, InitRow, InitSerial, AlwaysTypeInv, PTL DEF Spec

\* Once a revocation was answered, no access token issued before it is accepted, also
\* after requests that failed half-way and restarts of Redis, if a request that
\* issues a pair or writes the row does not overlap with another of them.
THEOREM RevokedTokensRefused ==
  ASSUME Issuers \cup RowWriters \subseteq Exclusive
  PROVE  Spec => []RevokedNeverAccepted
<1>1. TypeInv /\ RowInv /\ SerialInv => RevokedNeverAccepted
  <2> SUFFICES ASSUME TypeInv, RowInv, SerialInv, NEW j \in issued, verOf[j] < floor, version = verOf[j]
               PROVE  FALSE
    BY DEF RevokedNeverAccepted, Accepted
  <2>1. verOf[j] \in Nat /\ floor \in Nat
    BY RowTypes DEF TypeInv, PairsOK
  <2>2. version # None
    BY <2>1, TokenAssumption
  <2> QED BY <2>1, <2>2 DEF SerialInv, VersionInv
<1> QED BY <1>1, AlwaysSerial, PTL

\* Nor does such a token stand for anybody, on any route, open to everybody or not, and whether Redis answers or
\* not: the request is refused or served as nobody's.
THEOREM RevokedTokensActAsNobody ==
  ASSUME Issuers \cup RowWriters \subseteq Exclusive
  PROVE  Spec => []RevokedActsAsNobody
<1>1. RevokedNeverAccepted => RevokedActsAsNobody
  BY DEF RevokedNeverAccepted, RevokedActsAsNobody, UserOf, WeakUser, Admits
<1> QED
  BY <1>1, RevokedTokensRefused, PTL

\* Under the same condition no failed request locks a user out: unless Redis has lost
\* the version, it is the row's as soon as a pair of that version is out.
THEOREM CurrentTokensAccepted ==
  ASSUME Issuers \cup RowWriters \subseteq Exclusive
  PROVE  Spec => []CurrentTokensWork
<1>1. SerialInv => CurrentTokensWork
  BY DEF SerialInv, VersionInv, CurrentTokensWork, Accepted
<1> QED BY <1>1, AlwaysSerial, PTL

-----------------------------------------------------------------------------
(* The routes of the two programs, and what they make of a token.             *)

\* Sequences written out, and the join of two of them.
LEMMA Tuples ==
  ASSUME NEW S, NEW a \in S, NEW b \in S, NEW c \in S
  PROVE  /\ <<a>> \in Seq(S) /\ Len(<<a>>) = 1 /\ <<a>>[1] = a
         /\ <<a, b>> \in Seq(S) /\ Len(<<a, b>>) = 2 /\ <<a, b>>[1] = a /\ <<a, b>>[2] = b
         /\ <<a, b, c>> \in Seq(S) /\ Len(<<a, b, c>>) = 3
         /\ <<a, b, c>>[1] = a /\ <<a, b, c>>[2] = b /\ <<a, b, c>>[3] = c
<1>1. <<a>> \in Seq(S)
  OBVIOUS
<1>2. <<a, b>> \in Seq(S)
  OBVIOUS
<1>3. <<a, b, c>> \in Seq(S)
  OBVIOUS
<1> QED BY <1>1, <1>2, <1>3

LEMMA Joined ==
  ASSUME NEW S, NEW a \in S, NEW b \in S, NEW c \in S
  PROVE  /\ <<a, b>> \o <<c>> = <<a, b, c>>
         /\ <<>> \o <<a, b, c>> = <<a, b, c>>
         /\ <<a>> \o <<b, c>> = <<a, b, c>>
<1>1. <<>> \o <<a, b, c>> = <<a, b, c>>
  BY Tuples, ConcatEmptySeq
<1>2. <<a, b>> \o <<c>> = <<a, b, c>>
  <2> DEFINE u == <<a, b>>
             v == <<c>>
             t == <<a, b, c>>
  <2>1. /\ u \in Seq(S) /\ Len(u) = 2 /\ u[1] = a /\ u[2] = b
        /\ v \in Seq(S) /\ Len(v) = 1 /\ v[1] = c
        /\ t \in Seq(S) /\ Len(t) = 3 /\ t[1] = a /\ t[2] = b /\ t[3] = c
    BY Tuples
  <2> HIDE DEF u, v, t
  <2>2. /\ u \o v \in Seq(S) /\ Len(u \o v) = Len(u) + Len(v)
        /\ \A i \in 1 .. Len(u) + Len(v) :
               (u \o v)[i] = IF i <= Len(u) THEN u[i] ELSE v[i - Len(u)]
    BY <2>1, ConcatProperties
  <2>3. Len(u \o v) = 3 /\ (u \o v)[1] = a /\ (u \o v)[2] = b /\ (u \o v)[3] = c
    BY <2>1, <2>2
  <2>4. u \o v = t
    BY <2>1, <2>2, <2>3, SeqEqual
  <2> QED BY <2>4 DEF u, v, t
<1>3. <<a>> \o <<b, c>> = <<a, b, c>>
  <2> DEFINE u == <<a>>
             v == <<b, c>>
             t == <<a, b, c>>
  <2>1. /\ u \in Seq(S) /\ Len(u) = 1 /\ u[1] = a
        /\ v \in Seq(S) /\ Len(v) = 2 /\ v[1] = b /\ v[2] = c
        /\ t \in Seq(S) /\ Len(t) = 3 /\ t[1] = a /\ t[2] = b /\ t[3] = c
    BY Tuples
  <2> HIDE DEF u, v, t
  <2>2. /\ u \o v \in Seq(S) /\ Len(u \o v) = Len(u) + Len(v)
        /\ \A i \in 1 .. Len(u) + Len(v) :
               (u \o v)[i] = IF i <= Len(u) THEN u[i] ELSE v[i - Len(u)]
    BY <2>1, ConcatProperties
  <2>3. Len(u \o v) = 3 /\ (u \o v)[1] = a /\ (u \o v)[2] = b /\ (u \o v)[3] = c
    BY <2>1, <2>2
  <2>4. u \o v = t
    BY <2>1, <2>2, <2>3, SeqEqual
  <2> QED BY <2>4 DEF u, v, t
<1> QED BY <1>1, <1>2, <1>3

\* What a path begins with and ends in.
LEMMA PrefixHead ==
  ASSUME NEW S, NEW path \in Seq(S), NEW s \in Seq(S), Paths!IsPrefix(s, path)
  PROVE  Len(s) <= Len(path) /\ \A i \in 1..Len(s) : path[i] = s[i]
<1>1. Len(s) <= Len(path) /\ SubSeq(s, 1, Len(s)) = SubSeq(path, 1, Len(s))
  BY DEF Paths!IsPrefix
<1>2. ASSUME NEW i \in 1..Len(s) PROVE path[i] = s[i]
  BY <1>1
<1> QED BY <1>1, <1>2

LEMMA SuffixLast ==
  ASSUME NEW S, NEW path \in Seq(S), NEW s \in S, Paths!IsSuffix(<<s>>, path)
  PROVE  path # <<>> /\ path[Len(path)] = s
<1> DEFINE u == <<s>>
<1>1. u \in Seq(S) /\ Len(u) = 1 /\ u[1] = s
  BY Tuples
<1>2. Paths!IsPrefix(Paths!Reverse(u), Paths!Reverse(path))
  BY DEF Paths!IsSuffix
<1> HIDE DEF u
<1>3. Len(path) \in Nat /\ \A i \in 1..Len(path) : path[i] \in S
  OBVIOUS
<1>4. [i \in 1..Len(path) |-> path[(Len(path) - i) + 1]] \in Seq(S)
  BY <1>3
<1>4a. Paths!Reverse(path) \in Seq(S) /\ Len(Paths!Reverse(path)) = Len(path)
  BY <1>3, <1>4 DEF Paths!Reverse
<1>5. 1 <= Len(path) => Paths!Reverse(path)[1] = path[Len(path)]
  BY <1>3 DEF Paths!Reverse
<1>6. Paths!Reverse(u) \in Seq(S) /\ Len(Paths!Reverse(u)) = 1 /\ Paths!Reverse(u)[1] = s
  BY <1>1 DEF Paths!Reverse
<1>8. 1 <= Len(Paths!Reverse(path)) /\ Paths!Reverse(path)[1] = s
  BY <1>4a, <1>6, <1>2, PrefixHead
<1> QED BY <1>3, <1>4a, <1>5, <1>8

\* Routes whose path the two programs split in different places.
LEMMA OtherRoutes ==
  /\ SyncRoutes = {[method |-> "POST", path |-> <<"admin", "sync", "mongo-to-es">>]}
  /\ ToolRoutes = {[method |-> "POST", path |-> q] :
                       q \in {<<"api", "common", "upload">>, <<"api", "dev", "seed">>,
                              <<"api", "dev", "clean-notifications">>}}
  /\ ToolControllers = {[method |-> "POST", path |-> q] :
                            q \in {<<"api", "common", "upload">>, <<"api", "dev", "seed">>,
                                   <<"api", "dev", "clean-notifications">>,
                                   <<"admin", "sync", "mongo-to-es">>}}
<1>1. SyncRoutes = {[method |-> "POST", path |-> <<"admin", "sync", "mongo-to-es">>]}
  BY Joined DEF SyncRoutes, At
<1>2. ToolRoutes = {[method |-> "POST", path |-> q] :
                        q \in {<<"api", "common", "upload">>, <<"api", "dev", "seed">>,
                               <<"api", "dev", "clean-notifications">>}}
  BY Joined DEF ToolRoutes, At
<1>3. ToolControllers = {[method |-> "POST", path |-> q] :
                             q \in {<<"api", "common", "upload">>, <<"api", "dev", "seed">>,
                                    <<"api", "dev", "clean-notifications">>,
                                    <<"admin", "sync", "mongo-to-es">>}}
  BY Joined DEF ToolControllers, At
<1> QED BY <1>1, <1>2, <1>3

\* Whatever the gateway hands on, platform-java has a handler for.
LEMMA ForwardedHandled == Forwarded \subseteq Controllers
<1>1. AdminRoutes \subseteq AdminController
  BY ZenonT(60) DEF AdminRoutes, AdminController, At
<1>2. TagRoutes \subseteq TagController
  BY DEF TagRoutes, TagController, At
<1>3. PostProxies \subseteq PostController
  BY DEF PostProxies, PostController, At
<1>4. UserProxies \subseteq UserController
  BY DEF UserProxies, UserController, At
<1>5. Callers \subseteq PostController \cup UserController
  BY DEF Callers, UserController, PostController, At
<1>6. SyncRoutes \cup ToolRoutes \subseteq ToolControllers
  BY OtherRoutes
<1> QED BY <1>1, <1>2, <1>3, <1>4, <1>5, <1>6 DEF Forwarded, Controllers

\* The words forwarded paths are made of.
Segment ==
    {"admin", "api", "tag", "post", "user", "common", "dev", "sync", "upload",
     "clean-notifications", "seed", "ai-generate", "hot", "list", "id", "collects", "comments",
     "friends", "history", "likes", "posts", "ratings", "fans", "follows", "follow",
     "unfollow", "search", "auth", "login", "logout", "refresh", "reset-password", "send-code",
     "log", "audit", "ai", "audit-list", "profile", "password", "export", "audit-history",
     "info", "stats", "top-views", "mongo-to-es",
     "suggest", "comment", "sub-list"}

\* A path no pattern of open paths matches.
Clear(path) ==
  /\ path \in Seq(Segment)
  /\ \/ Len(path) >= 1 /\ path[1] = "admin"
     \/ Len(path) >= 2 /\ path[1] = "api" /\ path[2] \in {"common", "dev", "tag", "post"}
     \/ Len(path) >= 3 /\ path[1] = "api" /\ path[2] = "user" /\ path[Len(path)] # "profile"

\* Every table of routes under a clear prefix is clear.
LEMMA AtClear ==
  ASSUME NEW m, NEW b \in {"tag", "post", "user"}, NEW R \in SUBSET Seq(Segment),
         b = "user" => \A q \in R : q # <<>> /\ q[Len(q)] # "profile"
  PROVE  \A r \in At(m, <<"api", b>>, R) : Clear(r.path)
<1> DEFINE p == <<"api", b>>
<1>0. "api" \in Segment /\ b \in Segment
  BY DEF Segment
<1>1. p \in Seq(Segment) /\ Len(p) = 2 /\ p[1] = "api" /\ p[2] = b
  BY <1>0, Tuples
<1> HIDE DEF p
<1> SUFFICES ASSUME NEW r \in At(m, p, R) PROVE Clear(r.path)
  BY DEF p
<1>2. PICK q \in R : r = [method |-> m, path |-> p \o q]
  BY DEF At
<1>3. /\ p \o q \in Seq(Segment) /\ Len(p \o q) = 2 + Len(q)
      /\ \A i \in 1 .. 2 + Len(q) : (p \o q)[i] = IF i <= 2 THEN p[i] ELSE q[i - 2]
  <2>1. /\ p \o q \in Seq(Segment) /\ Len(p \o q) = Len(p) + Len(q)
        /\ \A i \in 1 .. Len(p) + Len(q) :
               (p \o q)[i] = IF i <= Len(p) THEN p[i] ELSE q[i - Len(p)]
    BY <1>1, ConcatProperties
  <2> QED BY <1>1, <2>1
<1>4. Len(q) \in Nat /\ (q # <<>> => Len(q) > 0)
  BY EmptySeq
<1>5. (p \o q)[1] = "api" /\ (p \o q)[2] = b
  BY <1>1, <1>3, <1>4
<1>6. ASSUME Len(q) > 0 PROVE (p \o q)[Len(p \o q)] = q[Len(q)]
  <2>1. (p \o q)[2 + Len(q)] = q[(2 + Len(q)) - 2]
    BY <1>3, <1>4, <1>6
  <2>2. (2 + Len(q)) - 2 = Len(q)
    BY <1>4
  <2> QED BY <1>3, <2>1, <2>2
<1> QED BY <1>2, <1>3, <1>4, <1>5, <1>6 DEF Clear

LEMMA AdminClear ==
  ASSUME NEW m, NEW R \in SUBSET Seq(Segment)
  PROVE  \A r \in At(m, <<"admin">>, R) : Clear(r.path)
<1> DEFINE p == <<"admin">>
<1>1. p \in Seq(Segment) /\ Len(p) = 1 /\ p[1] = "admin"
  BY Tuples DEF Segment
<1> HIDE DEF p
<1> SUFFICES ASSUME NEW r \in At(m, p, R) PROVE Clear(r.path)
  BY DEF p
<1>2. PICK q \in R : r = [method |-> m, path |-> p \o q]
  BY DEF At
<1>3. p \o q \in Seq(Segment) /\ Len(p \o q) = 1 + Len(q) /\ (p \o q)[1] = p[1]
  BY <1>1, ConcatProperties
<1> QED BY <1>1, <1>2, <1>3 DEF Clear

\* Rests of paths, written out.
LEMMA Rests ==
  /\ <<>> \in Seq(Segment)
  /\ \A a \in Segment : <<a>> \in Seq(Segment)
  /\ \A a, b \in Segment : <<a, b>> \in Seq(Segment)
  /\ \A a, b, c \in Segment : <<a, b, c>> \in Seq(Segment)
  /\ \A a, b, c, d \in Segment : <<a, b, c, d>> \in Seq(Segment)
<1>1. ASSUME NEW a \in Segment, NEW b \in Segment, NEW c \in Segment, NEW d \in Segment
      PROVE  <<a, b, c, d>> \in Seq(Segment)
  OBVIOUS
<1> QED BY <1>1, Tuples, EmptySeq

LEMMA LastWord ==
  \A a, b \in Segment : /\ <<a>> # <<>> /\ <<a>>[Len(<<a>>)] = a
                        /\ <<a, b>> # <<>> /\ <<a, b>>[Len(<<a, b>>)] = b
OBVIOUS

LEMMA UserClear == \A r \in UserProxies : Clear(r.path)
<1> DEFINE A == {"collects", "comments", "friends", "history", "likes", "posts", "ratings"}
           G == {<<a>> : a \in A} \cup {<<a, "id">> : a \in {"fans", "follows"}}
           P == {<<"follow">>, <<"unfollow">>}
<1>0. A \cup {"id", "fans", "follows", "follow", "unfollow", "api", "user"} \subseteq Segment
  BY DEF Segment
<1>0a. "profile" \notin A \cup {"id", "follow", "unfollow"}
  OBVIOUS
<1>0b. UserProxies = At("GET", <<"api", "user">>, G) \cup At("POST", <<"api", "user">>, P)
  BY DEF UserProxies
<1> HIDE DEF A
<1>1. G \in SUBSET Seq(Segment) /\ P \in SUBSET Seq(Segment)
  <2>1. \A q \in G : q \in Seq(Segment)
    BY ZenonT(60), <1>0, Rests
  <2>2. \A q \in P : q \in Seq(Segment)
    BY <1>0, Rests
  <2> QED BY <2>1, <2>2
<1>2. \A q \in G \cup P : q # <<>> /\ q[Len(q)] # "profile"
  BY <1>0, <1>0a, LastWord
<1> HIDE DEF G, P
<1> QED BY <1>0, <1>0b, <1>1, <1>2, AtClear

\* No forwarded path is one of the patterns, so one without a login is on the list.
LEMMA ForwardedClear == \A r \in Forwarded : Clear(r.path)
<1>1. \A r \in AdminRoutes : Clear(r.path)
  <2> DEFINE A == {"login", "logout", "refresh", "reset-password", "send-code"}
             G == {<<"auth", a>> : a \in A} \cup {<<"log", a>> : a \in {"admin", "user"}}
                  \cup {<<"post", "id", "audit">>, <<"post", "id", "audit", "ai">>,
                        <<"post", "audit-list">>, <<"profile", "password">>, <<"user", "id">>,
                        <<"user", "list">>}
             H == {<<"log", "export">>, <<"post", "id">>, <<"post", "id", "audit-history">>,
                   <<"profile", "info">>, <<"stats">>, <<"stats", "top-views">>, <<"user", "id">>}
             D == {<<"post", "id">>}
  <2>1. /\ A \subseteq Segment /\ "auth" \in Segment /\ "log" \in Segment /\ "admin" \in Segment
        /\ "user" \in Segment /\ "post" \in Segment /\ "id" \in Segment /\ "audit" \in Segment
        /\ "ai" \in Segment /\ "audit-list" \in Segment /\ "profile" \in Segment
        /\ "password" \in Segment /\ "list" \in Segment /\ "export" \in Segment
        /\ "audit-history" \in Segment /\ "info" \in Segment /\ "stats" \in Segment
        /\ "top-views" \in Segment
    BY DEF Segment
  <2>2. AdminRoutes = At("POST", <<"admin">>, G) \cup At("GET", <<"admin">>, H)
                      \cup At("DELETE", <<"admin">>, D)
    BY DEF AdminRoutes
  <2> HIDE DEF A
  <2>3. G \in SUBSET Seq(Segment) /\ H \in SUBSET Seq(Segment) /\ D \in SUBSET Seq(Segment)
    <3>1. \A q \in G : q \in Seq(Segment)
      <4>1. \A a \in A \cup {"admin", "user"} : <<"auth", a>> \in Seq(Segment) /\ <<"log", a>> \in Seq(Segment)
        BY <2>1, Rests
      <4>2. /\ <<"post", "id", "audit">> \in Seq(Segment)
            /\ <<"post", "id", "audit", "ai">> \in Seq(Segment)
            /\ <<"post", "audit-list">> \in Seq(Segment) /\ <<"profile", "password">> \in Seq(Segment)
            /\ <<"user", "id">> \in Seq(Segment) /\ <<"user", "list">> \in Seq(Segment)
        BY <2>1, Rests
      <4> QED BY <4>1, <4>2
    <3>2. \A q \in H : q \in Seq(Segment)
      <4>1. /\ <<"log", "export">> \in Seq(Segment) /\ <<"post", "id">> \in Seq(Segment)
            /\ <<"post", "id", "audit-history">> \in Seq(Segment)
            /\ <<"profile", "info">> \in Seq(Segment) /\ <<"stats">> \in Seq(Segment)
            /\ <<"stats", "top-views">> \in Seq(Segment) /\ <<"user", "id">> \in Seq(Segment)
        BY <2>1, Rests
      <4> QED BY <4>1
    <3>3. <<"post", "id">> \in Seq(Segment)
      BY <2>1, Rests
    <3> QED BY <3>1, <3>2, <3>3
  <2> HIDE DEF G, H, D
  <2> QED BY <2>2, <2>3, AdminClear
<1>2. \A r \in SyncRoutes \cup ToolRoutes : Clear(r.path)
  <2>1. {"admin", "api", "sync", "mongo-to-es", "common", "upload", "dev", "clean-notifications", "seed"} \subseteq Segment
    BY DEF Segment
  <2>2. ASSUME NEW b \in {"common", "dev"}, NEW c \in Segment
        PROVE  Clear(<<"api", b, c>>)
    BY <2>1, <2>2, Tuples DEF Clear
  <2>3. \A r \in SyncRoutes : r.path = <<"admin", "sync", "mongo-to-es">>
    BY OtherRoutes
  <2>4. \A r \in ToolRoutes : r.path \in {<<"api", "common", "upload">>, <<"api", "dev", "seed">>,
                                         <<"api", "dev", "clean-notifications">>}
    BY OtherRoutes
  <2>5. Clear(<<"admin", "sync", "mongo-to-es">>)
    BY <2>1, Tuples DEF Clear
  <2>6. Clear(<<"api", "common", "upload">>)
    BY <2>1, <2>2
  <2>7. Clear(<<"api", "dev", "seed">>)
    BY <2>1, <2>2
  <2>8. Clear(<<"api", "dev", "clean-notifications">>)
    BY <2>1, <2>2
  <2> QED BY <2>3, <2>4, <2>5, <2>6, <2>7, <2>8
<1>3. \A r \in TagRoutes \cup PostProxies : Clear(r.path)
  <2>1. {"api", "tag", "post", "ai-generate", "hot", "list", "user", "id"} \subseteq Segment
    BY DEF Segment
  <2>2. {<<"ai-generate">>, <<"hot">>, <<"list">>, <<"user", "id">>} \subseteq Seq(Segment)
    BY <2>1, Rests
  <2>3. ASSUME NEW m, NEW b \in {"tag", "post"}, NEW R \in SUBSET Seq(Segment)
        PROVE  \A r \in At(m, <<"api", b>>, R) : Clear(r.path)
    BY <2>1, AtClear
  <2>4. /\ {<<"ai-generate">>} \in SUBSET Seq(Segment) /\ {<<"hot">>} \in SUBSET Seq(Segment)
        /\ {<<"list">>, <<"user", "id">>} \in SUBSET Seq(Segment)
    BY <2>2
  <2>5. \A r \in TagRoutes : Clear(r.path)
    BY <2>3, <2>4 DEF TagRoutes
  <2>6. \A r \in PostProxies : Clear(r.path)
    BY <2>3, <2>4 DEF PostProxies
  <2> QED BY <2>5, <2>6
<1>4. \A r \in Callers : Clear(r.path)
  <2>1. {"api", "post", "user", "search", "id"} \subseteq Segment
    BY DEF Segment
  <2>2. {<<>>, <<"id">>, <<"search">>} \subseteq Seq(Segment)
    BY <2>1, Rests
  <2>3. <<"search">> # <<>> /\ <<"search">>[Len(<<"search">>)] # "profile"
    BY <2>1, LastWord
  <2>4. ASSUME NEW m, NEW q \in {<<>>, <<"id">>}
        PROVE  \A r \in At(m, <<"api", "post">>, {q}) : Clear(r.path)
    <3>1. {q} \in SUBSET Seq(Segment)
      BY <2>2
    <3> QED BY <3>1, AtClear
  <2>5. ASSUME NEW m
        PROVE  \A r \in At(m, <<"api", "user">>, {<<"search">>}) : Clear(r.path)
    <3> DEFINE R == {<<"search">>}
    <3>1. R \in SUBSET Seq(Segment) /\ \A q \in R : q # <<>> /\ q[Len(q)] # "profile"
      BY <2>2, <2>3
    <3> HIDE DEF R
    <3>2. \A r \in At(m, <<"api", "user">>, R) : Clear(r.path)
      BY <3>1, AtClear
    <3> QED BY <3>2 DEF R
  <2> QED BY <2>4, <2>5 DEF Callers
<1> QED BY <1>1, <1>2, <1>3, <1>4, UserClear DEF Forwarded

LEMMA ForwardedKept == \A r \in Forwarded : r.path \in PublicPaths \/ ~SkipsAuth(r.path)
<1> SUFFICES ASSUME NEW r \in Forwarded, NEW g \in Patterns, MatchPattern(r.path, g) PROVE FALSE
  BY DEF SkipsAuth
<1> DEFINE path == r.path
<1>1. Clear(path)
  BY ForwardedClear
<1>2. {"api", "auth", "user", "profile"} \subseteq Segment
  BY DEF Segment
<1>3. PICK b \in {"auth", "user"} : /\ g.before = <<"api", b>>
                                    /\ b = "user" => g.after = <<"profile">>
  BY DEF Patterns
<1> HIDE DEF path
<1>4. <<"api", b>> \in Seq(Segment) /\ Len(<<"api", b>>) = 2 /\ <<"api", b>>[1] = "api" /\ <<"api", b>>[2] = b
  BY <1>2, Tuples
<1>5. path[1] = "api" /\ path[2] = b
  <2>1. path \in Seq(Segment) /\ Paths!IsPrefix(<<"api", b>>, path)
    BY <1>1, <1>3 DEF MatchPattern, Clear, path
  <2>2. \A i \in 1..2 : path[i] = <<"api", b>>[i]
    BY <1>4, <2>1, PrefixHead
  <2> QED BY <1>4, <2>2
<1>6. ASSUME b = "user" PROVE path[Len(path)] = "profile"
  <2>1. path \in Seq(Segment) /\ Paths!IsSuffix(<<"profile">>, path) /\ "profile" \in Segment
    BY <1>1, <1>2, <1>3, <1>6 DEF MatchPattern, Clear, path
  <2> QED BY <2>1, SuffixLast
<1> QED BY <1>1, <1>5, <1>6 DEF Clear


\* The first two words of the open paths.
LEMMA PublicSecond ==
  \A path \in PublicPaths : /\ path \in Seq(Segment) /\ path[1] = "api"
                            /\ path[2] \in {"tag", "post", "comment"}
<1> SUFFICES ASSUME NEW path \in PublicPaths
             PROVE  /\ path \in Seq(Segment) /\ path[1] = "api"
                    /\ path[2] \in {"tag", "post", "comment"}
  OBVIOUS
<1>1. /\ "api" \in Segment /\ "tag" \in Segment /\ "hot" \in Segment /\ "post" \in Segment
      /\ "list" \in Segment /\ "search" \in Segment /\ "suggest" \in Segment
      /\ "comment" \in Segment /\ "sub-list" \in Segment
  BY DEF Segment
<1>2. CASE path = <<"api", "tag", "hot">>
  BY <1>1, <1>2, Tuples
<1>3. CASE \E a \in {"list", "sub-list"} : path = <<"api", "comment", a>>
  <2> PICK a \in {"list", "sub-list"} : path = <<"api", "comment", a>>
    BY <1>3
  <2> QED BY <1>1, Tuples
<1>4. CASE \E r \in {<<"list">>, <<"search">>, <<"search", "suggest">>} : path = <<"api", "post">> \o r
  <2> DEFINE p == <<"api", "post">>
  <2>1. PICK r \in {<<"list">>, <<"search">>, <<"search", "suggest">>} : path = p \o r
    BY <1>4
  <2>2. p \in Seq(Segment) /\ Len(p) = 2 /\ p[1] = "api" /\ p[2] = "post"
    BY <1>1, Tuples
  <2>3. r \in Seq(Segment)
    BY <1>1, Rests
  <2> HIDE DEF p
  <2>4. /\ p \o r \in Seq(Segment)
        /\ \A i \in 1 .. Len(p) + Len(r) :
               (p \o r)[i] = IF i <= Len(p) THEN p[i] ELSE r[i - Len(p)]
    BY <2>2, <2>3, ConcatProperties
  <2>5. Len(r) \in Nat
    BY <2>3
  <2>6. (p \o r)[1] = p[1] /\ (p \o r)[2] = p[2]
    BY <2>2, <2>4, <2>5
  <2> QED BY <2>1, <2>2, <2>4, <2>6
<1> QED BY <1>2, <1>3, <1>4 DEF PublicPaths

\* The gateway's list is platform-java's, and no path on it is an administrator's.
LEMMA PublicAtJava == \A path \in PublicPaths : /\ path \in JavaPublicPaths
                                                /\ ~Paths!IsPrefix(<<"admin">>, path)
<1>1. PublicPaths = JavaPublicPaths
  BY DEF PublicPaths, JavaPublicPaths
<1> SUFFICES ASSUME NEW path \in PublicPaths, Paths!IsPrefix(<<"admin">>, path) PROVE FALSE
  BY <1>1
<1>2. path \in Seq(Segment) /\ path[1] = "api"
  BY PublicSecond
<1> DEFINE s == <<"admin">>
<1>3. s \in Seq(Segment) /\ Len(s) = 1 /\ s[1] = "admin"
  BY Tuples DEF Segment
<1>4. Paths!IsPrefix(s, path)
  OBVIOUS
<1> HIDE DEF s
<1>5. \A i \in 1..Len(s) : path[i] = s[i]
  BY <1>2, <1>3, <1>4, PrefixHead
<1> QED BY <1>2, <1>3, <1>5

LEMMA LogoutNotForwarded == \A r \in Forwarded : r.path # LogoutPath
<1> DEFINE p == <<"api", "auth", "logout">>
<1>1. p[1] = "api" /\ p[2] = "auth"
  OBVIOUS
<1> QED BY <1>1, ForwardedClear DEF Clear, LogoutPath

\* What the two programs say of a route fits: platform-java has a handler for what it is
\* handed, asks nobody for a login on a route that the gateway leaves open, and none of
\* its routes is the logout.
LEMMA KindsFit ==
  \A k \in Kinds : k.forward => k.exists /\ ~k.logout /\ (k.open => ~k.asks /\ ~k.admin)
<1>1. ASSUME NEW r \in Routes
      PROVE  Kind(r).forward => /\ Kind(r).exists /\ ~Kind(r).logout
                                /\ Kind(r).open => ~Kind(r).asks /\ ~Kind(r).admin
  <2> SUFFICES ASSUME r \in Forwarded
               PROVE  /\ Kind(r).exists /\ ~Kind(r).logout
                      /\ Kind(r).open => ~Kind(r).asks /\ ~Kind(r).admin
    BY DEF Kind
  <2>1. r \in Controllers /\ r.path # LogoutPath
    BY ForwardedHandled, LogoutNotForwarded
  <2>2. SkipsAuth(r.path) => r.path \in JavaPublicPaths /\ ~Paths!IsPrefix(<<"admin">>, r.path)
    BY ForwardedKept, PublicAtJava
  <2> QED BY <2>1, <2>2 DEF Kind
<1> QED BY <1>1 DEF Kinds

\* A clear path under a prefix of two words has these words, and is not on the list of
\* open paths unless its second word is.
LEMMA ClearUnder ==
  ASSUME NEW path, Clear(path), NEW a \in {"admin", "api"}, NEW b \in {"auth", "common"},
         Paths!IsPrefix(<<a, b>>, path)
  PROVE  path[1] = a /\ path[2] = b /\ path \notin PublicPaths
<1> DEFINE s == <<a, b>>
<1>1. s \in Seq(Segment) /\ Len(s) = 2 /\ s[1] = a /\ s[2] = b
  BY Tuples DEF Segment
<1>2. Paths!IsPrefix(s, path) /\ path \in Seq(Segment)
  BY DEF Clear
<1> HIDE DEF s
<1>3. \A i \in 1..Len(s) : path[i] = s[i]
  <2>1. path \in Seq(Segment) /\ s \in Seq(Segment) /\ Paths!IsPrefix(s, path)
    BY <1>1, <1>2
  <2> QED BY ONLY <2>1, PrefixHead
<1>4. path[1] = a /\ path[2] = b
  BY <1>1, <1>3
<1>5. \A q \in PublicPaths : q[2] \in {"tag", "post", "comment"}
  BY PublicSecond
<1> QED BY <1>4, <1>5

\* The routes that platform-java would serve without a login and the gateway does not are
\* those under /admin/auth and /api/common.
LEMMA LockedRoutes ==
  ASSUME NEW r \in Forwarded
  PROVE  r \in Locked <=> \E e \in {<<"admin", "auth">>, <<"api", "common">>} :
                             Paths!IsPrefix(e, r.path)
<1>1. Clear(r.path) /\ r \in Controllers
  BY ForwardedClear, ForwardedHandled
<1>2. r \in Locked <=> ~SkipsAuth(r.path) /\ ~Kind(r).asks /\ ~Kind(r).admin
  <2>1. JavaAnswer(Kind(r), None, "USER") = "served" <=> ~Kind(r).asks /\ ~Kind(r).admin
    BY <1>1 DEF JavaAnswer, Kind
  <2> QED BY <2>1 DEF Locked
<1>3. ASSUME r \in Locked
      PROVE  \E e \in {<<"admin", "auth">>, <<"api", "common">>} : Paths!IsPrefix(e, r.path)
  <2>1. Excluded(r.path) \/ r.path \in JavaPublicPaths
    BY <1>2, <1>3 DEF Kind
  <2>2. r.path \notin JavaPublicPaths
    <3>1. r.path # Own
      <4> DEFINE p == <<"api", "user", "profile">>
      <4>1. Len(p) = 3 /\ p[1] = "api" /\ p[2] = "user" /\ p[3] = "profile"
        OBVIOUS
      <4> HIDE DEF p
      <4>2. ~Clear(p)
        BY <4>1 DEF Clear
      <4> QED BY <1>1, <4>2 DEF Own, p
    <3>2. PublicPaths = JavaPublicPaths
      BY DEF PublicPaths, JavaPublicPaths
    <3> QED BY <1>2, <1>3, <3>1, <3>2 DEF SkipsAuth
  <2>3. ~Paths!IsPrefix(<<"api", "auth">>, r.path)
    <3> SUFFICES ASSUME Paths!IsPrefix(<<"api", "auth">>, r.path) PROVE FALSE
      OBVIOUS
    <3>1. r.path[1] = "api" /\ r.path[2] = "auth"
      BY <1>1, ClearUnder
    <3> QED BY <1>1, <3>1 DEF Clear
  <2> QED BY <2>1, <2>2, <2>3 DEF Excluded
<1>4. ASSUME NEW e \in {<<"admin", "auth">>, <<"api", "common">>}, Paths!IsPrefix(e, r.path)
      PROVE  r \in Locked
  <2>1. r.path \notin PublicPaths
    <3>1. CASE e = <<"admin", "auth">>
      BY <1>1, <1>4, <3>1, ClearUnder
    <3>2. CASE e = <<"api", "common">>
      BY <1>1, <1>4, <3>2, ClearUnder
    <3> QED BY <3>1, <3>2
  <2>2. Excluded(r.path)
    BY <1>4 DEF Excluded
  <2> QED BY <1>2, <2>1, <2>2, ForwardedKept DEF Kind
<1> QED BY <1>3, <1>4

\* So a route serves whom the gateway takes the token's word for.
LEMMA RoutesFollowTokens == CurrentTokensWork /\ None \notin issued => RouteAnswers
<1> SUFFICES ASSUME CurrentTokensWork, None \notin issued, NEW k \in Kinds
             PROVE  /\ k.open => \A j \in issued \cup {None}, up \in BOOLEAN :
                                     Answer(k, j, "USER", up) = "served"
                    /\ (\A p \in Procs : Idle(p)) /\ version # None =>
                           \A j \in issued : verOf[j] = row.ver =>
                               Answer(k, j, IF k.admin THEN "ADMIN" ELSE "USER", TRUE) = "served"
  <2>1. ASSUME NEW r \in Forwarded, r \in Locked, NEW up \in BOOLEAN
        PROVE  Answer(Kind(r), None, "USER", up) = "log in"
    BY <2>1 DEF Locked, Kind, Answer, Admits
  <2> QED BY <2>1, LockedRoutes DEF RouteAnswers
<1>1. k.forward => k.exists /\ ~k.logout /\ (k.open => ~k.asks /\ ~k.admin)
  BY KindsFit
<1>2. ASSUME k.open, NEW j, NEW up \in BOOLEAN PROVE Answer(k, j, "USER", up) = "served"
  BY <1>1, <1>2 DEF Answer, JavaAnswer
<1>3. ASSUME \A p \in Procs : Idle(p), version # None, NEW j \in issued, verOf[j] = row.ver
      PROVE  Answer(k, j, IF k.admin THEN "ADMIN" ELSE "USER", TRUE) = "served"
  <2>1. Admits(j, TRUE)
    BY <1>3 DEF CurrentTokensWork, Admits
  <2>2. CASE k.forward
    <3>1. CASE k.open
      BY <1>1, <2>2, <3>1 DEF Answer, JavaAnswer
    <3>2. CASE ~k.open
      <4>1. UserOf(k, j, TRUE) = j /\ j # None
        BY <1>1, <2>1, <2>2, <3>2 DEF UserOf
      <4> QED BY <1>1, <2>1, <2>2, <3>2, <4>1 DEF Answer, JavaAnswer
    <3> QED BY <3>1, <3>2
  <2> QED BY <2>1, <2>2 DEF Answer
<1> QED BY <1>2, <1>3

\* Routes without a login serve everybody, and between requests every route serves the
\* holder of a current token, whatever pairs are out: no route is handed to a handler
\* that is missing, or asked for a login behind a door the gateway holds open.  The routes
\* under /admin/auth and /api/common, and no others, are doors the gateway keeps shut
\* though platform-java would ask for nothing.
THEOREM RoutesServe ==
  ASSUME Issuers \cup RowWriters \subseteq Exclusive
  PROVE  Spec => []RouteAnswers
<1>1. TypeInv => None \notin issued
  BY TokenAssumption DEF TypeInv, TypeOK
<1> QED BY <1>1, AlwaysSerial, CurrentTokensAccepted, RoutesFollowTokens, PTL

-----------------------------------------------------------------------------
(* Refresh tokens that were revoked or logged out.                            *)

\* A pair that was drawn is not drawn again, and block keys and one-time keys go
\* together.
LEMMA GoneStays ==
  ASSUME TypeInv, [Next]_vars, NEW j \in Drawn
  PROVE  /\ j \notin keys => j \notin keys'
         /\ Gone(j) => Gone(j)'
         /\ j \in Drawn' /\ verOf'[j] = verOf[j]
<1>1. CASE UNCHANGED <<keys, blocked, verOf>>
  BY <1>1 DEF Gone, Drawn
<1>2. ASSUME NEW p \in Procs, StoreKey(p) PROVE j \notin keys => j \notin keys'
  BY <1>2, StoreKeyActs
<1>3. ASSUME NEW p \in Procs, StoreKey(p)
      PROVE  blocked' = blocked /\ j \in Drawn' /\ verOf'[j] = verOf[j]
  BY <1>3, StoreKeyActs
<1>4. ASSUME NEW p \in Procs, DeleteOldKey(p) \/ BlockTokens(p) \/ DeleteKey(p)
      PROVE  keys' \subseteq keys /\ blocked \subseteq blocked' /\ verOf' = verOf
  BY <1>4 DEF DeleteOldKey, BlockTokens, DeleteKey
<1>5. ASSUME NEW p \in Procs, NEW o \in Ops, NEW i \in Jtis \cup {None}, Begin(p, o, i)
      PROVE  UNCHANGED <<keys, blocked, verOf>>
  BY <1>5, BeginActs
<1>6. ASSUME NEW p \in Procs, FindUser(p) \/ CheckBlocked(p) \/ CheckKey(p) \/ SetVersion(p)
                              \/ UpdateUser(p) \/ Fail(p)
      PROVE  UNCHANGED <<keys, blocked, verOf>>
  BY <1>6 DEF FindUser, CheckBlocked, CheckKey, SetVersion, UpdateUser, Fail, Refuse, redisVars
<1>7. CASE RedisRestarts
  BY <1>7 DEF RedisRestarts, Gone, Drawn
<1>8. CASE UNCHANGED vars
  BY <1>1, <1>8 DEF vars, redisVars
<1> QED BY <1>1, <1>2, <1>3, <1>4, <1>5, <1>6, <1>7, <1>8 DEF Next, Issue, Logout, Gone, Drawn

LEMMA TokenDrawn ==
  ASSUME TypeInv, NEW p \in Procs, op[p] \in Presenters
  PROVE  tok[p] \in Drawn
BY DEF TypeInv, HandlersOK, HandlerOK, PairsOK

\* What is known of the other handlers' tokens stays true.
LEMMA LateOthers ==
  ASSUME TypeInv, LateInv, [Next]_vars, NEW p \in Procs, Others(p), floor \in Nat, floor' \in Nat,
         floor <= floor', ignored \in Nat, ignored' \in Nat, ignored <= ignored', NEW q \in Procs \ {p}
  PROVE  LogoutOK(q)' /\ LateOK(q)'
<1>1. pc'[q] = pc[q] /\ op'[q] = op[q] /\ tok'[q] = tok[q] /\ late'[q] = late[q]
  BY DEF Others
<1>2. LogoutOK(q) /\ LateOK(q)
  BY DEF LateInv
<1>3. CASE op[q] \in Presenters
  <2> PICK t : t = tok[q]
    OBVIOUS
  <2>1. t \in Drawn /\ verOf[t] \in Nat
    BY <1>3, TokenDrawn, RowTypes
  <2>2. /\ t \notin keys => t \notin keys'
        /\ Gone(t) => Gone(t)'
        /\ verOf'[t] = verOf[t]
    BY <2>1, GoneStays
  <2>3. verOf[t] < floor => verOf'[t] < floor'
    BY <2>1, <2>2
  <2> QED BY <1>1, <1>2, <2>2, <2>3 DEF LogoutOK, LateOK
<1>4. CASE op[q] \notin Presenters
  BY <1>1, <1>4 DEF LogoutOK, LateOK, Presenters
<1> QED BY <1>3, <1>4

\* The counters never fall.
LEMMA Grows ==
  ASSUME TypeInv, TypeInv', [Next]_vars
  PROVE  /\ floor \in Nat /\ floor' \in Nat /\ floor <= floor'
         /\ ignored \in Nat /\ ignored' \in Nat /\ ignored <= ignored'
<1>1. floor \in Nat /\ floor' \in Nat /\ ignored \in Nat /\ ignored' \in Nat
  BY DEF TypeInv, TypeOK
<1>2. floor <= floor
  BY <1>1
<1>3. \A n \in Nat : n <= n /\ n <= n + 1
  OBVIOUS
<1>4. floor <= floor'
  <2>1. ASSUME NEW p \in Procs, SetVersion(p) PROVE floor <= floor'
    BY <1>1, <2>1, SetVersionActs
  <2>2. ASSUME NEW p \in Procs, NEW o \in Ops, NEW i \in Jtis \cup {None}, Begin(p, o, i)
        PROVE  floor' = floor
    BY <2>2, BeginActs
  <2>3. ASSUME NEW p \in Procs, FindUser(p) \/ CheckBlocked(p) \/ CheckKey(p) \/ StoreKey(p)
                                \/ DeleteOldKey(p) \/ Logout(p) \/ UpdateUser(p) \/ Fail(p)
        PROVE  floor' = floor
    BY <2>3 DEF FindUser, CheckBlocked, CheckKey, StoreKey, DeleteOldKey, Logout, BlockTokens, DeleteKey,
                UpdateUser, Fail, Refuse, historyVars
  <2>4. CASE RedisRestarts \/ UNCHANGED vars
    BY <1>2, <2>4 DEF RedisRestarts, vars, historyVars
  <2> QED BY <1>2, <2>1, <2>2, <2>3, <2>4 DEF Next, Issue
<1>5. ignored' \in {ignored, ignored + 1}
  <2>1. ASSUME NEW p \in Procs, NEW o \in Ops, NEW i \in Jtis \cup {None}, Begin(p, o, i)
        PROVE  ignored' = ignored
    BY <2>1, BeginActs
  <2>2. ASSUME NEW p \in Procs, Acts(p) PROVE ignored' \in {ignored, ignored + 1}
    BY <2>2 DEF Acts, Issue, FindUser, CheckBlocked, CheckKey, StoreKey, SetVersion, DeleteOldKey, Logout,
                BlockTokens, DeleteKey, UpdateUser, Fail, Refuse
  <2>3. CASE RedisRestarts \/ UNCHANGED vars
    BY <2>3 DEF RedisRestarts, vars
  <2> QED BY <2>1, <2>2, <2>3 DEF Next, Acts
<1> QED BY <1>1, <1>3, <1>4, <1>5

\* Tokens of answered logouts stay unusable; a step that logs none out has only its
\* own handler left to look at.
LEMMA LateKept ==
  ASSUME TypeInv, TypeInv', LateInv, [Next]_vars, NEW p \in Procs, Others(p),
         out' = out, LogoutOK(p)', LateOK(p)'
  PROVE  LateInv'
<1>1. \A j \in out : j \in Drawn' /\ Gone(j)'
  BY GoneStays DEF LateInv
<1>2. \A q \in Procs : LogoutOK(q)' /\ LateOK(q)'
  BY Grows, LateOthers
<1> QED BY <1>1, <1>2 DEF LateInv

LEMMA BeginLate ==
  ASSUME TypeInv, TypeInv', LateInv, NEW p \in Procs, NEW o \in Ops, NEW j \in Jtis \cup {None},
         Begin(p, o, j)
  PROVE  LateInv'
<1>1. /\ Others(p) /\ pc'[p] = FirstStep(o) /\ op'[p] = o /\ tok'[p] = j
      /\ late'[p] = (j # None /\ (verOf[j] < floor \/ j \in out))
      /\ UNCHANGED <<keys, blocked, verOf, floor, out>>
  BY BeginActs
<1>2. LogoutOK(p)'
  BY <1>1 DEF FirstStep, LogoutOK
<1>3. ASSUME o = "refresh", late'[p] PROVE verOf[j] < floor \/ Gone(j)
  BY <1>1, <1>3 DEF LateInv
<1>4. LateOK(p)'
  BY <1>1, <1>3 DEF FirstStep, LateOK, Gone
<1>5. [Next]_vars
  BY DEF Next
<1> QED BY <1>1, <1>2, <1>4, <1>5, LateKept

\* A refresh of a revoked or logged-out token gets no further than the check it fails.
LEMMA CheckLate ==
  ASSUME TypeInv, TypeInv', RowInv, LateInv, NEW p \in Procs, CheckBlocked(p) \/ CheckKey(p) \/ FindUser(p)
  PROVE  LateInv'
<1>1. /\ UNCHANGED <<op, tok, late, out, keys, blocked, verOf, floor>>
  BY DEF CheckBlocked, CheckKey, FindUser, redisVars, historyVars
<1>2. Others(p)
  BY StepActs DEF Acts, Issue
<1>3. [Next]_vars
  BY DEF Next, Issue
<1>4. LogoutOK(p) /\ LateOK(p)
  BY DEF LateInv
<1>5. CASE CheckBlocked(p)
  <2>1. pc[p] = "blocked" /\ pc'[p] = "find" /\ tok[p] \notin blocked /\ op[p] = "refresh"
    BY <1>5, GoToActs DEF CheckBlocked, TypeInv, HandlersOK, HandlerOK
  <2>2. LogoutOK(p)' /\ LateOK(p)'
    BY <1>1, <1>4, <2>1 DEF LogoutOK, LateOK, Gone
  <2> QED BY <1>1, <1>2, <1>3, <2>2, LateKept
<1>6. CASE CheckKey(p)
  <2>1. pc[p] = "exists" /\ pc'[p] = "setex" /\ tok[p] \in keys /\ op[p] = "refresh"
    BY <1>6, GoToActs DEF CheckKey, TypeInv, HandlersOK, HandlerOK
  <2>2. LogoutOK(p)' /\ LateOK(p)'
    BY <1>1, <1>4, <2>1 DEF LogoutOK, LateOK
  <2> QED BY <1>1, <1>2, <1>3, <2>2, LateKept
<1>7. CASE FindUser(p)
  <2>1. pc[p] = "find" /\ GoTo(p, IF op[p] = "login" THEN "setex"
                                  ELSE IF op[p] = "refresh" THEN "exists" ELSE "update")
        /\ (op[p] = "refresh" => row.ver = verOf[tok[p]])
    BY <1>7 DEF FindUser, Admitted
  <2>2. pc'[p] = IF op[p] = "login" THEN "setex" ELSE IF op[p] = "refresh" THEN "exists" ELSE "update"
    BY <2>1, GoToActs
  <2>3. floor <= row.ver /\ row.ver \in Nat /\ floor \in Nat
    BY RowTypes DEF RowInv
  <2>4. op[p] = "refresh" => ~(verOf[tok[p]] < floor)
    BY <2>1, <2>3
  <2>5. LogoutOK(p)'
    BY <1>1, <1>4, <2>1, <2>2 DEF LogoutOK, Gone
  <2>6. LateOK(p)'
    BY <1>1, <1>4, <2>1, <2>2, <2>4 DEF LateOK
  <2> QED BY <1>1, <1>2, <1>3, <2>5, <2>6, LateKept
<1> QED BY <1>5, <1>6, <1>7

\* Steps after which nothing is to be known of the handler's token.
LEMMA EndLate ==
  ASSUME TypeInv, TypeInv', LateInv, NEW p \in Procs, StoreKey(p) \/ DeleteOldKey(p) \/ Fail(p)
  PROVE  LateInv'
<1>1. Others(p) /\ out' = out /\ [Next]_vars
  BY StepActs DEF Acts, Issue, Next, StoreKey, DeleteOldKey, Fail, Refuse, historyVars
<1>2. CASE StoreKey(p)
  <2>1. pc[p] = "setex" /\ pc'[p] = "setver" /\ op' = op /\ late' = late /\ op[p] \in Issuers
    BY <1>2, StoreKeyActs DEF StoreKey, historyVars
  <2>2. ~(op[p] = "refresh" /\ late[p])
    BY <2>1 DEF LateInv, LateOK
  <2> QED BY <1>1, <2>1, <2>2, LateKept DEF LogoutOK, LateOK, Issuers
<1>3. CASE Reply(p)
  <2>1. pc'[p] = "idle" /\ op'[p] = None
    BY <1>3, ReplyActs
  <2>2. LogoutOK(p)' /\ LateOK(p)'
    BY <2>1 DEF LogoutOK, LateOK
  <2> QED BY <1>1, <2>2, LateKept
<1> QED BY <1>2, <1>3 DEF DeleteOldKey, Fail, Refuse

\* A logout is answered when its token is gone.
LEMMA AnswerLate ==
  ASSUME TypeInv, TypeInv', LateInv, NEW p \in Procs, Others(p), [Next]_vars, pc'[p] = "idle",
         NEW t, out' = out \/ (out' = out \cup {t} /\ t \in Drawn /\ Gone(t)')
  PROVE  LateInv'
<1>1. \A j \in out' : j \in Drawn' /\ Gone(j)'
  <2>1. t \in Drawn => t \in Drawn'
    BY GoneStays
  <2>2. \A j \in out : j \in Drawn' /\ Gone(j)'
    BY GoneStays DEF LateInv
  <2>3. CASE out' = out \cup {t} /\ t \in Drawn /\ Gone(t)'
    BY <2>1, <2>2, <2>3
  <2>4. CASE out' = out
    BY <2>2, <2>4
  <2> QED BY <2>3, <2>4
<1>2. LogoutOK(p)' /\ LateOK(p)'
  BY DEF LogoutOK, LateOK
<1>3. \A q \in Procs : LogoutOK(q)' /\ LateOK(q)'
  BY <1>2, Grows, LateOthers
<1> QED BY <1>1, <1>3 DEF LateInv

LEMMA SetVersionLate ==
  ASSUME TypeInv, TypeInv', LateInv, NEW p \in Procs, SetVersion(p)
  PROVE  LateInv'
<1>1. Others(p) /\ [Next]_vars /\ pc[p] = "setver" /\ UNCHANGED <<keys, blocked>>
  BY StepActs, SetVersionActs DEF Acts, Issue, Next
<1>2. LogoutOK(p) /\ LateOK(p)
  BY DEF LateInv
<1>3. CASE op[p] = "refresh" /\ pc'[p] = "delold" /\ op' = op /\ out' = out
  <2>1. late' = late \/ late'[p] = FALSE
    BY StepActs DEF Acts, Issue
  <2>2. LogoutOK(p)' /\ LateOK(p)'
    BY <1>1, <1>2, <1>3, <2>1 DEF LogoutOK, LateOK
  <2> QED BY <1>1, <1>3, <2>2, LateKept
<1>4. CASE pc'[p] = "idle" /\ out' = out
  BY <1>1, <1>4, AnswerLate
<1>5. CASE op[p] = "logout" /\ pc'[p] = "idle" /\ out' = out \cup {tok[p]}
  <2> PICK t : t = tok[p]
    OBVIOUS
  <2>1. t \in Drawn /\ Gone(t)
    BY <1>1, <1>2, <1>5, TokenDrawn DEF LogoutOK, Presenters
  <2>2. Gone(t)'
    BY <1>1, <2>1 DEF Gone
  <2> QED BY <1>1, <1>5, <2>1, <2>2, AnswerLate
<1> QED BY <1>3, <1>4, <1>5, SetVersionActs

LEMMA UpdateUserLate ==
  ASSUME TypeInv, TypeInv', LateInv, NEW p \in Procs, UpdateUser(p)
  PROVE  LateInv'
<1>1. Others(p) /\ [Next]_vars /\ pc[p] = "update" /\ op[p] \in RowWriters
      /\ UNCHANGED <<keys, blocked, out>>
  BY StepActs, UpdateUserActs DEF Acts, Next
<1>2. LogoutOK(p)
  BY DEF LateInv
<1>3. CASE pc'[p] = "setver" /\ op' = op /\ tok' = tok
  <2>1. op[p] # "refresh"
    BY <1>1 DEF RowWriters, Bumpers
  <2>2. LogoutOK(p)' /\ LateOK(p)'
    BY <1>1, <1>2, <1>3, <2>1 DEF LogoutOK, LateOK, Gone
  <2> QED BY <1>1, <2>2, LateKept
<1>4. CASE pc'[p] = "idle"
  BY <1>1, <1>4, AnswerLate
<1> QED BY <1>3, <1>4, UpdateUserActs

\* One of a logout's two commands may fail; not both, with one error to ignore.
LEMMA LogoutLate ==
  ASSUME MaxIgnored <= 1, TypeInv, TypeInv', LateInv, NEW p \in Procs, Logout(p)
  PROVE  LateInv'
<1>1. Others(p) /\ [Next]_vars
  BY StepActs DEF Acts, Next
<1>2. LogoutOK(p) /\ op[p] = "logout" /\ ignored \in Nat /\ MaxIgnored \in Nat
  BY TokenAssumption DEF LateInv, Logout, BlockTokens, DeleteKey, TypeInv, TypeOK, HandlersOK, HandlerOK
<1>3. PICK t : t = tok[p]
  OBVIOUS
<1>4. t \in Drawn
  BY <1>2, <1>3, TokenDrawn DEF Presenters
<1>5. CASE BlockTokens(p)
  <2>1. GoTo(p, "delkey") /\ op' = op /\ tok' = tok /\ out' = out
        /\ (blocked' = blocked \cup {t} \/ ignored' = ignored + 1)
    BY <1>3, <1>5 DEF BlockTokens, historyVars
  <2>2. pc'[p] = "delkey"
    BY <2>1, GoToActs
  <2>3. t \in blocked' \/ ignored' >= 1
    BY <1>2, <2>1
  <2>4. LogoutOK(p)' /\ LateOK(p)'
    BY <1>2, <1>3, <2>1, <2>2, <2>3 DEF LogoutOK, LateOK, Gone
  <2> QED BY <1>1, <2>1, <2>4, LateKept
<1>6. CASE DeleteKey(p)
  <2>1. /\ pc[p] = "delkey"
        /\ keys' = keys \ {t} \/ (ignored < MaxIgnored /\ keys' = keys)
        /\ blocked' = blocked
    BY <1>3, <1>6 DEF DeleteKey
  <2>2. Gone(t) \/ ignored >= 1
    BY <1>2, <1>3, <2>1 DEF LogoutOK
  <2>3. Gone(t)'
    BY <1>2, <2>1, <2>2 DEF Gone
  <2>4. CASE GoTo(p, "find") /\ op' = op /\ tok' = tok /\ out' = out
    <3>1. pc'[p] = "find"
      BY <2>4, GoToActs
    <3>2. LogoutOK(p)' /\ LateOK(p)'
      BY <1>2, <1>3, <2>3, <2>4, <3>1 DEF LogoutOK, LateOK, Gone
    <3> QED BY <1>1, <2>4, <3>2, LateKept
  <2>5. CASE Reply(p) /\ out' = out \cup {t}
    BY <1>1, <1>4, <2>3, <2>5, ReplyActs, AnswerLate
  <2> QED BY <1>3, <1>6, <2>4, <2>5 DEF DeleteKey
<1> QED BY <1>5, <1>6 DEF Logout

LEMMA NextLate ==
  ASSUME MaxIgnored <= 1, TypeInv, TypeInv', RowInv, LateInv, [Next]_vars
  PROVE  LateInv'
<1>1. ASSUME NEW p \in Procs, NEW o \in Ops, NEW j \in Jtis \cup {None}, Begin(p, o, j)
      PROVE  LateInv'
  BY <1>1, BeginLate
<1>2. ASSUME NEW p \in Procs, FindUser(p) \/ Issue(p) \/ Logout(p) \/ UpdateUser(p) \/ Fail(p)
      PROVE  LateInv'
  BY <1>2, CheckLate, EndLate, SetVersionLate, UpdateUserLate, LogoutLate DEF Issue
<1>3. CASE RedisRestarts
  <2>1. keys' = {} /\ UNCHANGED <<verOf, pc, op, tok, late, floor, out, ignored>>
    BY <1>3 DEF RedisRestarts, handlerVars, historyVars
  <2>2. \A j : Gone(j)'
    BY <2>1 DEF Gone
  <2> QED BY <2>1, <2>2 DEF LateInv, LogoutOK, LateOK, Gone, Drawn
<1>4. CASE UNCHANGED vars
  BY <1>4 DEF vars, redisVars, handlerVars, historyVars, LateInv, LogoutOK, LateOK, Gone, Drawn
<1> QED BY <1>1, <1>2, <1>3, <1>4 DEF Next

\* A refresh that begins after its token was revoked or logged out gets no new pair,
\* whatever overlaps with it, if the requests that write the row do not overlap with
\* each other and at most one Redis error is ignored: then the version in the row
\* never falls back, and a logged-out token has its block key or lost its other one.
THEOREM RevokedTokensNotRefreshed ==
  ASSUME RowWriters \subseteq Exclusive, MaxIgnored <= 1
  PROVE  Spec => []RevokedNeverRefreshes
<1>1. Init => LateInv
  <2> SUFFICES ASSUME Init PROVE LateInv
    OBVIOUS
  <2>1. None \notin {"logout", "refresh"}
    BY TokenAssumption DEF OpNames, Presenters
  <2> QED BY <2>1 DEF Init, LateInv, LogoutOK, LateOK
<1>2. TypeInv /\ TypeInv' /\ RowInv /\ LateInv /\ [Next]_vars => RowInv' /\ LateInv'
  BY NextRow, NextLate
<1>3. LateInv => RevokedNeverRefreshes
  BY DEF LateInv, LateOK, RevokedNeverRefreshes
<1> QED BY <1>1, <1>2, <1>3, InitRow, AlwaysTypeInv, PTL DEF Spec

=============================================================================
