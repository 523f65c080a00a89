--------------------------- MODULE AccountsProofs ---------------------------
(***************************************************************************)
(* What Accounts guarantees for every set of users, addresses, codes and   *)
(* handlers, whatever requests overlap and wherever commands fail.         *)
(***************************************************************************)
EXTENDS Accounts, TLAPS

-----------------------------------------------------------------------------
(* What a handler knows at each step. *)

Proven(p) ==
    /\ pc[p] \in {"owner", "insert", "find", "update", "tokens", "delcode"}
    /\ req[p].op # "delete"

PhaseOK(p) ==
    /\ pc[p] # "idle" => req[p] \in Request
    /\ pc[p] = "code" =>
         /\ req[p].code \in Codes
         /\ req[p].op \in {"verify", "register", "reset_password", "bind_email"}
    /\ pc[p] = "owner" => req[p].op \in {"register", "bind_email"}
    /\ pc[p] = "insert" => req[p].op = "register"
    /\ pc[p] \in {"find", "update"} => req[p].op \in {"reset_password", "bind_email", "delete"}
    /\ pc[p] \in {"code", "owner", "find"} /\ req[p].op \in {"bind_email", "delete"} =>
         req[p].user \in Users /\ rows[req[p].user] # None
    /\ pc[p] = "update" => req[p].user \in Users /\ read[p] \in Row
    /\ pc[p] = "delcode" => req[p].op # "delete"
    /\ pc[p] = "store" => <<Purpose(req[p]), drawn[p]>> \in mailed
    /\ Proven(p) => <<Purpose(req[p]), req[p].code>> \in mailed

Phases == \A p \in Procs : PhaseOK(p)

\* Every code that is stored was mailed for its key.
CodesMailed == \A k \in Keys : code[k] # None => <<k, code[k]>> \in mailed

TypeInv == TypeOK /\ Phases /\ CodesMailed

\* The limit key admits one send at a time for its key, and the code that one
\* stores is the last that was mailed.
OneSender ==
    /\ \A p \in Procs : \A k \in Keys : Sending(p, k) => k \in limit
    /\ \A p, q \in Procs : \A k \in Keys : Sending(p, k) /\ Sending(q, k) => p = q
    /\ \A p \in Procs : pc[p] = "store" => drawn[p] = latest[Purpose(req[p])]

StoreDue(k) == \E p \in Procs : pc[p] = "store" /\ Purpose(req[p]) = k

LatestInv ==
    /\ OneSender
    /\ \A k \in Keys : code[k] = None \/ code[k] = latest[k] \/ k \in unstored \/ StoreDue(k)
-----------------------------------------------------------------------------
LEMMA InitTypeInv == Init => TypeInv
BY AccountAssumption
   DEF Init, TypeInv, TypeOK, Phases, PhaseOK, CodesMailed, Proven, Keys, Row, Steps

\* A row never vanishes.
LEMMA RowsStay ==
  ASSUME TypeOK, NEW u \in Users, NEW row \in Row, rows' = [rows EXCEPT ![u] = row]
  PROVE  /\ rows' \in [Users -> Row \cup {None}]
         /\ \A v \in Users : rows[v] # None => rows'[v] # None
BY AccountAssumption DEF TypeOK

LEMMA RequestFields ==
  ASSUME NEW r \in Request
  PROVE  /\ Purpose(r) \in Keys /\ KeyOf(r) = Purpose(r)
         /\ r.op \in {"send", "verify", "register", "reset_password", "bind_email", "delete"}
         /\ r.email \in Emails
         /\ r.code \in Codes \cup {None}
         /\ \A u \in Users : LET s == [r EXCEPT !.user = u] IN
              /\ s \in Request /\ s.user = u
              /\ s.op = r.op /\ s.code = r.code /\ Purpose(s) = Purpose(r)
BY DEF Request, KeyOf, Purpose, Keys

LEMMA BeginTypeInv ==
  ASSUME TypeInv, NEW p \in Procs, NEW r \in Requests, Begin(p, r)
  PROVE  TypeInv'
<1>1. r \in Request
  BY AccountAssumption
<1>2. r.user \in Users \cup {None} /\ r.code \in Codes \cup {None}
      /\ r.op \in {"send", "verify", "register", "reset_password", "bind_email", "delete"}
  BY <1>1 DEF Request
<1>3. TypeOK'
  BY <1>1, <1>2 DEF TypeInv, TypeOK, Begin, GoTo, FirstStep, Steps, redisVars, historyVars
<1>4. Phases'
  <2> SUFFICES ASSUME NEW q \in Procs PROVE PhaseOK(q)'
    BY DEF Phases
  <2>1. CASE q = p
    BY <1>1, <1>2, <2>1 DEF TypeInv, TypeOK, Begin, GoTo, FirstStep, PhaseOK, Proven, historyVars
  <2>2. CASE q # p
    BY <2>2 DEF TypeInv, TypeOK, Begin, GoTo, Phases, PhaseOK, Proven, historyVars
  <2> QED BY <2>1, <2>2
<1>5. CodesMailed'
  BY DEF TypeInv, CodesMailed, Begin, redisVars, historyVars
<1> QED
  BY <1>3, <1>4, <1>5 DEF TypeInv

\* An answer leaves the types of a handler's variables, and what the others know
\* as long as nothing they have seen is taken back.
LEMMA ReplyTypes ==
  ASSUME TypeOK, NEW p \in Procs, Reply(p)
  PROVE  /\ pc' \in [Procs -> Steps]
         /\ req' \in [Procs -> Request \cup {None}]
         /\ read' \in [Procs -> Row \cup {None}]
         /\ drawn' \in [Procs -> Codes \cup {None}]
         /\ late' \in [Procs -> BOOLEAN]
         /\ pc'[p] = "idle"
         /\ \A q \in Procs \ {p} :
              /\ pc'[q] = pc[q] /\ req'[q] = req[q] /\ read'[q] = read[q]
              /\ drawn'[q] = drawn[q] /\ late'[q] = late[q]
BY DEF TypeOK, Reply, GoTo, Steps

\* What a handler knows is kept by the steps of the others.
LEMMA OthersKeep ==
  ASSUME NEW q \in Procs, PhaseOK(q),
         pc'[q] = pc[q], req'[q] = req[q], read'[q] = read[q], drawn'[q] = drawn[q],
         mailed \subseteq mailed',
         \A u \in Users : rows[u] # None => rows'[u] # None
  PROVE  PhaseOK(q)'
BY DEF PhaseOK, Proven

LEMMA ReplyPhases ==
  ASSUME TypeOK, Phases, NEW p \in Procs, Reply(p), mailed \subseteq mailed',
         \A u \in Users : rows[u] # None => rows'[u] # None
  PROVE  Phases'
<1> SUFFICES ASSUME NEW q \in Procs PROVE PhaseOK(q)'
  BY DEF Phases
<1>1. CASE q = p
  BY <1>1, ReplyTypes DEF PhaseOK, Proven
<1>2. CASE q # p
  BY <1>2, ReplyTypes, OthersKeep DEF Phases
<1> QED BY <1>1, <1>2

\* A refusal keeps everything.
LEMMA RefuseTypeInv ==
  ASSUME TypeInv, NEW p \in Procs, Refuse(p)
  PROVE  TypeInv'
<1>1. TypeOK'
  BY ReplyTypes DEF TypeInv, TypeOK, Refuse, redisVars, historyVars
<1>2. Phases'
  BY ReplyPhases DEF TypeInv, Refuse, historyVars
<1>3. CodesMailed'
  BY DEF TypeInv, CodesMailed, Refuse, redisVars, historyVars
<1> QED
  BY <1>1, <1>2, <1>3 DEF TypeInv

\* A handler goes on with the same request; what it knows is shown at each step.
LEMMA StepPhases ==
  ASSUME Phases, NEW p \in Procs, PhaseOK(p)',
         \A q \in Procs \ {p} :
           /\ pc'[q] = pc[q] /\ req'[q] = req[q] /\ read'[q] = read[q] /\ drawn'[q] = drawn[q],
         mailed \subseteq mailed',
         \A u \in Users : rows[u] # None => rows'[u] # None
  PROVE  Phases'
<1> SUFFICES ASSUME NEW q \in Procs PROVE PhaseOK(q)'
  BY DEF Phases
<1>1. CASE q = p
  BY <1>1
<1>2. CASE q # p
  BY <1>2, OthersKeep DEF Phases
<1> QED BY <1>1, <1>2

LEMMA TakeLimitTypeInv ==
  ASSUME TypeInv, NEW p \in Procs, TakeLimit(p)
  PROVE  TypeInv'
<1>1. CASE Refuse(p)
  BY <1>1, RefuseTypeInv
<1>2. CASE ~Refuse(p)
  <2>1. pc[p] = "limit" /\ req[p] \in Request
    BY DEF TakeLimit, TypeInv, Phases, PhaseOK
  <2>2. /\ limit' = limit \cup {KeyOf(req[p])} /\ GoTo(p, "mail")
        /\ UNCHANGED <<rows, code, req, read, drawn, late, historyVars, faults>>
    BY <1>2 DEF TakeLimit
  <2>3. TypeOK'
    BY <2>1, <2>2, RequestFields DEF TypeInv, TypeOK, GoTo, Steps, historyVars
  <2>4. PhaseOK(p)'
    BY <2>1, <2>2 DEF TypeInv, TypeOK, GoTo, PhaseOK, Proven, historyVars
  <2>5. Phases'
    BY <2>2, <2>4, StepPhases DEF TypeInv, TypeOK, GoTo, historyVars
  <2>6. CodesMailed'
    BY <2>2 DEF TypeInv, CodesMailed, historyVars
  <2> QED BY <2>3, <2>5, <2>6 DEF TypeInv
<1> QED BY <1>1, <1>2

LEMMA SendMailTypeInv ==
  ASSUME TypeInv, NEW p \in Procs, SendMail(p)
  PROVE  TypeInv'
<1>1. pc[p] = "mail" /\ req[p] \in Request
  BY DEF SendMail, TypeInv, Phases, PhaseOK
<1> DEFINE K == Purpose(req[p])
<1>2. K \in Keys
  BY <1>1, RequestFields
<1>3. PICK c \in Fresh :
        \/ /\ mailed' = mailed \cup {<<K, c>>} /\ latest' = [latest EXCEPT ![K] = c]
           /\ drawn' = [drawn EXCEPT ![p] = c] /\ GoTo(p, "store")
           /\ UNCHANGED <<unstored, faults>>
        \/ /\ faults' = faults + 1
           /\ \/ /\ mailed' = mailed \cup {<<K, c>>} /\ latest' = [latest EXCEPT ![K] = c]
                 /\ unstored' = unstored \cup {K}
              \/ UNCHANGED <<mailed, latest, unstored>>
           /\ GoTo(p, "unlimit") /\ UNCHANGED drawn
  BY DEF SendMail
<1>4. UNCHANGED <<rows, code, limit, req, read, spent, grants, late>>
  BY DEF SendMail, redisVars
<1>5. c \in Codes
  BY DEF Fresh
<1>6. TypeOK'
  BY <1>2, <1>3, <1>4, <1>5 DEF TypeInv, TypeOK, GoTo, Steps
<1>7. mailed \subseteq mailed'
  BY <1>3
<1>8. PhaseOK(p)'
  BY <1>1, <1>3, <1>4 DEF TypeInv, TypeOK, GoTo, PhaseOK, Proven
<1>9. Phases'
  BY <1>3, <1>4, <1>7, <1>8, StepPhases DEF TypeInv, TypeOK, GoTo
<1>10. CodesMailed'
  BY <1>4, <1>7 DEF TypeInv, CodesMailed
<1> QED BY <1>6, <1>9, <1>10 DEF TypeInv

LEMMA GiveLimitBackTypeInv ==
  ASSUME TypeInv, NEW p \in Procs, GiveLimitBack(p)
  PROVE  TypeInv'
<1>1. TypeOK'
  BY ReplyTypes DEF TypeInv, TypeOK, GiveLimitBack, historyVars
<1>2. Phases'
  BY ReplyPhases DEF TypeInv, GiveLimitBack, historyVars
<1>3. CodesMailed'
  BY DEF TypeInv, CodesMailed, GiveLimitBack, historyVars
<1> QED BY <1>1, <1>2, <1>3 DEF TypeInv

LEMMA StoreCodeTypeInv ==
  ASSUME TypeInv, NEW p \in Procs, StoreCode(p)
  PROVE  TypeInv'
<1>1. req[p] \in Request /\ <<Purpose(req[p]), drawn[p]>> \in mailed
  BY DEF StoreCode, TypeInv, Phases, PhaseOK
<1>2. KeyOf(req[p]) = Purpose(req[p]) /\ drawn[p] \in Codes
  BY <1>1, RequestFields DEF TypeInv, TypeOK
<1>3. TypeOK'
  BY <1>2, ReplyTypes DEF TypeInv, TypeOK, StoreCode, historyVars
<1>4. Phases'
  BY ReplyPhases DEF TypeInv, StoreCode, historyVars
<1>5. CodesMailed'
  BY <1>1, <1>2 DEF TypeInv, TypeOK, CodesMailed, StoreCode, historyVars
<1> QED BY <1>3, <1>4, <1>5 DEF TypeInv

LEMMA ExpireTypeInv ==
  ASSUME TypeInv, NEW k \in Keys, ExpireLimit(k) \/ ExpireCode(k)
  PROVE  TypeInv'
<1>1. /\ UNCHANGED <<rows, handlerVars, historyVars, late, faults>>
      /\ limit' \subseteq limit
      /\ code' = code \/ code' = [code EXCEPT ![k] = None]
  BY DEF ExpireLimit, ExpireCode
<1>2. TypeOK'
  BY <1>1 DEF TypeInv, TypeOK, handlerVars, historyVars
<1>3. Phases'
  BY <1>1 DEF TypeInv, Phases, PhaseOK, Proven, handlerVars, historyVars
<1>4. CodesMailed'
  BY <1>1 DEF TypeInv, TypeOK, CodesMailed, historyVars
<1> QED BY <1>2, <1>3, <1>4 DEF TypeInv

LEMMA FaultTypeInv ==
  ASSUME TypeInv, NEW p \in Procs, Fault(p)
  PROVE  TypeInv'
<1>1. req[p] \in Request
  BY DEF Fault, TypeInv, Phases, PhaseOK
<1>2. Purpose(req[p]) \in Keys
  BY <1>1, RequestFields
<1>3. TypeOK'
  BY <1>2, ReplyTypes DEF TypeInv, TypeOK, Fault, redisVars
<1>4. Phases'
  BY ReplyPhases DEF TypeInv, Fault
<1>5. CodesMailed'
  BY DEF TypeInv, CodesMailed, Fault, redisVars
<1> QED BY <1>3, <1>4, <1>5 DEF TypeInv

\* The facts common to the steps that present a code: only p moves, nothing is
\* mailed or stored.
LEMMA PresentTypeInv ==
  ASSUME TypeInv, NEW p \in Procs, NEW step \in Steps \ {"store"}, GoTo(p, step),
         PhaseOK(p)',
         rows' \in [Users -> Row \cup {None}],
         \A u \in Users : rows[u] # None => rows'[u] # None,
         req' \in [Procs -> Request \cup {None}],
         \A q \in Procs \ {p} : req'[q] = req[q] /\ read'[q] = read[q],
         read' \in [Procs -> Row \cup {None}],
         grants' \subseteq Keys \X Codes,
         UNCHANGED <<redisVars, drawn, late, mailed, latest, unstored, spent, faults>>
  PROVE  TypeInv'
<1>1. TypeOK'
  BY DEF TypeInv, TypeOK, GoTo, redisVars
<1>2. Phases'
  BY StepPhases DEF TypeInv, TypeOK, GoTo
<1>3. CodesMailed'
  BY DEF TypeInv, CodesMailed, redisVars
<1> QED BY <1>1, <1>2, <1>3 DEF TypeInv

LEMMA CheckCodeTypeInv ==
  ASSUME TypeInv, NEW p \in Procs, CheckCode(p)
  PROVE  TypeInv'
<1>1. CASE Refuse(p)
  BY <1>1, RefuseTypeInv
<1>2. CASE ~Refuse(p)
  <2>1. /\ pc[p] = "code" /\ req[p].op # "verify" /\ code[KeyOf(req[p])] = req[p].code
        /\ GoTo(p, AfterCode(req[p].op))
        /\ UNCHANGED <<rows, redisVars, req, read, drawn, late, historyVars, faults>>
    BY <1>2 DEF CheckCode
  <2>2. /\ req[p] \in Request /\ req[p].code \in Codes
        /\ req[p].op \in {"register", "reset_password", "bind_email"}
    BY <2>1 DEF TypeInv, Phases, PhaseOK
  <2>3. <<Purpose(req[p]), req[p].code>> \in mailed
    BY <2>1, <2>2, RequestFields, AccountAssumption DEF TypeInv, CodesMailed
  <2>4. AfterCode(req[p].op) \in Steps \ {"store"}
    BY DEF AfterCode, Steps
  <2>5. PhaseOK(p)'
    BY <2>1, <2>2, <2>3
       DEF TypeInv, TypeOK, Phases, PhaseOK, Proven, GoTo, AfterCode, historyVars
  <2> QED
    BY <2>1, <2>4, <2>5, PresentTypeInv DEF TypeInv, TypeOK, historyVars
<1> QED BY <1>1, <1>2

LEMMA CheckOwnerTypeInv ==
  ASSUME TypeInv, NEW p \in Procs, CheckOwner(p)
  PROVE  TypeInv'
<1>1. CASE Refuse(p)
  BY <1>1, RefuseTypeInv
<1>2. CASE ~Refuse(p)
  <2> DEFINE step == IF req[p].op = "register" THEN "insert" ELSE "find"
  <2>1. /\ pc[p] = "owner" /\ GoTo(p, step)
        /\ UNCHANGED <<rows, redisVars, req, read, drawn, late, historyVars, faults>>
    BY <1>2 DEF CheckOwner
  <2>2. step \in Steps \ {"store"}
    BY DEF Steps
  <2>3. PhaseOK(p)'
    BY <2>1 DEF TypeInv, TypeOK, Phases, PhaseOK, Proven, GoTo, historyVars
  <2> QED
    BY <2>1, <2>2, <2>3, PresentTypeInv DEF TypeInv, TypeOK, historyVars
<1> QED BY <1>1, <1>2

LEMMA InsertTypeInv ==
  ASSUME TypeInv, NEW p \in Procs, Insert(p)
  PROVE  TypeInv'
<1>1. CASE Refuse(p)
  BY <1>1, RefuseTypeInv
<1>2. CASE ~Refuse(p)
  <2>1. pc[p] = "insert" /\ req[p] \in Request
    BY DEF Insert, TypeInv, Phases, PhaseOK
  <2>2. PICK u \in Users :
          /\ rows' = [rows EXCEPT ![u] = [email |-> req[p].email,
                        password |-> req[p].code, deleted |-> FALSE]]
          /\ grants' = grants \cup {<<Purpose(req[p]), req[p].code>>}
          /\ req' = [req EXCEPT ![p].user = u]
          /\ GoTo(p, "tokens")
          /\ UNCHANGED <<redisVars, read, drawn, mailed, latest, unstored, spent, late, faults>>
    BY <1>2 DEF Insert
  <2>3. [email |-> req[p].email, password |-> req[p].code, deleted |-> FALSE] \in Row
    BY <2>1, RequestFields DEF Row
  <2>4. req' = [req EXCEPT ![p] = [req[p] EXCEPT !.user = u]]
    BY <2>2
  <2>5. /\ req' \in [Procs -> Request \cup {None}]
        /\ \A q \in Procs \ {p} : req'[q] = req[q]
        /\ req'[p] \in Request /\ req'[p].op = req[p].op /\ req'[p].code = req[p].code
        /\ Purpose(req'[p]) = Purpose(req[p])
    BY <2>1, <2>4, RequestFields DEF TypeInv, TypeOK
  <2>6. <<Purpose(req[p]), req[p].code>> \in mailed
    BY <2>1 DEF TypeInv, Phases, PhaseOK, Proven
  <2>7. pc'[p] = "tokens" /\ mailed' = mailed
    BY <2>2 DEF TypeInv, TypeOK, GoTo
  <2>8. PhaseOK(p)'
    BY <2>5, <2>6, <2>7 DEF PhaseOK, Proven
  <2>9. /\ rows' \in [Users -> Row \cup {None}]
        /\ \A v \in Users : rows[v] # None => rows'[v] # None
    BY <2>2, <2>3, RowsStay DEF TypeInv
  <2>10. "tokens" \in Steps \ {"store"}
    BY DEF Steps
  <2>11. grants' \subseteq Keys \X Codes
    BY <2>2, <2>6 DEF TypeInv, TypeOK
  <2> QED
    BY <2>2, <2>5, <2>8, <2>9, <2>10, <2>11, PresentTypeInv DEF TypeInv, TypeOK
<1> QED BY <1>1, <1>2

LEMMA FindUserTypeInv ==
  ASSUME TypeInv, NEW p \in Procs, FindUser(p)
  PROVE  TypeInv'
<1>1. CASE Refuse(p)
  BY <1>1, RefuseTypeInv
<1>2. CASE ~Refuse(p)
  <2>1. pc[p] = "find" /\ req[p] \in Request
    BY DEF FindUser, TypeInv, Phases, PhaseOK
  <2> DEFINE found == IF req[p].op = "reset_password"
                      THEN {u \in Users : HasEmail(u, req[p].email)}
                      ELSE {req[p].user}
  <2>2. PICK u \in found :
          /\ read' = [read EXCEPT ![p] = rows[u]]
          /\ req' = [req EXCEPT ![p].user = u]
          /\ GoTo(p, "update")
          /\ UNCHANGED <<rows, redisVars, drawn, late, historyVars, faults>>
    BY <1>2 DEF FindUser
  <2>3. u \in Users /\ rows[u] # None
    BY <2>1, <2>2 DEF TypeInv, Phases, PhaseOK, HasEmail
  <2>4. rows[u] \in Row
    BY <2>3 DEF TypeInv, TypeOK
  <2>5. req' = [req EXCEPT ![p] = [req[p] EXCEPT !.user = u]]
    BY <2>2
  <2>6. /\ req' \in [Procs -> Request \cup {None}]
        /\ \A q \in Procs \ {p} : req'[q] = req[q]
        /\ req'[p] \in Request /\ req'[p].user = u
        /\ req'[p].op = req[p].op /\ req'[p].code = req[p].code
        /\ Purpose(req'[p]) = Purpose(req[p])
    BY <2>1, <2>3, <2>5, RequestFields DEF TypeInv, TypeOK
  <2>7. /\ read' \in [Procs -> Row \cup {None}] /\ read'[p] \in Row
        /\ \A q \in Procs \ {p} : read'[q] = read[q]
    BY <2>2, <2>4 DEF TypeInv, TypeOK
  <2>8. /\ req[p].op # "delete" => <<Purpose(req[p]), req[p].code>> \in mailed
         /\ req[p].op \in {"reset_password", "bind_email", "delete"}
    BY <2>1 DEF TypeInv, Phases, PhaseOK, Proven
  <2>9. pc'[p] = "update" /\ mailed' = mailed
    BY <2>2 DEF TypeInv, TypeOK, GoTo, historyVars
  <2>10. PhaseOK(p)'
    BY <2>3, <2>6, <2>7, <2>8, <2>9 DEF PhaseOK, Proven
  <2>11. "update" \in Steps \ {"store"}
    BY DEF Steps
  <2> QED
    BY <2>2, <2>6, <2>7, <2>10, <2>11, PresentTypeInv DEF TypeInv, TypeOK, historyVars
<1> QED BY <1>1, <1>2

LEMMA UpdateUserTypeInv ==
  ASSUME TypeInv, NEW p \in Procs, UpdateUser(p)
  PROVE  TypeInv'
<1>1. CASE Refuse(p)
  BY <1>1, RefuseTypeInv
<1>2. CASE ~Refuse(p)
  <2>1. /\ pc[p] = "update" /\ req[p] \in Request
        /\ req[p].user \in Users /\ read[p] \in Row
        /\ req[p].op \in {"reset_password", "bind_email", "delete"}
        /\ req[p].op # "delete" => <<Purpose(req[p]), req[p].code>> \in mailed
    BY DEF UpdateUser, TypeInv, Phases, PhaseOK, Proven
  <2> DEFINE u == req[p].user
  <2>2. /\ rows' = [rows EXCEPT ![u] = NewRow(p)]
        /\ grants' = IF req[p].op = "delete" THEN grants
                     ELSE grants \cup {<<Purpose(req[p]), req[p].code>>}
        /\ GoTo(p, AfterUpdate(req[p].op))
        /\ UNCHANGED <<redisVars, req, read, drawn, mailed, latest, unstored, spent, late, faults>>
    BY <1>2 DEF UpdateUser
  <2>3. NewRow(p) \in Row
    BY <2>1, RequestFields DEF NewRow, Row
  <2>4. /\ rows' \in [Users -> Row \cup {None}]
        /\ \A v \in Users : rows[v] # None => rows'[v] # None
    BY <2>1, <2>2, <2>3, RowsStay DEF TypeInv
  <2>5. AfterUpdate(req[p].op) \in Steps \ {"store"}
    BY DEF AfterUpdate, Steps
  <2>6. PhaseOK(p)'
    BY <2>1, <2>2 DEF TypeInv, TypeOK, Phases, PhaseOK, Proven, GoTo, AfterUpdate
  <2>7. grants' \subseteq Keys \X Codes
    BY <2>1, <2>2 DEF TypeInv, TypeOK
  <2> QED
    BY <2>2, <2>4, <2>5, <2>6, <2>7, PresentTypeInv DEF TypeInv, TypeOK
<1> QED BY <1>1, <1>2

LEMMA WriteTokensTypeInv ==
  ASSUME TypeInv, NEW p \in Procs, WriteTokens(p)
  PROVE  TypeInv'
<1>1. CASE Refuse(p)
  BY <1>1, RefuseTypeInv
<1>2. CASE ~Refuse(p)
  <2>1. /\ pc[p] = "tokens" /\ req[p].op # "delete" /\ GoTo(p, "delcode")
        /\ UNCHANGED <<rows, redisVars, req, read, drawn, late, historyVars, faults>>
    BY <1>2 DEF WriteTokens
  <2>2. "delcode" \in Steps \ {"store"}
    BY DEF Steps
  <2>3. PhaseOK(p)'
    BY <2>1 DEF TypeInv, TypeOK, Phases, PhaseOK, Proven, GoTo, historyVars
  <2> QED
    BY <2>1, <2>2, <2>3, PresentTypeInv DEF TypeInv, TypeOK, historyVars
<1> QED BY <1>1, <1>2

LEMMA DeleteCodeTypeInv ==
  ASSUME TypeInv, NEW p \in Procs, DeleteCode(p)
  PROVE  TypeInv'
<1>1. <<Purpose(req[p]), req[p].code>> \in mailed
  BY DEF DeleteCode, TypeInv, Phases, PhaseOK, Proven
<1>2. /\ Reply(p)
      /\ UNCHANGED <<rows, limit, mailed, latest, unstored, grants>>
      /\ \/ code' = [code EXCEPT ![KeyOf(req[p])] = None] /\ spent' = spent \cup {req[p].code}
         \/ UNCHANGED <<code, spent>>
      /\ faults' \in {faults, faults + 1}
  BY DEF DeleteCode
<1>3. TypeOK'
  BY <1>1, <1>2, ReplyTypes DEF TypeInv, TypeOK
<1>4. Phases'
  BY <1>2, ReplyPhases DEF TypeInv
<1>5. CodesMailed'
  BY <1>2 DEF TypeInv, TypeOK, CodesMailed
<1> QED BY <1>3, <1>4, <1>5 DEF TypeInv

LEMMA NextTypeInv == TypeInv /\ [Next]_vars => TypeInv'
<1> SUFFICES ASSUME TypeInv, [Next]_vars PROVE TypeInv'
  OBVIOUS
<1>1. ASSUME NEW p \in Procs, NEW r \in Requests, Begin(p, r) PROVE TypeInv'
  BY <1>1, BeginTypeInv
<1>2. ASSUME NEW p \in Procs, Send(p) PROVE TypeInv'
  BY <1>2, TakeLimitTypeInv, SendMailTypeInv, GiveLimitBackTypeInv, StoreCodeTypeInv DEF Send
<1>3. ASSUME NEW p \in Procs, Present(p) PROVE TypeInv'
  BY <1>3, CheckCodeTypeInv, CheckOwnerTypeInv, InsertTypeInv, FindUserTypeInv,
     UpdateUserTypeInv, WriteTokensTypeInv, DeleteCodeTypeInv DEF Present
<1>4. ASSUME NEW p \in Procs, Fault(p) PROVE TypeInv'
  BY <1>4, FaultTypeInv
<1>5. ASSUME NEW k \in Keys, ExpireLimit(k) \/ ExpireCode(k) PROVE TypeInv'
  BY <1>5, ExpireTypeInv
<1>6. CASE UNCHANGED vars
  BY <1>6 DEF vars, redisVars, handlerVars, historyVars, TypeInv, TypeOK, Phases, PhaseOK,
              Proven, CodesMailed
<1> QED
  BY <1>1, <1>2, <1>3, <1>4, <1>5, <1>6 DEF Next

\* The types of Accounts hold in every reachable state, every code in Redis was
\* mailed for its key, and what a handler has read, drawn or proven holds until
\* it uses it.
THEOREM AccountTypes == Spec => []TypeInv
BY InitTypeInv, NextTypeInv, PTL DEF Spec
-----------------------------------------------------------------------------
(* Who may write a row, and under which address. *)

\* Only an insertion and an update write rows and grants.
LEMMA RowsKept ==
  ASSUME [Next]_vars, ~\E p \in Procs : Insert(p) \/ UpdateUser(p)
  PROVE  UNCHANGED <<rows, grants>>
<1>1. ASSUME NEW p \in Procs, Refuse(p) PROVE UNCHANGED <<rows, grants>>
  BY <1>1 DEF Refuse, historyVars
<1>2. ASSUME NEW p \in Procs, NEW r \in Requests, Begin(p, r) PROVE UNCHANGED <<rows, grants>>
  BY <1>2 DEF Begin, historyVars
<1>3. ASSUME NEW p \in Procs, Send(p) PROVE UNCHANGED <<rows, grants>>
  BY <1>1, <1>3 DEF Send, TakeLimit, SendMail, GiveLimitBack, StoreCode, historyVars
<1>4. ASSUME NEW p \in Procs, Present(p) PROVE UNCHANGED <<rows, grants>>
  BY <1>1, <1>4 DEF Present, CheckCode, CheckOwner, FindUser, WriteTokens, DeleteCode, historyVars
<1>5. ASSUME NEW p \in Procs, Fault(p) PROVE UNCHANGED <<rows, grants>>
  BY <1>5 DEF Fault
<1>6. ASSUME NEW k \in Keys, ExpireLimit(k) \/ ExpireCode(k) PROVE UNCHANGED <<rows, grants>>
  BY <1>6 DEF ExpireLimit, ExpireCode, historyVars
<1>7. CASE UNCHANGED vars
  BY <1>7 DEF vars, historyVars
<1> QED
  BY <1>2, <1>3, <1>4, <1>5, <1>6, <1>7 DEF Next

\* The unique key decides on the address that is written, not on one read before.
LEMMA WriteFreeEmail ==
  ASSUME OneAccountPerEmail, TypeOK, NEW u \in Users, NEW row \in Row,
         EmailFree(u, row.email), rows' = [rows EXCEPT ![u] = row]
  PROVE  OneAccountPerEmail'
BY DEF OneAccountPerEmail, TypeOK, EmailFree, HasEmail

LEMMA NextOneAccount == TypeInv /\ OneAccountPerEmail /\ [Next]_vars => OneAccountPerEmail'
<1> SUFFICES ASSUME TypeInv, OneAccountPerEmail, [Next]_vars PROVE OneAccountPerEmail'
  OBVIOUS
<1>1. CASE UNCHANGED rows
  BY <1>1 DEF OneAccountPerEmail
<1>2. ASSUME NEW p \in Procs, Insert(p), ~UNCHANGED rows PROVE OneAccountPerEmail'
  <2>1. PICK u \in Users :
          /\ EmailFree(u, req[p].email)
          /\ rows' = [rows EXCEPT ![u] = [email |-> req[p].email,
                        password |-> req[p].code, deleted |-> FALSE]]
    BY <1>2 DEF Insert, Refuse
  <2>2. req[p] \in Request
    BY <1>2 DEF Insert, TypeInv, Phases, PhaseOK
  <2>3. [email |-> req[p].email, password |-> req[p].code, deleted |-> FALSE] \in Row
    BY <2>2, RequestFields DEF Row
  <2> QED BY <2>1, <2>3, WriteFreeEmail DEF TypeInv
<1>3. ASSUME NEW p \in Procs, UpdateUser(p), ~UNCHANGED rows PROVE OneAccountPerEmail'
  <2>1. /\ EmailFree(req[p].user, NewRow(p).email)
        /\ rows' = [rows EXCEPT ![req[p].user] = NewRow(p)]
    BY <1>3 DEF UpdateUser, Refuse
  <2>2. req[p] \in Request /\ req[p].user \in Users /\ read[p] \in Row
    BY <1>3 DEF UpdateUser, TypeInv, Phases, PhaseOK
  <2>3. NewRow(p) \in Row
    BY <2>2, RequestFields DEF NewRow, Row
  <2> QED BY <2>1, <2>2, <2>3, WriteFreeEmail DEF TypeInv
<1> QED
  BY <1>1, <1>2, <1>3, RowsKept

LEMMA InitOneAccount == Init => OneAccountPerEmail
BY AccountAssumption DEF Init, OneAccountPerEmail

\* An address belongs to one account: Register and BindEmail look for its owner
\* first, and the unique key of users decides.
THEOREM EmailsUnique == Spec => []OneAccountPerEmail
<1>1. TypeInv /\ OneAccountPerEmail /\ [Next]_vars => TypeInv' /\ OneAccountPerEmail'
  BY NextTypeInv, NextOneAccount
<1> QED
  BY <1>1, InitTypeInv, InitOneAccount, PTL DEF Spec

\* What was mailed stays mailed.
LEMMA MailedGrows == [Next]_vars => mailed \subseteq mailed'
<1> SUFFICES ASSUME [Next]_vars PROVE mailed \subseteq mailed'
  OBVIOUS
<1>1. ASSUME NEW p \in Procs, Refuse(p) PROVE mailed' = mailed
  BY <1>1 DEF Refuse, historyVars
<1>2. ASSUME NEW p \in Procs, NEW r \in Requests, Begin(p, r) PROVE mailed' = mailed
  BY <1>2 DEF Begin, historyVars
<1>3. ASSUME NEW p \in Procs, Send(p) PROVE mailed \subseteq mailed'
  BY <1>1, <1>3 DEF Send, TakeLimit, SendMail, GiveLimitBack, StoreCode, historyVars
<1>4. ASSUME NEW p \in Procs, Present(p) PROVE mailed' = mailed
  BY <1>1, <1>4 DEF Present, CheckCode, CheckOwner, Insert, FindUser, UpdateUser, WriteTokens,
                    DeleteCode, historyVars
<1>5. ASSUME NEW p \in Procs, Fault(p) PROVE mailed' = mailed
  BY <1>5 DEF Fault
<1>6. ASSUME NEW k \in Keys, ExpireLimit(k) \/ ExpireCode(k) PROVE mailed' = mailed
  BY <1>6 DEF ExpireLimit, ExpireCode, historyVars
<1>7. CASE UNCHANGED vars
  BY <1>7 DEF vars, historyVars
<1> QED
  BY <1>2, <1>3, <1>4, <1>5, <1>6, <1>7 DEF Next

LEMMA NextOnlyMailed == TypeInv /\ OnlyMailedCodes /\ [Next]_vars => OnlyMailedCodes'
<1> SUFFICES ASSUME TypeInv, OnlyMailedCodes, [Next]_vars PROVE OnlyMailedCodes'
  OBVIOUS
<1>1. CASE UNCHANGED grants
  BY <1>1, MailedGrows DEF OnlyMailedCodes
<1>2. ASSUME NEW p \in Procs, Insert(p) \/ UpdateUser(p), ~UNCHANGED grants
      PROVE  OnlyMailedCodes'
  <2>1. grants' = grants \cup {<<Purpose(req[p]), req[p].code>>}
    BY <1>2 DEF Insert, UpdateUser, Refuse, historyVars
  <2>2. Proven(p)
    BY <1>2 DEF Insert, UpdateUser, Refuse, historyVars, Proven, TypeInv, Phases, PhaseOK
  <2>3. <<Purpose(req[p]), req[p].code>> \in mailed
    BY <2>2 DEF TypeInv, Phases, PhaseOK
  <2> QED BY <2>1, <2>3, MailedGrows DEF OnlyMailedCodes
<1> QED
  BY <1>1, <1>2, RowsKept

LEMMA InitOnlyMailed == Init => OnlyMailedCodes
BY DEF Init, OnlyMailedCodes

\* Register, ResetPassword and BindEmail write a row only under a code that was
\* mailed for that purpose to that address.
THEOREM CodesMailedFirst == Spec => []OnlyMailedCodes
<1>1. TypeInv /\ OnlyMailedCodes /\ [Next]_vars => TypeInv' /\ OnlyMailedCodes'
  BY NextTypeInv, NextOnlyMailed
<1> QED
  BY <1>1, InitTypeInv, InitOnlyMailed, PTL DEF Spec
-----------------------------------------------------------------------------
(* The limit key and the last code. *)

LEMMA InitLatestInv == Init => LatestInv
BY DEF Init, LatestInv, OneSender, Sending

\* A step of a handler that sends nothing, before and after, and stores nothing.
LEMMA QuietLatest ==
  ASSUME LatestInv, NEW p \in Procs,
         pc[p] \notin {"mail", "unlimit", "store"}, pc'[p] \notin {"mail", "unlimit", "store"},
         \A q \in Procs \ {p} : pc'[q] = pc[q] /\ req'[q] = req[q] /\ drawn'[q] = drawn[q],
         UNCHANGED <<limit, latest, unstored>>,
         \A k \in Keys : code'[k] \in {code[k], None}
  PROVE  LatestInv'
<1>1. OneSender'
  BY DEF LatestInv, OneSender, Sending
<1>2. ASSUME NEW k \in Keys, StoreDue(k) PROVE StoreDue(k)'
  BY <1>2 DEF StoreDue
<1>3. ASSUME NEW k \in Keys
      PROVE  code'[k] = None \/ code'[k] = latest'[k] \/ k \in unstored' \/ StoreDue(k)'
  BY <1>2 DEF LatestInv
<1> QED BY <1>1, <1>3 DEF LatestInv

\* A request ends that sent nothing.
LEMMA QuietReply ==
  ASSUME TypeInv, LatestInv, NEW p \in Procs, Reply(p),
         pc[p] \notin {"mail", "unlimit", "store"},
         UNCHANGED <<limit, latest, unstored>>,
         \A k \in Keys : code'[k] \in {code[k], None}
  PROVE  LatestInv'
BY ReplyTypes, QuietLatest DEF TypeInv

LEMMA BeginLatest ==
  ASSUME TypeInv, LatestInv, NEW p \in Procs, NEW r \in Requests, Begin(p, r)
  PROVE  LatestInv'
<1>1. FirstStep(r.op) \notin {"mail", "unlimit", "store"}
  BY DEF FirstStep
<1> QED
  BY <1>1, QuietLatest DEF TypeInv, TypeOK, Begin, Idle, GoTo, redisVars, historyVars

LEMMA PresentLatest ==
  ASSUME TypeInv, LatestInv, NEW p \in Procs, Present(p)
  PROVE  LatestInv'
<1>1. pc[p] \notin {"mail", "unlimit", "store"}
  BY DEF Present, CheckCode, CheckOwner, Insert, FindUser, UpdateUser, WriteTokens, DeleteCode
<1>2. CASE Refuse(p)
  BY <1>1, <1>2, QuietReply DEF Refuse, redisVars, historyVars
<1>3. CASE DeleteCode(p)
  BY <1>1, <1>3, QuietReply DEF DeleteCode, TypeInv, TypeOK
<1>4. CASE ~Refuse(p) /\ ~DeleteCode(p)
  <2>1. PICK step \in Steps \ {"mail", "unlimit", "store"} : GoTo(p, step)
    BY <1>4 DEF Present, CheckCode, CheckOwner, Insert, FindUser, UpdateUser, WriteTokens,
                AfterCode, AfterUpdate, Steps
  <2>2. /\ UNCHANGED <<redisVars, drawn, latest, unstored>>
        /\ \A q \in Procs \ {p} : req'[q] = req[q]
    BY <1>4 DEF Present, CheckCode, CheckOwner, Insert, FindUser, UpdateUser, WriteTokens,
                historyVars, TypeInv, TypeOK
  <2> QED
    BY <1>1, <2>1, <2>2, QuietLatest DEF GoTo, redisVars, TypeInv, TypeOK
<1> QED BY <1>2, <1>3, <1>4

LEMMA TakeLimitLatest ==
  ASSUME TypeInv, LatestInv, NEW p \in Procs, TakeLimit(p)
  PROVE  LatestInv'
<1>1. CASE Refuse(p)
  BY <1>1, QuietReply DEF TakeLimit, Refuse, redisVars, historyVars
<1>2. CASE ~Refuse(p)
  <2> DEFINE K == Purpose(req[p])
  <2>1. pc[p] = "limit" /\ req[p] \in Request
    BY DEF TakeLimit, TypeInv, Phases, PhaseOK
  <2>2. /\ K \notin limit /\ limit' = limit \cup {K} /\ pc' = [pc EXCEPT ![p] = "mail"]
        /\ UNCHANGED <<code, req, drawn, latest, unstored>>
    BY <1>2, <2>1, RequestFields DEF TakeLimit, GoTo, historyVars
  <2>3. OneSender'
    BY <2>1, <2>2 DEF LatestInv, OneSender, Sending, TypeInv, TypeOK
  <2>4. ASSUME NEW k \in Keys, StoreDue(k) PROVE StoreDue(k)'
    BY <2>1, <2>2, <2>4 DEF StoreDue, TypeInv, TypeOK
  <2> QED BY <2>2, <2>3, <2>4 DEF LatestInv
<1> QED BY <1>1, <1>2

LEMMA SendMailLatest ==
  ASSUME TypeInv, LatestInv, NEW p \in Procs, SendMail(p)
  PROVE  LatestInv'
<1> DEFINE K == Purpose(req[p])
<1>1. pc[p] = "mail" /\ req[p] \in Request /\ K \in Keys
  BY RequestFields DEF SendMail, TypeInv, Phases, PhaseOK
<1>2. PICK c \in Codes :
        \/ /\ latest' = [latest EXCEPT ![K] = c] /\ drawn' = [drawn EXCEPT ![p] = c]
           /\ pc' = [pc EXCEPT ![p] = "store"] /\ unstored' = unstored
        \/ /\ latest' = [latest EXCEPT ![K] = c] /\ unstored' = unstored \cup {K}
           /\ pc' = [pc EXCEPT ![p] = "unlimit"] /\ drawn' = drawn
        \/ pc' = [pc EXCEPT ![p] = "unlimit"] /\ UNCHANGED <<latest, unstored, drawn>>
  BY DEF SendMail, GoTo, Fresh
<1>3. UNCHANGED <<code, limit, req>>
  BY DEF SendMail, redisVars
<1>4. Sending(p, K) /\ \A q \in Procs : Sending(q, K) => q = p
  BY <1>1 DEF Sending, LatestInv, OneSender
<1>5. \A q \in Procs : \A k \in Keys : Sending(q, k)' <=> Sending(q, k)
  BY <1>1, <1>2, <1>3 DEF Sending, TypeInv, TypeOK
<1>6. ASSUME NEW q \in Procs, pc'[q] = "store" PROVE drawn'[q] = latest'[Purpose(req'[q])]
  <2>1. CASE q = p
    <3>1. latest' = [latest EXCEPT ![K] = drawn'[p]]
      BY <1>2, <1>6, <2>1 DEF TypeInv, TypeOK
    <3>2. latest'[K] = drawn'[p]
      BY <1>1, <3>1 DEF TypeInv, TypeOK
    <3> QED BY <1>3, <2>1, <3>2
  <2>2. CASE q # p
    <3>1. pc[q] = "store" /\ drawn'[q] = drawn[q]
      BY <1>2, <1>6, <2>2 DEF TypeInv, TypeOK
    <3>2. req[q] \in Request
      BY <3>1 DEF TypeInv, Phases, PhaseOK
    <3>3. Purpose(req[q]) \in Keys
      BY <3>2, RequestFields
    <3>4. Purpose(req[q]) # K
      BY <1>1, <1>4, <2>2, <3>1 DEF Sending
    <3>5. latest'[Purpose(req[q])] = latest[Purpose(req[q])]
      BY <1>2, <3>3, <3>4 DEF TypeInv, TypeOK
    <3> QED BY <1>3, <3>1, <3>5 DEF LatestInv, OneSender
  <2> QED BY <2>1, <2>2
<1>7. OneSender'
  BY <1>3, <1>5, <1>6 DEF LatestInv, OneSender
<1>8. ASSUME NEW k \in Keys, StoreDue(k) PROVE StoreDue(k)'
  BY <1>1, <1>2, <1>3, <1>8 DEF StoreDue, TypeInv, TypeOK
<1>9. ASSUME pc'[p] = "store" PROVE StoreDue(K)'
  BY <1>3, <1>9 DEF StoreDue
<1>10. ASSUME NEW k \in Keys
       PROVE  code'[k] = None \/ code'[k] = latest'[k] \/ k \in unstored' \/ StoreDue(k)'
  BY <1>1, <1>2, <1>3, <1>8, <1>9 DEF LatestInv, TypeInv, TypeOK
<1> QED BY <1>7, <1>10 DEF LatestInv

\* A send ends: its key may be given back, and what it leaves stored is the last
\* code or known not to be.
LEMMA SendEndsLatest ==
  ASSUME TypeInv, LatestInv, NEW p \in Procs, Reply(p), req[p] \in Request,
         pc[p] \in {"unlimit", "store"}, limit \ {Purpose(req[p])} \subseteq limit',
         latest' = latest, unstored \subseteq unstored',
         \A k \in Keys \ {Purpose(req[p])} : code'[k] = code[k],
         \/ pc[p] = "unlimit" /\ code' = code
         \/ pc[p] = "store" /\ code'[Purpose(req[p])] = drawn[p]
         \/ Purpose(req[p]) \in unstored'
  PROVE  LatestInv'
<1> DEFINE K == Purpose(req[p])
<1>1. K \in Keys
  BY RequestFields
<1>2. Sending(p, K) /\ \A q \in Procs : Sending(q, K) => q = p
  BY <1>1 DEF Sending, LatestInv, OneSender
<1>3. \A q \in Procs : \A k \in Keys : Sending(q, k)' => q # p /\ Sending(q, k) /\ k # K
  BY <1>2, ReplyTypes DEF TypeInv, Sending
<1>4. OneSender'
  BY <1>3, ReplyTypes DEF LatestInv, OneSender, TypeInv
<1>5. ASSUME NEW k \in Keys \ {K}, StoreDue(k) PROVE StoreDue(k)'
  BY <1>5, ReplyTypes DEF StoreDue, TypeInv
<1>6. ASSUME NEW k \in Keys \ {K}
      PROVE  code'[k] = None \/ code'[k] = latest'[k] \/ k \in unstored' \/ StoreDue(k)'
  BY <1>5 DEF LatestInv
<1>7. pc[p] = "unlimit" => ~StoreDue(K)
  BY <1>2 DEF StoreDue, Sending
<1>8. code'[K] = drawn[p] => pc[p] = "unlimit" \/ code'[K] = latest[K]
  BY DEF LatestInv, OneSender
<1>9. CASE pc[p] = "unlimit" /\ code' = code
  BY <1>1, <1>4, <1>6, <1>7, <1>9 DEF LatestInv
<1>10. CASE pc[p] = "store" /\ code'[K] = drawn[p]
  BY <1>4, <1>6, <1>8, <1>10 DEF LatestInv
<1>11. CASE K \in unstored'
  BY <1>4, <1>6, <1>11 DEF LatestInv
<1> QED BY <1>9, <1>10, <1>11

LEMMA GiveLimitBackLatest ==
  ASSUME TypeInv, LatestInv, NEW p \in Procs, GiveLimitBack(p)
  PROVE  LatestInv'
<1>1. pc[p] = "unlimit" /\ req[p] \in Request
  BY DEF GiveLimitBack, TypeInv, Phases, PhaseOK
<1> QED
  BY <1>1, SendEndsLatest, RequestFields DEF GiveLimitBack, historyVars

LEMMA StoreCodeLatest ==
  ASSUME TypeInv, LatestInv, NEW p \in Procs, StoreCode(p)
  PROVE  LatestInv'
<1>1. pc[p] = "store" /\ req[p] \in Request
  BY DEF StoreCode, TypeInv, Phases, PhaseOK
<1>2. code' = [code EXCEPT ![Purpose(req[p])] = drawn[p]] /\ Purpose(req[p]) \in Keys
  BY <1>1, RequestFields DEF StoreCode
<1>3. /\ \A k \in Keys \ {Purpose(req[p])} : code'[k] = code[k]
      /\ code'[Purpose(req[p])] = drawn[p]
  BY <1>2 DEF TypeInv, TypeOK
<1> QED
  BY <1>1, <1>3, SendEndsLatest DEF StoreCode, historyVars

LEMMA FaultLatest ==
  ASSUME TypeInv, LatestInv, NEW p \in Procs, Fault(p)
  PROVE  LatestInv'
<1>1. Reply(p) /\ UNCHANGED <<code, limit, latest>>
  BY DEF Fault, redisVars
<1>2. CASE pc[p] = "store"
  <2>1. req[p] \in Request
    BY <1>2 DEF TypeInv, Phases, PhaseOK
  <2>2. unstored' = unstored \cup {Purpose(req[p])}
    BY <1>2 DEF Fault
  <2> QED BY <1>1, <1>2, <2>1, <2>2, SendEndsLatest
<1>3. CASE pc[p] # "store"
  BY <1>1, <1>3, QuietReply DEF Fault
<1> QED BY <1>2, <1>3

LEMMA ExpireLatest ==
  ASSUME TypeInv, LatestInv, NEW k \in Keys, ExpireLimit(k) \/ ExpireCode(k)
  PROVE  LatestInv'
<1>1. UNCHANGED <<pc, req, drawn, latest, unstored>>
  BY DEF ExpireLimit, ExpireCode, handlerVars, historyVars
<1>2. \A l \in Keys : code'[l] \in {code[l], None}
  BY DEF ExpireLimit, ExpireCode, TypeInv, TypeOK
<1>3. \A l \in Keys : l \in limit /\ l \notin limit' => \A p \in Procs : ~Sending(p, l)
  BY DEF ExpireLimit, ExpireCode
<1>4. OneSender'
  BY <1>1, <1>3 DEF LatestInv, OneSender, Sending
<1> QED
  BY <1>1, <1>2, <1>4 DEF LatestInv, StoreDue

LEMMA NextLatestInv == TypeInv /\ LatestInv /\ [Next]_vars => LatestInv'
<1> SUFFICES ASSUME TypeInv, LatestInv, [Next]_vars PROVE LatestInv'
  OBVIOUS
<1>1. ASSUME NEW p \in Procs, NEW r \in Requests, Begin(p, r) PROVE LatestInv'
  BY <1>1, BeginLatest
<1>2. ASSUME NEW p \in Procs, Send(p) PROVE LatestInv'
  BY <1>2, TakeLimitLatest, SendMailLatest, GiveLimitBackLatest, StoreCodeLatest DEF Send
<1>3. ASSUME NEW p \in Procs, Present(p) PROVE LatestInv'
  BY <1>3, PresentLatest
<1>4. ASSUME NEW p \in Procs, Fault(p) PROVE LatestInv'
  BY <1>4, FaultLatest
<1>5. ASSUME NEW k \in Keys, ExpireLimit(k) \/ ExpireCode(k) PROVE LatestInv'
  BY <1>5, ExpireLatest
<1>6. CASE UNCHANGED vars
  BY <1>6 DEF vars, redisVars, handlerVars, historyVars, LatestInv, OneSender, Sending, StoreDue
<1> QED
  BY <1>1, <1>2, <1>3, <1>4, <1>5, <1>6 DEF Next

LEMMA LatestInvStored == LatestInv => StoredIsLatest
<1> SUFFICES ASSUME LatestInv, NEW k \in Keys, code[k] # None, \A p \in Procs : ~Sending(p, k)
             PROVE  code[k] = latest[k] \/ k \in unstored
  BY DEF StoredIsLatest
<1>1. ~StoreDue(k)
  BY DEF StoreDue, Sending
<1> QED BY <1>1 DEF LatestInv

\* SendEmailCode leaves the code of the last mail in Redis: the limit key lets
\* one request at a time send for its scene and address.
THEOREM LastCodeStored == Spec => []StoredIsLatest
<1>1. TypeInv /\ LatestInv /\ [Next]_vars => TypeInv' /\ LatestInv'
  BY NextTypeInv, NextLatestInv
<1> QED
  BY <1>1, InitTypeInv, InitLatestInv, LatestInvStored, PTL DEF Spec
-----------------------------------------------------------------------------
(* Spent codes. *)

\* A code is mailed for one key only, and a spent one is stored nowhere.
CodesApart ==
    /\ \A k, l \in Keys : \A c \in Codes : <<k, c>> \in mailed /\ <<l, c>> \in mailed => k = l
    /\ \A c \in spent : \E k \in Keys : <<k, c>> \in mailed
    /\ \A c \in spent : \A k \in Keys : code[k] # c

\* A code on its way to Redis is not there yet, and nobody has used it.
DueUnused ==
    /\ \A p, q \in Procs : pc[p] = "store" /\ pc[q] = "store" /\ drawn[p] = drawn[q] => p = q
    /\ \A p \in Procs : pc[p] = "store" =>
         /\ \A k \in Keys : code[k] # drawn[p]
         /\ drawn[p] \notin spent
         /\ \A q \in Procs : Proven(q) => req[q].code # drawn[p]

LateRefused == \A p \in Procs : late[p] => req[p].code \in spent /\ pc[p] = "code"

SpentInv == CodesApart /\ DueUnused /\ LateRefused

LEMMA InitSpentInv == Init => SpentInv
BY DEF Init, SpentInv, CodesApart, DueUnused, LateRefused

\* A step of p that stores and spends nothing.  It proves a code it has found in
\* Redis.
LEMMA QuietSpent ==
  ASSUME TypeInv, SpentInv, NEW p \in Procs, pc[p] # "store", pc'[p] # "store",
         \A q \in Procs \ {p} :
           pc'[q] = pc[q] /\ req'[q] = req[q] /\ drawn'[q] = drawn[q] /\ late'[q] = late[q],
         UNCHANGED <<mailed, spent>>,
         \A k \in Keys : code'[k] \in {code[k], None},
         late'[p] => req'[p].code \in spent /\ pc'[p] = "code",
         Proven(p)' => \/ Proven(p) /\ req'[p].code = req[p].code
                       \/ \E k \in Keys : code[k] = req'[p].code
  PROVE  SpentInv'
<1>1. CodesApart'
  BY AccountAssumption DEF TypeInv, TypeOK, SpentInv, CodesApart
<1>2. LateRefused'
  BY DEF SpentInv, LateRefused
<1>3. ASSUME NEW q \in Procs, pc'[q] = "store"
      PROVE  /\ \A k \in Keys : code'[k] # drawn'[q]
             /\ drawn'[q] \notin spent'
             /\ \A r \in Procs : Proven(r)' => req'[r].code # drawn'[q]
  <2>1. q # p /\ pc[q] = "store" /\ drawn'[q] = drawn[q]
    BY <1>3
  <2>2. drawn[q] \in Codes
    BY <2>1 DEF TypeInv, TypeOK, Phases, PhaseOK
  <2>3. ASSUME NEW r \in Procs \ {p}, Proven(r)' PROVE req'[r].code # drawn[q]
    BY <2>1, <2>3 DEF SpentInv, DueUnused, Proven
  <2>4. Proven(p)' => req'[p].code # drawn[q]
    BY <2>1 DEF SpentInv, DueUnused
  <2> QED
    BY <2>1, <2>2, <2>3, <2>4, AccountAssumption DEF SpentInv, DueUnused
<1>4. \A q, r \in Procs : pc'[q] = "store" /\ pc'[r] = "store" /\ drawn'[q] = drawn'[r] => q = r
  BY DEF SpentInv, DueUnused
<1> QED BY <1>1, <1>2, <1>3, <1>4 DEF SpentInv, DueUnused

\* A request ends that had no code to store.
LEMMA QuietReplySpent ==
  ASSUME TypeInv, SpentInv, NEW p \in Procs, Reply(p), pc[p] # "store",
         UNCHANGED <<mailed, spent>>, \A k \in Keys : code'[k] \in {code[k], None}
  PROVE  SpentInv'
<1>1. ~late'[p]
  BY DEF TypeInv, TypeOK, Reply
<1>2. ~Proven(p)'
  BY ReplyTypes DEF TypeInv, Proven
<1> QED BY <1>1, <1>2, ReplyTypes, QuietSpent DEF TypeInv

LEMMA BeginSpent ==
  ASSUME TypeInv, SpentInv, NEW p \in Procs, NEW r \in Requests, Begin(p, r)
  PROVE  SpentInv'
<1>1. /\ pc[p] = "idle" /\ pc' = [pc EXCEPT ![p] = FirstStep(r.op)]
      /\ req' = [req EXCEPT ![p] = r] /\ late' = [late EXCEPT ![p] = r.code \in spent]
      /\ (r.code = None) <=> (r.op \in {"send", "delete"})
      /\ UNCHANGED <<code, drawn, mailed, spent>>
  BY DEF Begin, Idle, GoTo, redisVars, historyVars
<1>2. r.code \in spent => FirstStep(r.op) = "code"
  BY <1>1, AccountAssumption DEF TypeInv, TypeOK, FirstStep
<1>3. ~Proven(p)'
  BY <1>1 DEF Proven, FirstStep, TypeInv, TypeOK
<1>4. FirstStep(r.op) # "store"
  BY DEF FirstStep
<1>5. late'[p] => req'[p].code \in spent /\ pc'[p] = "code"
  BY <1>1, <1>2 DEF TypeInv, TypeOK
<1> QED
  BY <1>1, <1>3, <1>4, <1>5, QuietSpent DEF TypeInv, TypeOK

LEMMA TakeLimitSpent ==
  ASSUME TypeInv, SpentInv, NEW p \in Procs, TakeLimit(p)
  PROVE  SpentInv'
<1>1. CASE Refuse(p)
  BY <1>1, QuietReplySpent DEF TakeLimit, Refuse, redisVars, historyVars
<1>2. CASE ~Refuse(p)
  <2>1. /\ pc[p] = "limit" /\ pc' = [pc EXCEPT ![p] = "mail"]
        /\ UNCHANGED <<code, req, drawn, late, mailed, spent>>
    BY <1>2 DEF TakeLimit, GoTo, historyVars
  <2>2. ~late'[p] /\ ~Proven(p)'
    BY <2>1 DEF SpentInv, LateRefused, Proven, TypeInv, TypeOK
  <2> QED BY <2>1, <2>2, QuietSpent DEF TypeInv, TypeOK
<1> QED BY <1>1, <1>2

\* A fresh code has no trace.
LEMMA FreshCode ==
  ASSUME TypeInv, SpentInv, NEW c \in Fresh
  PROVE  /\ c \in Codes
         /\ \A k \in Keys : <<k, c>> \notin mailed /\ code[k] # c
         /\ c \notin spent
         /\ \A q \in Procs : drawn[q] # c /\ (Proven(q) => req[q].code # c)
<1>1. /\ c \in Codes /\ \A q \in Procs : drawn[q] # c
      /\ \A m \in mailed : m[2] # c
  BY DEF Fresh
<1>2. \A k \in Keys : <<k, c>> \notin mailed
  BY <1>1
<1>3. c \notin spent /\ \A k \in Keys : code[k] # c
  BY <1>1, <1>2, AccountAssumption DEF TypeInv, CodesMailed, SpentInv, CodesApart
<1>4. ASSUME NEW q \in Procs, Proven(q) PROVE req[q].code # c
  <2>1. <<Purpose(req[q]), req[q].code>> \in mailed
    BY <1>4 DEF TypeInv, Phases, PhaseOK
  <2> QED BY <1>1, <2>1
<1> QED BY <1>1, <1>2, <1>3, <1>4

LEMMA SendMailSpent ==
  ASSUME TypeInv, SpentInv, NEW p \in Procs, SendMail(p)
  PROVE  SpentInv'
<1> DEFINE K == Purpose(req[p])
<1>1. pc[p] = "mail" /\ req[p] \in Request
  BY DEF SendMail, TypeInv, Phases, PhaseOK
<1>2. PICK c \in Fresh :
        /\ mailed' \in {mailed, mailed \cup {<<K, c>>}}
        /\ \/ drawn' = [drawn EXCEPT ![p] = c] /\ pc' = [pc EXCEPT ![p] = "store"]
           \/ drawn' = drawn /\ pc' = [pc EXCEPT ![p] = "unlimit"]
  BY DEF SendMail, GoTo
<1>3. UNCHANGED <<code, req, spent, late>>
  BY DEF SendMail, redisVars
<1>4. /\ c \in Codes /\ c \notin spent
      /\ \A k \in Keys : <<k, c>> \notin mailed /\ code[k] # c
      /\ \A q \in Procs : drawn[q] # c /\ (Proven(q) => req[q].code # c)
  BY FreshCode
<1>5. CodesApart'
  <2>1. \A k, l \in Keys : \A d \in Codes :
          <<k, d>> \in mailed' /\ <<l, d>> \in mailed' => k = l
    BY <1>2, <1>4 DEF SpentInv, CodesApart
  <2> QED BY <1>2, <1>3, <2>1 DEF SpentInv, CodesApart
<1>6. /\ pc'[p] # "code" /\ pc'[p] \notin {"owner", "insert", "find", "update", "tokens", "delcode"}
      /\ pc'[p] = "store" => drawn'[p] = c
      /\ \A q \in Procs \ {p} : pc'[q] = pc[q] /\ drawn'[q] = drawn[q]
  BY <1>2 DEF TypeInv, TypeOK
<1>7. \A q \in Procs : Proven(q)' => Proven(q) /\ q # p
  BY <1>3, <1>6 DEF Proven
<1>8. LateRefused'
  BY <1>1, <1>3, <1>6 DEF SpentInv, LateRefused
<1>9. ASSUME NEW q \in Procs, pc'[q] = "store"
      PROVE  /\ \A k \in Keys : code'[k] # drawn'[q]
             /\ drawn'[q] \notin spent'
             /\ \A r \in Procs : Proven(r)' => req'[r].code # drawn'[q]
  <2>1. CASE q = p
    BY <1>3, <1>4, <1>6, <1>7, <1>9, <2>1
  <2>2. CASE q # p
    BY <1>3, <1>6, <1>7, <1>9, <2>2 DEF SpentInv, DueUnused
  <2> QED BY <2>1, <2>2
<1>10. \A q, r \in Procs : pc'[q] = "store" /\ pc'[r] = "store" /\ drawn'[q] = drawn'[r] => q = r
  BY <1>4, <1>6 DEF SpentInv, DueUnused
<1> QED BY <1>5, <1>8, <1>9, <1>10 DEF SpentInv, DueUnused

\* A code arrives in Redis, or is lost on the way: in both cases p was the only
\* one to store it.
LEMMA StoreEndsSpent ==
  ASSUME TypeInv, SpentInv, NEW p \in Procs, Reply(p), pc[p] = "store",
         UNCHANGED <<mailed, spent>>, \A k \in Keys : code'[k] \in {code[k], drawn[p]}
  PROVE  SpentInv'
<1>1. \A q \in Procs : pc'[q] = "store" => q # p /\ pc[q] = "store" /\ drawn'[q] = drawn[q]
  BY ReplyTypes DEF TypeInv
<1>2. \A q \in Procs : Proven(q)' => Proven(q) /\ req'[q] = req[q]
  BY ReplyTypes DEF TypeInv, Proven
<1>3. CodesApart'
  BY DEF SpentInv, CodesApart, DueUnused
<1>4. DueUnused'
  BY <1>1, <1>2 DEF SpentInv, DueUnused
<1>5. ~late'[p]
  BY DEF TypeInv, TypeOK, Reply
<1>6. LateRefused'
  BY <1>5, ReplyTypes DEF TypeInv, SpentInv, LateRefused
<1> QED BY <1>3, <1>4, <1>6 DEF SpentInv

LEMMA SendSpent ==
  ASSUME TypeInv, SpentInv, NEW p \in Procs, Send(p)
  PROVE  SpentInv'
<1>1. CASE GiveLimitBack(p)
  BY <1>1, QuietReplySpent DEF GiveLimitBack, historyVars
<1>2. CASE StoreCode(p)
  <2>1. req[p] \in Request
    BY <1>2 DEF StoreCode, TypeInv, Phases, PhaseOK
  <2>2. \A k \in Keys : code'[k] \in {code[k], drawn[p]}
    BY <1>2 DEF StoreCode, TypeInv, TypeOK
  <2> QED BY <1>2, <2>2, StoreEndsSpent DEF StoreCode, historyVars
<1> QED BY <1>1, <1>2, TakeLimitSpent, SendMailSpent DEF Send

LEMMA FaultSpent ==
  ASSUME TypeInv, SpentInv, NEW p \in Procs, Fault(p)
  PROVE  SpentInv'
BY StoreEndsSpent, QuietReplySpent DEF Fault, redisVars

\* Nothing a handler does with a code it has proven brings another one to light.
LEMMA ProvenGoesOn ==
  ASSUME TypeInv, SpentInv, NEW p \in Procs, Proven(p),
         NEW step \in Steps \ {"store"}, pc' = [pc EXCEPT ![p] = step],
         req'[p].code = req[p].code, \A q \in Procs \ {p} : req'[q] = req[q],
         UNCHANGED <<code, drawn, late, mailed, spent>>
  PROVE  SpentInv'
<1>1. pc[p] # "store" /\ ~late[p]
  BY DEF Proven, SpentInv, LateRefused
<1> QED BY <1>1, QuietSpent DEF TypeInv, TypeOK

LEMMA DeleteCodeSpent ==
  ASSUME TypeInv, SpentInv, NEW p \in Procs, DeleteCode(p)
  PROVE  SpentInv'
<1>1. CASE UNCHANGED spent
  BY <1>1, QuietReplySpent DEF DeleteCode, TypeInv, TypeOK
<1>2. CASE ~UNCHANGED spent
  <2> DEFINE c == req[p].code
             K == Purpose(req[p])
  <2>1. /\ pc[p] = "delcode" /\ req[p] \in Request /\ <<K, c>> \in mailed /\ Proven(p)
    BY DEF DeleteCode, TypeInv, Phases, PhaseOK, Proven
  <2>2. K \in Keys /\ c \in Codes /\ KeyOf(req[p]) = K
    BY <2>1, RequestFields DEF TypeInv, TypeOK
  <2>3. code' = [code EXCEPT ![K] = None] /\ spent' = spent \cup {c} /\ mailed' = mailed
    BY <1>2, <2>2 DEF DeleteCode
  <2>4. c # None
    BY <2>2, AccountAssumption
  <2>5. \A k \in Keys \ {K} : code'[k] = code[k]
    BY <2>2, <2>3 DEF TypeInv, TypeOK
  <2>6. code'[K] = None
    BY <2>2, <2>3 DEF TypeInv, TypeOK
  <2>7. ASSUME NEW k \in Keys PROVE code'[k] # c
    <3>1. CASE k = K
      BY <2>4, <2>6, <3>1
    <3>2. CASE k # K
      <4>1. <<k, c>> \notin mailed
        BY <2>1, <2>2, <3>2 DEF SpentInv, CodesApart
      <4> QED BY <2>4, <2>5, <3>2, <4>1 DEF TypeInv, CodesMailed
    <3> QED BY <3>1, <3>2
  <2>8. \A d \in spent : \A k \in Keys : code'[k] # d
    <3>1. None \notin spent
      BY AccountAssumption DEF TypeInv, TypeOK
    <3> QED BY <2>5, <2>6, <3>1 DEF SpentInv, CodesApart
  <2>9. CodesApart'
    BY <2>1, <2>2, <2>3, <2>7, <2>8 DEF SpentInv, CodesApart
  <2>10. /\ \A q \in Procs : pc'[q] = "store" => q # p /\ pc[q] = "store" /\ drawn'[q] = drawn[q]
        /\ \A q \in Procs : Proven(q)' => Proven(q) /\ req'[q] = req[q]
    BY ReplyTypes DEF DeleteCode, TypeInv, Proven
  <2>11. ASSUME NEW q \in Procs, pc'[q] = "store"
        PROVE  /\ \A k \in Keys : code'[k] # drawn'[q]
               /\ drawn'[q] \notin spent'
               /\ \A r \in Procs : Proven(r)' => req'[r].code # drawn'[q]
    <3>1. drawn[q] \in Codes
      BY <2>10, <2>11 DEF TypeInv, TypeOK, Phases, PhaseOK
    <3> QED
      BY <2>1, <2>3, <2>10, <2>11, <3>1, AccountAssumption DEF TypeInv, TypeOK, SpentInv, DueUnused
  <2>12. DueUnused'
    BY <2>10, <2>11 DEF SpentInv, DueUnused
  <2>13. ~late'[p]
    BY DEF DeleteCode, TypeInv, TypeOK, Reply
  <2>14. LateRefused'
    BY <2>3, <2>13, ReplyTypes DEF DeleteCode, TypeInv, SpentInv, LateRefused
  <2> QED BY <2>9, <2>12, <2>14 DEF SpentInv
<1> QED BY <1>1, <1>2

LEMMA PresentSpent ==
  ASSUME TypeInv, SpentInv, NEW p \in Procs, Present(p)
  PROVE  SpentInv'
<1>1. CASE DeleteCode(p)
  BY <1>1, DeleteCodeSpent
<1>2. CASE Refuse(p)
  <2>1. pc[p] # "store"
    BY DEF Present, CheckCode, CheckOwner, Insert, FindUser, UpdateUser, WriteTokens, DeleteCode
  <2> QED BY <1>2, <2>1, QuietReplySpent DEF Refuse, redisVars, historyVars
<1>3. CASE CheckCode(p) /\ ~Refuse(p)
  <2>1. /\ pc[p] = "code" /\ code[KeyOf(req[p])] = req[p].code
        /\ pc' = [pc EXCEPT ![p] = AfterCode(req[p].op)]
        /\ UNCHANGED <<code, req, drawn, late, mailed, spent>>
    BY <1>3 DEF CheckCode, GoTo, redisVars, historyVars
  <2>2. req[p] \in Request
    BY <2>1 DEF TypeInv, Phases, PhaseOK
  <2>3. KeyOf(req[p]) \in Keys
    BY <2>2, RequestFields
  <2>4. ~late[p]
    BY <2>1, <2>3 DEF SpentInv, LateRefused, CodesApart
  <2>5. AfterCode(req[p].op) # "store"
    BY DEF AfterCode
  <2> QED BY <2>1, <2>3, <2>4, <2>5, QuietSpent DEF TypeInv, TypeOK
<1>4. CASE CheckOwner(p) /\ ~Refuse(p)
  <2>1. Proven(p)
    BY <1>4 DEF CheckOwner, Proven, TypeInv, Phases, PhaseOK
  <2>2. PICK step \in {"insert", "find"} : GoTo(p, step)
    BY <1>4 DEF CheckOwner
  <2> QED
    BY <1>4, <2>1, <2>2, ProvenGoesOn DEF CheckOwner, GoTo, redisVars, historyVars, Steps
<1>5. CASE Insert(p) /\ ~Refuse(p)
  <2>1. Proven(p) /\ req[p] \in Request
    BY <1>5 DEF Insert, Proven, TypeInv, Phases, PhaseOK
  <2>2. PICK u \in Users : req' = [req EXCEPT ![p] = [req[p] EXCEPT !.user = u]]
    BY <1>5 DEF Insert
  <2>3. req'[p].code = req[p].code /\ \A q \in Procs \ {p} : req'[q] = req[q]
    BY <2>1, <2>2, RequestFields DEF TypeInv, TypeOK
  <2> QED
    BY <1>5, <2>1, <2>3, ProvenGoesOn DEF Insert, GoTo, redisVars, Steps
<1>6. CASE FindUser(p) /\ ~Refuse(p)
  <2>1. pc[p] = "find" /\ req[p] \in Request
    BY <1>6 DEF FindUser, TypeInv, Phases, PhaseOK
  <2>2. PICK u : /\ req' = [req EXCEPT ![p] = [req[p] EXCEPT !.user = u]]
                 /\ pc' = [pc EXCEPT ![p] = "update"]
                 /\ UNCHANGED <<code, drawn, late, mailed, spent>>
    BY <1>6 DEF FindUser, GoTo, redisVars, historyVars
  <2>3. /\ req'[p].code = req[p].code /\ req'[p].op = req[p].op
        /\ \A q \in Procs \ {p} : req'[q] = req[q]
    BY <2>1, <2>2 DEF TypeInv, TypeOK, Request
  <2>4. Proven(p)' => Proven(p)
    BY <2>1, <2>3 DEF Proven
  <2>5. ~late[p]
    BY <2>1 DEF SpentInv, LateRefused
  <2> QED BY <2>1, <2>2, <2>3, <2>4, <2>5, QuietSpent DEF TypeInv, TypeOK
<1>7. CASE (UpdateUser(p) \/ WriteTokens(p)) /\ ~Refuse(p)
  <2>1. /\ pc[p] \in {"update", "tokens"}
        /\ UNCHANGED <<code, req, drawn, late, mailed, spent>>
    BY <1>7 DEF UpdateUser, WriteTokens, redisVars, historyVars
  <2>2. PICK step \in {"tokens", "delcode"} : pc' = [pc EXCEPT ![p] = step]
    BY <1>7 DEF UpdateUser, WriteTokens, AfterUpdate, GoTo
  <2>3. ~late[p] /\ (Proven(p)' => Proven(p))
    BY <2>1 DEF SpentInv, LateRefused, Proven
  <2> QED BY <2>1, <2>2, <2>3, QuietSpent DEF TypeInv, TypeOK
<1> QED BY <1>1, <1>2, <1>3, <1>4, <1>5, <1>6, <1>7 DEF Present

LEMMA ExpireSpent ==
  ASSUME TypeInv, SpentInv, NEW k \in Keys, ExpireLimit(k) \/ ExpireCode(k)
  PROVE  SpentInv'
<1>1. UNCHANGED <<pc, req, drawn, late, mailed, spent>>
  BY DEF ExpireLimit, ExpireCode, handlerVars, historyVars
<1>2. \A l \in Keys : code'[l] \in {code[l], None}
  BY DEF ExpireLimit, ExpireCode, TypeInv, TypeOK
<1>3. None \notin spent
  BY AccountAssumption DEF TypeInv, TypeOK
<1>4. CodesApart'
  BY <1>1, <1>2, <1>3 DEF SpentInv, CodesApart
<1>5. ASSUME NEW p \in Procs, pc[p] = "store" PROVE \A l \in Keys : code'[l] # drawn[p]
  <2>1. drawn[p] \in Codes
    BY <1>5 DEF TypeInv, TypeOK, Phases, PhaseOK
  <2> QED BY <1>2, <1>5, <2>1, AccountAssumption DEF SpentInv, DueUnused
<1> QED
  BY <1>1, <1>4, <1>5 DEF SpentInv, DueUnused, LateRefused, Proven

LEMMA NextSpentInv == TypeInv /\ SpentInv /\ [Next]_vars => SpentInv'
<1> SUFFICES ASSUME TypeInv, SpentInv, [Next]_vars PROVE SpentInv'
  OBVIOUS
<1>1. ASSUME NEW p \in Procs, NEW r \in Requests, Begin(p, r) PROVE SpentInv'
  BY <1>1, BeginSpent
<1>2. ASSUME NEW p \in Procs, Send(p) PROVE SpentInv'
  BY <1>2, SendSpent
<1>3. ASSUME NEW p \in Procs, Present(p) PROVE SpentInv'
  BY <1>3, PresentSpent
<1>4. ASSUME NEW p \in Procs, Fault(p) PROVE SpentInv'
  BY <1>4, FaultSpent
<1>5. ASSUME NEW k \in Keys, ExpireLimit(k) \/ ExpireCode(k) PROVE SpentInv'
  BY <1>5, ExpireSpent
<1>6. CASE UNCHANGED vars
  BY <1>6 DEF vars, redisVars, handlerVars, historyVars, SpentInv, CodesApart, DueUnused,
              LateRefused, Proven
<1> QED
  BY <1>1, <1>2, <1>3, <1>4, <1>5, <1>6 DEF Next

\* A code that opened an account, or changed one, and was deleted opens nothing
\* for a request that begins later, whatever is sent or expires meanwhile.
THEOREM SpentCodesStaySpent == Spec => []SpentCodesRefused
<1>1. TypeInv /\ SpentInv /\ [Next]_vars => TypeInv' /\ SpentInv'
  BY NextTypeInv, NextSpentInv
<1>2. SpentInv => SpentCodesRefused
  BY DEF SpentInv, LateRefused, SpentCodesRefused
<1> QED
  BY <1>1, <1>2, InitTypeInv, InitSpentInv, PTL DEF Spec
=============================================================================
