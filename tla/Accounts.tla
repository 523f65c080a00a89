------------------------------ MODULE Accounts ------------------------------
(***************************************************************************)
(* E-mail codes and the accounts they open: sending a code, checking it,   *)
(* registering, resetting a password, binding an address, deleting.        *)
(*                                                                         *)
(* A code is stored in Redis under its scene and address, after the mail   *)
(* was sent; a second key limits how often one is sent.  A request that    *)
(* presents a code reads it first and deletes it last, so that everything  *)
(* between can interleave with other requests.  The users are rows of      *)
(* MySQL, read and written as a whole, with a unique key on the address.   *)
(*                                                                         *)
(* One action is one command of Redis, MySQL or SMTP.  A password is named *)
(* by the code under which it was chosen.                                  *)
(***************************************************************************)
EXTENDS FiniteSets, Naturals

CONSTANTS
    Users,       \* account ids, in any order of allocation
    Emails,
    Codes,       \* codes, drawn at random; that two draws agree is left out
    Procs,       \* request handlers
    None,
    Registered,  \* accounts that exist at the start, each with an address
    Requests,    \* the requests that are sent, a subset of Request
    MaxFaults    \* bound: commands that return an error

Scenes == {"register", "reset_password", "bind_email"}
Keys   == Scenes \X Emails

\* A row of users; a deleted one has given its address back.
Row == [email : Emails \cup {None}, password : Codes \cup {None}, deleted : BOOLEAN]

\* A request.  Everyone may name any code he was sent and any user he is.
Request == [op : {"send", "verify", "register", "reset_password", "bind_email", "delete"},
            scene : Scenes, email : Emails, user : Users \cup {None},
            code : Codes \cup {None}]

ASSUME AccountAssumption ==
    /\ None \notin Users \cup Emails \cup Codes
    /\ None \notin Row
    /\ Registered \in [Users -> Emails \cup {None}]
    /\ \A u, v \in Users : Registered[u] = Registered[v] /\ u # v => Registered[u] = None
    /\ Requests \subseteq Request
    /\ MaxFaults \in Nat

\* The command a handler sends next.
Steps == {"idle", "limit", "mail", "unlimit", "store", "code", "owner", "insert",
          "find", "update", "tokens", "delcode"}

VARIABLES
    rows,      \* users in MySQL; None: no such id
    code,      \* verify:code:<scene>:<email> in Redis
    limit,     \* the keys verify:limit:<scene>:<email> in Redis
    pc,        \* pc[p]: the next command of p
    req,       \* req[p]: the request p serves
    read,      \* read[p]: the row p has read
    drawn,     \* drawn[p]: the code p has drawn to send
    mailed,    \* <<key, code>> that reached a mailbox (history)
    latest,    \* latest[k]: the last code mailed for key k (history)
    unstored,  \* keys for which a mailed code was not stored (history)
    spent,     \* codes deleted by an answered request (history)
    late,      \* late[p]: p presents a code that was spent before p began (history)
    grants,    \* <<key, code>> under which a row was written (history)
    faults     \* commands that returned an error so far

redisVars   == <<code, limit>>
handlerVars == <<pc, req, read, drawn>>
historyVars == <<mailed, latest, unstored, spent, grants>>
vars == <<rows, redisVars, handlerVars, historyVars, late, faults>>

TypeOK ==
    /\ rows \in [Users -> Row \cup {None}]
    /\ code \in [Keys -> Codes \cup {None}]
    /\ limit \subseteq Keys
    /\ pc \in [Procs -> Steps]
    /\ req \in [Procs -> Request \cup {None}]
    /\ read \in [Procs -> Row \cup {None}]
    /\ drawn \in [Procs -> Codes \cup {None}]
    /\ mailed \subseteq Keys \X Codes
    /\ latest \in [Keys -> Codes \cup {None}]
    /\ unstored \subseteq Keys
    /\ spent \subseteq Codes
    /\ late \in [Procs -> BOOLEAN]
    /\ grants \subseteq Keys \X Codes
    /\ faults \in Nat

Init ==
    /\ rows = [u \in Users |->
                 IF Registered[u] = None THEN None
                 ELSE [email |-> Registered[u], password |-> None, deleted |-> FALSE]]
    /\ code = [k \in Keys |-> None] /\ limit = {}
    /\ pc = [p \in Procs |-> "idle"]
    /\ req = [p \in Procs |-> None]
    /\ read = [p \in Procs |-> None]
    /\ drawn = [p \in Procs |-> None]
    /\ mailed = {} /\ latest = [k \in Keys |-> None] /\ unstored = {}
    /\ spent = {} /\ grants = {}
    /\ late = [p \in Procs |-> FALSE]
    /\ faults = 0
-----------------------------------------------------------------------------
Idle(p) == pc[p] = "idle"
GoTo(p, step) == pc' = [pc EXCEPT ![p] = step]

\* What a code is mailed for.
Purpose(r) == <<r.scene, r.email>>

\* Mutant: the scene is left out of the key.
KeyWithoutScene(r) == <<"register", r.email>>

\* emailCodeKey and emailLimitKey, without their prefixes.
KeyOf(r) == <<r.scene, r.email>>

\* Answer the client.
Reply(p) ==
    /\ GoTo(p, "idle")
    /\ req' = [req EXCEPT ![p] = None]
    /\ read' = [read EXCEPT ![p] = None]
    /\ drawn' = [drawn EXCEPT ![p] = None]
    /\ late' = [late EXCEPT ![p] = FALSE]

Sending(p, k) == pc[p] \in {"mail", "unlimit", "store"} /\ Purpose(req[p]) = k

FirstStep(op) == IF op = "send" THEN "limit" ELSE IF op = "delete" THEN "find" ELSE "code"

\* Codes nobody has drawn.
Fresh == Codes \ ({m[2] : m \in mailed} \cup {drawn[p] : p \in Procs})

\* A request comes in.  Those that present a code have been sent one; the ones
\* on behalf of a user carry his id.
Begin(p, r) ==
    /\ Idle(p)
    /\ (r.code = None) <=> (r.op \in {"send", "delete"})
    /\ r.code # None => \E k \in Keys : <<k, r.code>> \in mailed
    /\ r.op = "send" =>
         Cardinality(Fresh) > Cardinality({q \in Procs : pc[q] \in {"limit", "mail"}})
    /\ (r.user = None) <=> (r.op \notin {"bind_email", "delete"})
    /\ r.user # None => rows[r.user] # None
    /\ r.op \in Scenes => r.scene = r.op
    /\ GoTo(p, FirstStep(r.op))
    /\ req' = [req EXCEPT ![p] = r]
    /\ late' = [late EXCEPT ![p] = r.code \in spent]
    /\ UNCHANGED <<rows, redisVars, read, drawn, historyVars, faults>>

\* A command returns an error: the request ends, what was done stays done.  The
\* mail may have been delivered although the dialogue with the server fails.
Fault(p) ==
    /\ pc[p] \notin {"idle", "mail", "unlimit", "delcode"}
    /\ faults < MaxFaults
    /\ faults' = faults + 1
    /\ Reply(p)
    /\ unstored' = IF pc[p] = "store" THEN unstored \cup {Purpose(req[p])} ELSE unstored
    /\ UNCHANGED <<rows, redisVars, mailed, latest, spent, grants>>

\* The request is refused.
Refuse(p) == Reply(p) /\ UNCHANGED <<rows, redisVars, historyVars, faults>>
-----------------------------------------------------------------------------
(* SendEmailCode. *)

\* Mutant: the answer of SETNX is not looked at.
TakeLimitAlways(p) ==
    /\ pc[p] = "limit"
    /\ limit' = limit \cup {KeyOf(req[p])}
    /\ GoTo(p, "mail")
    /\ UNCHANGED <<rows, code, req, read, drawn, late, historyVars, faults>>

\* SETNX of the limit key, for 60 seconds.
TakeLimit(p) ==
    /\ pc[p] = "limit"
    /\ LET k == KeyOf(req[p])
       IN  IF k \in limit THEN Refuse(p)
           ELSE /\ limit' = limit \cup {k}
                /\ GoTo(p, "mail")
                /\ UNCHANGED <<rows, code, req, read, drawn, late, historyVars, faults>>

\* randCode, then sendEmail.
SendMail(p) ==
    /\ pc[p] = "mail"
    /\ \E c \in Fresh :
         LET k == Purpose(req[p])
             Delivered == /\ mailed' = mailed \cup {<<k, c>>}
                          /\ latest' = [latest EXCEPT ![k] = c]
         IN  \/ /\ Delivered
                /\ drawn' = [drawn EXCEPT ![p] = c]
                /\ GoTo(p, "store")
                /\ UNCHANGED <<unstored, faults>>
             \/ /\ faults < MaxFaults
                /\ faults' = faults + 1
                /\ \/ Delivered /\ unstored' = unstored \cup {k}
                   \/ UNCHANGED <<mailed, latest, unstored>>
                /\ GoTo(p, "unlimit")
                /\ UNCHANGED drawn
    /\ UNCHANGED <<rows, redisVars, req, read, spent, grants, late>>

\* DEL of the limit key after the mail failed; its error is ignored.
GiveLimitBack(p) ==
    /\ pc[p] = "unlimit"
    /\ \/ limit' = limit \ {KeyOf(req[p])} /\ UNCHANGED faults
       \/ faults < MaxFaults /\ faults' = faults + 1 /\ UNCHANGED limit
    /\ Reply(p)
    /\ UNCHANGED <<rows, code, historyVars>>

\* SETEX of the code, for five minutes.
StoreCode(p) ==
    /\ pc[p] = "store"
    /\ code' = [code EXCEPT ![KeyOf(req[p])] = drawn[p]]
    /\ Reply(p)
    /\ UNCHANGED <<rows, limit, historyVars, faults>>

\* The keys expire.  A mail is taken to be sent and its code stored within the
\* minute the limit key lasts.
ExpireLimit(k) ==
    /\ k \in limit
    /\ \A p \in Procs : ~Sending(p, k)
    /\ limit' = limit \ {k}
    /\ UNCHANGED <<rows, code, handlerVars, historyVars, late, faults>>

ExpireCode(k) ==
    /\ code[k] # None
    /\ code' = [code EXCEPT ![k] = None]
    /\ UNCHANGED <<rows, limit, handlerVars, historyVars, late, faults>>
-----------------------------------------------------------------------------
(* Requests that present a code. *)

AfterCode(op) == IF op = "reset_password" THEN "find" ELSE "owner"

\* GET of the code.  VerifyEmailCode answers with the comparison and does no more.
CheckCode(p) ==
    /\ pc[p] = "code"
    /\ IF req[p].op # "verify" /\ code[KeyOf(req[p])] = req[p].code
       THEN /\ GoTo(p, AfterCode(req[p].op))
            /\ UNCHANGED <<rows, redisVars, req, read, drawn, late, historyVars, faults>>
       ELSE Refuse(p)

HasEmail(u, e) == rows[u] # None /\ rows[u].email = e

\* FindOneByEmail of Register and BindEmail: the address must not belong to
\* anybody, or to the one who binds it.
CheckOwner(p) ==
    /\ pc[p] = "owner"
    /\ IF \E u \in Users : HasEmail(u, req[p].email) /\ u # req[p].user
       THEN Refuse(p)
       ELSE /\ GoTo(p, IF req[p].op = "register" THEN "insert" ELSE "find")
            /\ UNCHANGED <<rows, redisVars, req, read, drawn, late, historyVars, faults>>

\* Mutant: the table has no unique key.
EmailUnchecked(u, e) == TRUE

\* uk_email of the table users.
EmailFree(u, e) == e = None \/ \A v \in Users \ {u} : ~HasEmail(v, e)

\* INSERT, under the next id.
Insert(p) ==
    /\ pc[p] = "insert"
    /\ \E u \in Users :
         /\ rows[u] = None
         /\ IF EmailFree(u, req[p].email)
            THEN /\ rows' = [rows EXCEPT ![u] = [email |-> req[p].email,
                               password |-> req[p].code, deleted |-> FALSE]]
                 /\ grants' = grants \cup {<<Purpose(req[p]), req[p].code>>}
                 /\ req' = [req EXCEPT ![p].user = u]
                 /\ GoTo(p, "tokens")
                 /\ UNCHANGED <<redisVars, read, drawn, mailed, latest, unstored, spent,
                                late, faults>>
            ELSE Refuse(p)

\* FindOneByEmail of ResetPassword, FindOne of BindEmail and of deleteUserAccount.
FindUser(p) ==
    /\ pc[p] = "find"
    /\ LET found == IF req[p].op = "reset_password"
                    THEN {u \in Users : HasEmail(u, req[p].email)}
                    ELSE {req[p].user}
       IN  \/ found = {} /\ Refuse(p)
           \/ \E u \in found :
                /\ read' = [read EXCEPT ![p] = rows[u]]
                /\ req' = [req EXCEPT ![p].user = u]
                /\ GoTo(p, "update")
                /\ UNCHANGED <<rows, redisVars, drawn, late, historyVars, faults>>

\* The row a request writes: what it has read, but for its own change.
NewRow(p) ==
    IF req[p].op = "delete"
    THEN [read[p] EXCEPT !.email = None, !.deleted = TRUE]
    ELSE IF req[p].op = "bind_email" THEN [read[p] EXCEPT !.email = req[p].email]
    ELSE [read[p] EXCEPT !.password = req[p].code]

AfterUpdate(op) == IF op = "bind_email" THEN "delcode" ELSE "tokens"

\* Update sets every column; the unique key refuses an address that was taken
\* since.
UpdateUser(p) ==
    /\ pc[p] = "update"
    /\ LET u == req[p].user
       IN  IF EmailFree(u, NewRow(p).email)
           THEN /\ rows' = [rows EXCEPT ![u] = NewRow(p)]
                /\ grants' = IF req[p].op = "delete" THEN grants
                             ELSE grants \cup {<<Purpose(req[p]), req[p].code>>}
                /\ GoTo(p, AfterUpdate(req[p].op))
                /\ UNCHANGED <<redisVars, req, read, drawn, mailed, latest, unstored, spent,
                               late, faults>>
           ELSE Refuse(p)

\* buildTokenPair, the refresh key and the token version, as AuthTokens has it.
\* A deletion ends here; its event is published or not, without a trace.
WriteTokens(p) ==
    /\ pc[p] = "tokens"
    /\ IF req[p].op = "delete" THEN Refuse(p)
       ELSE /\ GoTo(p, "delcode")
            /\ UNCHANGED <<rows, redisVars, req, read, drawn, late, historyVars, faults>>

\* Mutant: the code of another scene is deleted.
DeleteOtherCode(p) ==
    /\ pc[p] = "delcode"
    /\ code' = [code EXCEPT ![<<"register", req[p].email>>] = None]
    /\ spent' = spent \cup {req[p].code}
    /\ Reply(p)
    /\ UNCHANGED <<rows, limit, mailed, latest, unstored, grants, faults>>

\* DEL of the code; its error is ignored.
DeleteCode(p) ==
    /\ pc[p] = "delcode"
    /\ \/ /\ code' = [code EXCEPT ![KeyOf(req[p])] = None]
          /\ spent' = spent \cup {req[p].code}
          /\ UNCHANGED faults
       \/ /\ faults < MaxFaults
          /\ faults' = faults + 1
          /\ UNCHANGED <<code, spent>>
    /\ Reply(p)
    /\ UNCHANGED <<rows, limit, mailed, latest, unstored, grants>>
-----------------------------------------------------------------------------
Send(p) == TakeLimit(p) \/ SendMail(p) \/ GiveLimitBack(p) \/ StoreCode(p)
Present(p) == CheckCode(p) \/ CheckOwner(p) \/ Insert(p) \/ FindUser(p) \/ UpdateUser(p)
              \/ WriteTokens(p) \/ DeleteCode(p)

Next ==
    \/ \E p \in Procs, r \in Requests : Begin(p, r)
    \/ \E p \in Procs : Send(p) \/ Present(p) \/ Fault(p)
    \/ \E k \in Keys : ExpireLimit(k) \/ ExpireCode(k)

Spec == Init /\ [][Next]_vars
-----------------------------------------------------------------------------
(* Properties. *)

\* Register, ResetPassword and BindEmail write a row only under a code that was
\* mailed for that very purpose to the address they name, whatever else was
\* mailed, expired or was requested in between.
OnlyMailedCodes == grants \subseteq mailed

\* A code whose request was answered and whose key was deleted opens nothing
\* for a request that begins later.
SpentCodesRefused == \A p \in Procs : late[p] => pc[p] \in {"idle", "code"}

\* Between two sends the code that is stored is the last one that was mailed:
\* the limit key keeps two sends from storing in the other order.  Only a send
\* that was answered with an error may leave an older one.
StoredIsLatest ==
    \A k \in Keys : code[k] # None /\ (\A p \in Procs : ~Sending(p, k)) =>
        code[k] = latest[k] \/ k \in unstored

\* An address belongs to one account: registrations and bindings that looked
\* for its owner at the same time, and updates with a row read earlier.
OneAccountPerEmail ==
    \A u, v \in Users : rows[u] # None /\ rows[v] # None /\ u # v =>
        rows[u].email = None \/ rows[u].email # rows[v].email
=============================================================================
