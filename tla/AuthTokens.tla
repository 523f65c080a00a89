----------------------------- MODULE AuthTokens -----------------------------
(***************************************************************************)
(* The tokens of one account: user-rpc, which issues and revokes them, and  *)
(* the gateway, which accepts or refuses them.                             *)
(*                                                                         *)
(* The account is a row of MySQL, read and written as a whole; it carries   *)
(* the token version, which every revocation increments.  Redis holds a    *)
(* copy of the version, one key per refresh token that was not yet used,   *)
(* and a key per token that was logged out.  An access token carries the   *)
(* version it was issued under and is accepted while the copy in Redis is  *)
(* the same; a refresh token is checked against MySQL and its key.         *)
(*                                                                         *)
(* One action is one MySQL or Redis command.  The password and the profile *)
(* are columns of the same row, so what happens to the version in a lost   *)
(* update happens to them.                                                 *)
(***************************************************************************)
EXTENDS Integers, FiniteSets

CONSTANTS
    Procs,            \* request handlers of user-rpc
    Jtis,             \* identities of token pairs, drawn at random, never twice
    None,             \* no value
    Ops,              \* the requests that are sent, a subset of OpNames
    Exclusive,        \* requests of which at most one is in flight
    LogoutNamesUser,  \* whether a logout carries the user's id
    MaxVersion,       \* bound: the highest token version
    MaxIgnored,       \* bound: Redis errors that user-rpc ignores
    MaxRestarts       \* bound: restarts of Redis

Bumpers   == {"change", "delete"} \cup (IF LogoutNamesUser THEN {"logout"} ELSE {})
RowWriters == Bumpers \cup {"profile", "ban"}
Presenters == {"refresh", "logout"}
OpNames   == {"login"} \cup Presenters \cup RowWriters

ASSUME TokenAssumption ==
    /\ IsFiniteSet(Procs)
    /\ None \notin Jtis /\ None \notin Nat /\ None \notin OpNames
    /\ Ops \subseteq OpNames
    /\ Exclusive \subseteq OpNames
    /\ LogoutNamesUser \in BOOLEAN
    /\ {MaxVersion, MaxIgnored, MaxRestarts} \subseteq Nat

\* A row of users: token version, status (1 is active) and whether the account
\* was deleted, which renames its e-mail address.
Row == [ver : Nat, status : {0, 1}, deleted : BOOLEAN]

\* Where a request stands: the command it sends next.
Steps == {"idle", "find", "blocked", "exists", "setex", "setver", "delold",
          "block", "delkey", "update"}

VARIABLES
    row,       \* the account in MySQL
    version,   \* auth:token:version:<id> in Redis, or None
    keys,      \* the refresh tokens whose one-time key is in Redis
    blocked,   \* refresh tokens with a block key in Redis
    verOf,     \* verOf[j]: the version pair j was issued under, None: not drawn
    issued,    \* pairs that reached a client
    pc,        \* pc[p]: the next command of handler p
    op,        \* op[p]: the request handler p serves
    tok,       \* tok[p]: the pair the request presents
    read,      \* read[p]: the row p has read
    new,       \* new[p]: the pair p has drawn
    floor,     \* versions below it were revoked by an answered request (history)
    out,       \* pairs an answered logout presented (history)
    late,      \* late[p]: p's token was revoked or logged out before p began (history)
    uses,      \* uses[j]: answered refreshes with pair j (history)
    ignored,   \* Redis errors ignored so far
    restarts   \* restarts of Redis so far

redisVars   == <<version, keys, blocked>>
handlerVars == <<pc, op, tok, read, new>>
historyVars == <<floor, out, late, uses>>
vars == <<row, redisVars, verOf, issued, handlerVars, historyVars, ignored, restarts>>

TypeOK ==
    /\ row \in Row
    /\ version \in Nat \cup {None}
    /\ keys \subseteq Jtis
    /\ blocked \subseteq Jtis
    /\ verOf \in [Jtis -> Nat \cup {None}]
    /\ issued \subseteq Jtis
    /\ pc \in [Procs -> Steps]
    /\ op \in [Procs -> OpNames \cup {None}]
    /\ tok \in [Procs -> Jtis \cup {None}]
    /\ read \in [Procs -> Row \cup {None}]
    /\ new \in [Procs -> Jtis \cup {None}]
    /\ floor \in Nat
    /\ out \subseteq Jtis
    /\ late \in [Procs -> BOOLEAN]
    /\ uses \in [Jtis -> Nat]
    /\ ignored \in Nat
    /\ restarts \in Nat

Idle(p) == pc[p] = "idle"
Drawn == {j \in Jtis : verOf[j] # None}

GoTo(p, step) == pc' = [pc EXCEPT ![p] = step]

\* Answer the client; what the handler had read is gone.
Reply(p) ==
    /\ pc'   = [pc EXCEPT ![p] = "idle"]
    /\ op'   = [op EXCEPT ![p] = None]
    /\ tok'  = [tok EXCEPT ![p] = None]
    /\ read' = [read EXCEPT ![p] = None]
    /\ new'  = [new EXCEPT ![p] = None]
    /\ late' = [late EXCEPT ![p] = FALSE]

Refuse(p) == Reply(p) /\ UNCHANGED <<row, redisVars, verOf, issued, floor, out, uses,
                                     ignored, restarts>>

\* A registered account nobody is logged in to; Redis may have lost its version.
Init ==
    /\ row = [ver |-> 0, status |-> 1, deleted |-> FALSE]
    /\ version \in {0, None}
    /\ keys = {} /\ blocked = {}
    /\ verOf = [j \in Jtis |-> None] /\ issued = {}
    /\ pc = [p \in Procs |-> "idle"]
    /\ op = [p \in Procs |-> None]
    /\ tok = [p \in Procs |-> None]
    /\ read = [p \in Procs |-> None]
    /\ new = [p \in Procs |-> None]
    /\ floor = 0 /\ out = {}
    /\ late = [p \in Procs |-> FALSE]
    /\ uses = [j \in Jtis |-> 0]
    /\ ignored = 0 /\ restarts = 0
-----------------------------------------------------------------------------
(* Requests. *)

FirstStep(o) == IF o = "refresh" THEN "blocked"
                ELSE IF o = "logout" THEN "block" ELSE "find"

Begin(p, o, j) ==
    /\ Idle(p)
    /\ o \in Presenters <=> j # None
    /\ j # None => j \in issued
    /\ o \in Exclusive => \A q \in Procs : op[q] \notin Exclusive
    /\ o \in Bumpers => row.ver + Cardinality({q \in Procs : op[q] \in Bumpers}) < MaxVersion
    /\ GoTo(p, FirstStep(o))
    /\ op' = [op EXCEPT ![p] = o]
    /\ tok' = [tok EXCEPT ![p] = j]
    /\ late' = [late EXCEPT ![p] = j # None /\ (verOf[j] < floor \/ j \in out)]
    /\ UNCHANGED <<row, redisVars, verOf, issued, read, new, floor, out, uses,
                   ignored, restarts>>

\* Mutant: the refresh token's version is not compared.
AdmittedIfActive(p) == row.status = 1

\* What must hold of the row for the request to go on.
Admitted(p) ==
    /\ op[p] = "login"   => row.status = 1 /\ ~row.deleted
    /\ op[p] = "refresh" => row.status = 1 /\ row.ver = verOf[tok[p]]

\* FindOne, FindOneByEmail.
FindUser(p) ==
    /\ pc[p] = "find"
    /\ Admitted(p)
    /\ read' = [read EXCEPT ![p] = row]
    /\ GoTo(p, IF op[p] = "login" THEN "setex"
               ELSE IF op[p] = "refresh" THEN "exists" ELSE "update")
    /\ UNCHANGED <<row, redisVars, verOf, issued, op, tok, new, historyVars, ignored,
                   restarts>>

\* The request is refused: the row does not admit it, the password is wrong, a
\* command returns an error, or the process dies.  What was done stays done.
Fail(p) == ~Idle(p) /\ Refuse(p)
-----------------------------------------------------------------------------
(* Issuing: Login and RefreshToken. *)

CheckBlocked(p) ==
    /\ pc[p] = "blocked"
    /\ tok[p] \notin blocked
    /\ GoTo(p, "find")
    /\ UNCHANGED <<row, redisVars, verOf, issued, op, tok, read, new, historyVars,
                   ignored, restarts>>

CheckKey(p) ==
    /\ pc[p] = "exists"
    /\ tok[p] \in keys
    /\ GoTo(p, "setex")
    /\ UNCHANGED <<row, redisVars, verOf, issued, op, tok, read, new, historyVars,
                   ignored, restarts>>

\* buildTokenPair, then SETEX of the refresh token's one-time key.
StoreKey(p) ==
    /\ pc[p] = "setex"
    /\ \E j \in Jtis \ Drawn :
         /\ keys' = keys \cup {j}
         /\ verOf' = [verOf EXCEPT ![j] = read[p].ver]
         /\ new' = [new EXCEPT ![p] = j]
    /\ GoTo(p, "setver")
    /\ UNCHANGED <<row, version, blocked, issued, op, tok, read, historyVars, ignored,
                   restarts>>

\* Mutant: every request writes the version it read.
WrittenAsRead(p) == read[p].ver

\* The version a request writes to Redis: the one it read, or the one it made.
Written(p) == IF op[p] \in Bumpers THEN read[p].ver + 1 ELSE read[p].ver

\* setTokenVersion.
SetVersion(p) ==
    /\ pc[p] = "setver"
    /\ version' = Written(p)
    /\ \/ /\ op[p] = "refresh"
          /\ GoTo(p, "delold")
          /\ UNCHANGED <<op, tok, read, new, issued, historyVars>>
       \/ /\ op[p] = "login"
          /\ Reply(p)
          /\ issued' = issued \cup {new[p]}
          /\ UNCHANGED <<floor, out, uses>>
       \/ /\ op[p] \in Bumpers
          /\ Reply(p)
          /\ floor' = IF read[p].ver < floor THEN floor ELSE read[p].ver + 1
          /\ out' = IF op[p] = "logout" THEN out \cup {tok[p]} ELSE out
          /\ UNCHANGED <<issued, uses>>
    /\ UNCHANGED <<row, keys, blocked, verOf, ignored, restarts>>

\* Mutant: the used token keeps its key.
KeepOldKey(p) ==
    /\ pc[p] = "delold"
    /\ issued' = issued \cup {new[p]}
    /\ uses' = [uses EXCEPT ![tok[p]] = @ + 1]
    /\ Reply(p)
    /\ UNCHANGED <<row, redisVars, verOf, floor, out, ignored, restarts>>

\* DEL of the key of the token that was used; its error is ignored.
DeleteOldKey(p) ==
    /\ pc[p] = "delold"
    /\ \/ /\ keys' = keys \ {tok[p]}
          /\ UNCHANGED ignored
       \/ /\ ignored < MaxIgnored
          /\ ignored' = ignored + 1
          /\ UNCHANGED keys
    /\ issued' = issued \cup {new[p]}
    /\ uses' = [uses EXCEPT ![tok[p]] = @ + 1]
    /\ Reply(p)
    /\ UNCHANGED <<row, version, blocked, verOf, floor, out, restarts>>
-----------------------------------------------------------------------------
(* Logout. *)

\* SETEX of the refresh token's block key; its error is ignored.  The access
\* token gets one too, which nothing reads.
BlockTokens(p) ==
    /\ pc[p] = "block"
    /\ \/ /\ blocked' = blocked \cup {tok[p]}
          /\ UNCHANGED ignored
       \/ /\ ignored < MaxIgnored
          /\ ignored' = ignored + 1
          /\ UNCHANGED blocked
    /\ GoTo(p, "delkey")
    /\ UNCHANGED <<row, version, keys, verOf, issued, op, tok, read, new, historyVars,
                   restarts>>

\* DEL of the refresh token's key.  The gateway lets a logout pass without
\* looking at its tokens, so it does not know the user: the request ends here.
DeleteKey(p) ==
    /\ pc[p] = "delkey"
    /\ \/ /\ keys' = keys \ {tok[p]}
          /\ UNCHANGED ignored
       \/ /\ ignored < MaxIgnored
          /\ ignored' = ignored + 1
          /\ UNCHANGED keys
    /\ IF LogoutNamesUser
       THEN GoTo(p, "find") /\ UNCHANGED <<op, tok, read, new, late, out>>
       ELSE Reply(p) /\ out' = out \cup {tok[p]}
    /\ UNCHANGED <<row, version, blocked, verOf, issued, floor, uses, restarts>>
-----------------------------------------------------------------------------
(* Requests that write the row: Update sets every column to what was read,  *)
(* but for the request's own change.                                        *)

\* Mutant: the version stays.
NewRowKeepsVersion(p) == {read[p]}

NewRow(p) ==
    IF op[p] = "delete"
    THEN {[ver |-> read[p].ver + 1, status |-> 0, deleted |-> TRUE]}
    ELSE IF op[p] \in Bumpers THEN {[read[p] EXCEPT !.ver = @ + 1]}
    ELSE IF op[p] = "ban" THEN {[read[p] EXCEPT !.status = s] : s \in {0, 1}}
    ELSE {read[p]}

UpdateUser(p) ==
    /\ pc[p] = "update"
    /\ row' \in NewRow(p)
    /\ IF op[p] \in Bumpers
       THEN GoTo(p, "setver") /\ UNCHANGED <<op, tok, read, new, late>>
       ELSE Reply(p)
    /\ UNCHANGED <<redisVars, verOf, issued, floor, out, uses, ignored, restarts>>
-----------------------------------------------------------------------------
\* Redis comes back empty.
RedisRestarts ==
    /\ restarts < MaxRestarts
    /\ restarts' = restarts + 1
    /\ version' = None /\ keys' = {} /\ blocked' = {}
    /\ UNCHANGED <<row, verOf, issued, handlerVars, historyVars, ignored>>

Issue(p) == CheckBlocked(p) \/ CheckKey(p) \/ StoreKey(p) \/ SetVersion(p) \/ DeleteOldKey(p)
Logout(p) == BlockTokens(p) \/ DeleteKey(p)

Next ==
    \/ \E p \in Procs, o \in Ops, j \in Jtis \cup {None} : Begin(p, o, j)
    \/ \E p \in Procs : FindUser(p) \/ Issue(p) \/ Logout(p) \/ UpdateUser(p) \/ Fail(p)
    \/ RedisRestarts

Spec == Init /\ [][Next]_vars
-----------------------------------------------------------------------------
(* Properties. *)

Accepted(j) == j \in issued /\ version = verOf[j]

\* A refresh that begins after its token was revoked or logged out never gets a
\* new pair: the version in the row, the block key and the one-time key back
\* each other up when one Redis error is ignored or Redis loses its memory.
RevokedNeverRefreshes ==
    \A p \in Procs :
        op[p] = "refresh" /\ late[p] => pc[p] \notin {"setex", "setver", "delold"}

\* A refresh token is used at most once per handler that raced for it, and once
\* more for every DEL whose error was ignored.
RefreshBounded == \A j \in Jtis : uses[j] <= Cardinality(Procs) + ignored

\* README.md: once a revocation was answered, older access tokens are refused at
\* once, also after requests that failed half-way.
RevokedNeverAccepted == \A j \in issued : verOf[j] < floor => ~Accepted(j)

\* Between requests the gateway accepts every pair of the account's current
\* version, unless Redis lost the version: no failed request locks a user out.
CurrentTokensWork ==
    (\A p \in Procs : Idle(p)) /\ version # None =>
        \A j \in issued : verOf[j] = row.ver => Accepted(j)
=============================================================================
