------------------------------- MODULE Gateway -------------------------------
(***************************************************************************)
(* What the gateway and the interceptors of platform-java make of a         *)
(* request: the gateway's routes, who may use them, and the user the        *)
(* services behind it see.                                                 *)
(*                                                                         *)
(* The module keeps no state.  Its operators say, in a state of AuthTokens, *)
(* how a request with an access token is answered.  The gateway and         *)
(* platform-java each have their own list of open paths and their own table *)
(* of handlers; where they do not fit, requests fail.  A path is the       *)
(* sequence of its segments; "id" stands for every parameter.              *)
(***************************************************************************)
EXTENDS AuthTokens, Sequences

Paths == INSTANCE SequencesExt

At(method, prefix, rests) == {[method |-> method, path |-> prefix \o r] : r \in rests}
-----------------------------------------------------------------------------
(* routes.go: routes handed to platform-java as they are, and the others.      *)

AdminRoutes ==
    At("POST", <<"admin">>,
       {<<"auth", a>> : a \in {"login", "logout", "refresh", "reset-password", "send-code"}}
       \cup {<<"log", a>> : a \in {"admin", "user"}}
       \cup {<<"post", "id", "audit">>, <<"post", "id", "audit", "ai">>,
             <<"post", "audit-list">>, <<"profile", "password">>, <<"user", "id">>,
             <<"user", "list">>})
    \cup At("GET", <<"admin">>,
       {<<"log", "export">>, <<"post", "id">>, <<"post", "id", "audit-history">>,
        <<"profile", "info">>, <<"stats">>, <<"stats", "top-views">>, <<"user", "id">>})
    \cup At("DELETE", <<"admin">>, {<<"post", "id">>})

SyncRoutes == At("POST", <<"admin", "sync">>, {<<"mongo-to-es">>})

ToolRoutes ==
    At("POST", <<"api">>, {<<"common", "upload">>, <<"dev", "clean-notifications">>,
                           <<"dev", "seed">>})

TagRoutes ==
    At("POST", <<"api", "tag">>, {<<"ai-generate">>}) \cup At("GET", <<"api", "tag">>, {<<"hot">>})

PostProxies == At("GET", <<"api", "post">>, {<<"list">>, <<"user", "id">>})

UserProxies ==
    At("GET", <<"api", "user">>,
       {<<a>> : a \in {"collects", "comments", "friends", "history", "likes", "posts", "ratings"}}
       \cup {<<a, "id">> : a \in {"fans", "follows"}})
    \cup At("POST", <<"api", "user">>, {<<"follow">>, <<"unfollow">>})

AuthRoutes ==
    At("POST", <<"api", "auth">>,
       {<<a>> : a \in {"login", "logout", "refresh", "register", "send-code"}}
       \cup {<<"password", "reset">>})

CommentRoutes ==
    At("POST", <<"api", "comment">>, {<<>>}) \cup At("DELETE", <<"api", "comment">>, {<<"id">>})
    \cup At("GET", <<"api", "comment">>, {<<"list">>, <<"sub-list">>})

InteractionRoutes ==
    At("POST", <<"api", "interaction">>,
       {<<a, "post">> : a \in {"collect", "like", "rate", "uncollect", "unlike"}}
       \cup {<<a, "comment">> : a \in {"like", "unlike"}})

MessageRoutes ==
    At("GET", <<"api", "message">>, {<<"notifications">>, <<"unread-count">>})
    \cup {[method |-> m, path |-> <<"api", "message", "read">>] : m \in {"POST", "PUT"}}

\* Posts are read and written, and users are searched, by calls to platform-java.
Callers ==
    At("POST", <<"api", "post">>, {<<>>}) \cup At("GET", <<"api", "post">>, {<<"id">>})
    \cup At("PUT", <<"api", "post">>, {<<"id">>}) \cup At("DELETE", <<"api", "post">>, {<<"id">>})
    \cup At("GET", <<"api", "user">>, {<<"search">>})

SearchRoutes ==
    At("GET", <<"api">>, {<<"post", "search">>, <<"post", "search", "suggest">>,
                          <<"search", "history">>})
    \cup At("DELETE", <<"api", "search">>, {<<"history">>, <<"history", "item">>})

UserRoutes ==
    At("GET", <<"api", "user">>, {<<"id", "profile">>, <<"profile">>})
    \cup At("POST", <<"api", "user">>, {<<"bind-email">>, <<"password", "change">>})
    \cup At("PUT", <<"api", "user">>, {<<"profile">>})

\* Requests that reach platform-java, and all of them.
Forwarded == AdminRoutes \cup SyncRoutes \cup ToolRoutes \cup TagRoutes \cup PostProxies
             \cup UserProxies \cup Callers
Routes == Forwarded \cup AuthRoutes \cup CommentRoutes \cup InteractionRoutes
          \cup MessageRoutes \cup SearchRoutes \cup UserRoutes
-----------------------------------------------------------------------------
(* auth.go. *)

PublicPaths ==
    {<<"api", "tag", "hot">>}
    \cup {<<"api", "post">> \o r : r \in {<<"list">>, <<"search">>, <<"search", "suggest">>}}
    \cup {<<"api", "comment", a>> : a \in {"list", "sub-list"}}

Own == <<"api", "user", "profile">>
LogoutPath == <<"api", "auth", "logout">>

\* The patterns of gateway.yaml with a star: what comes before and after it.  The
\* slashes around the star may be one and the same, so the own profile matches.
Patterns == {[before |-> <<"api", "auth">>, after |-> <<>>],
             [before |-> <<"api", "user">>, after |-> <<"profile">>]}

MatchPattern(path, g) ==
    Len(path) > Len(g.before) /\ Paths!IsPrefix(g.before, path) /\ Paths!IsSuffix(g.after, path)

SkipsAuth(path) ==
    path # Own /\ (path \in PublicPaths \/ \E g \in Patterns : MatchPattern(path, g))

\* Mutant: an open route takes any signed token for a login.
WeakUserUnversioned(j, up) == IF j # None THEN j ELSE None

\* Whom a token on an open route stands for: nobody, if anything is wrong with it.
WeakUser(j, up) == IF j # None /\ up /\ Accepted(j) THEN j ELSE None

\* Any other route needs a token, Redis' answer and the current version.
Admits(j, up) == j # None /\ up /\ Accepted(j)
-----------------------------------------------------------------------------
(* platform-java: the table of its controllers and its interceptors.           *)

AdminController ==
    At("POST", <<"admin">>,
       {<<"auth", a>> : a \in {"login", "send-code", "reset-password", "logout", "refresh"}}
       \cup {<<"profile", "password">>, <<"user", "list">>, <<"user", "id">>,
             <<"post", "audit-list">>, <<"post", "id", "audit">>, <<"log", "admin">>,
             <<"log", "user">>, <<"post", "id", "audit", "ai">>})
    \cup At("GET", <<"admin">>,
       {<<"profile", "info">>, <<"user", "id">>, <<"post", "id">>,
        <<"post", "id", "audit-history">>, <<"log", "export">>, <<"stats", "top-views">>,
        <<"stats">>})
    \cup At("DELETE", <<"admin">>, {<<"post", "id">>})

PostController ==
    At("GET", <<"api", "post">>, {<<"list">>, <<"user", "id">>, <<"id">>})
    \cup At("POST", <<"api", "post">>, {<<>>}) \cup At("DELETE", <<"api", "post">>, {<<"id">>})
    \cup At("PUT", <<"api", "post">>, {<<"id">>})

UserController ==
    At("GET", <<"api", "user">>,
       {<<"follows", "id">>, <<"fans", "id">>}
       \cup {<<a>> : a \in {"friends", "search", "likes", "collects", "ratings", "posts",
                            "history", "comments"}})
    \cup At("POST", <<"api", "user">>, {<<"follow">>, <<"unfollow">>})

TagController ==
    At("GET", <<"api", "tag">>, {<<"hot">>}) \cup At("POST", <<"api", "tag">>, {<<"ai-generate">>})

ToolControllers ==
    At("POST", <<>>, {<<"api", "common", "upload">>, <<"api", "dev", "seed">>,
                      <<"api", "dev", "clean-notifications">>, <<"admin", "sync", "mongo-to-es">>})

Controllers == AdminController \cup PostController \cup UserController \cup TagController
               \cup ToolControllers

\* Mutant: the hot tags were opened in the gateway only.
JavaPublicPathsStale ==
    {<<"api", "post">> \o r : r \in {<<"list">>, <<"search">>, <<"search", "suggest">>}}
    \cup {<<"api", "comment", a>> : a \in {"list", "sub-list"}}

\* TokenInterceptor: paths it lets pass without a user.
JavaPublicPaths ==
    {<<"api", "tag", "hot">>}
    \cup {<<"api", "post">> \o r : r \in {<<"list">>, <<"search">>, <<"search", "suggest">>}}
    \cup {<<"api", "comment", a>> : a \in {"list", "sub-list"}}

\* WebMvcConfig: paths no interceptor asks for a user.
Excluded(path) ==
    \E e \in {<<"api", "auth">>, <<"api", "common">>, <<"admin", "auth">>} : Paths!IsPrefix(e, path)
-----------------------------------------------------------------------------
(* Answers. *)

\* What of a route decides its answers; there are only a few kinds of routes.
Kind(r) == [open    |-> SkipsAuth(r.path),
            logout  |-> r.path = LogoutPath,
            forward |-> r \in Forwarded,
            exists  |-> r \in Controllers,
            asks    |-> ~Excluded(r.path) /\ r.path \notin JavaPublicPaths,
            admin   |-> ~Excluded(r.path) /\ Paths!IsPrefix(<<"admin">>, r.path)]
Kinds == {Kind(r) : r \in Routes}

\* The holder of the token whose headers and context values the services see.
UserOf(k, j, up) ==
    IF k.logout THEN None
    ELSE IF k.open THEN WeakUser(j, up)
    ELSE IF Admits(j, up) THEN j ELSE None

\* platform-java acts on the headers the gateway sends: those of clients are dropped.
JavaAnswer(k, user, role) ==
    CASE ~k.exists                  -> "not found"
      [] k.asks /\ user = None      -> "log in"
      [] k.admin /\ role # "ADMIN"  -> "forbidden"
      [] OTHER                      -> "served"

Answer(k, j, role, up) ==
    IF ~k.open /\ ~Admits(j, up) THEN "log in"
    ELSE IF k.forward THEN JavaAnswer(k, UserOf(k, j, up), role) ELSE "served"
-----------------------------------------------------------------------------
(* Properties. *)

\* Routes that platform-java serves without a login and the gateway does not.
Locked == {r \in Forwarded : ~SkipsAuth(r.path) /\ JavaAnswer(Kind(r), None, "USER") = "served"}

\* Routes the gateway leaves open serve everybody, whatever token is sent along and
\* whether Redis answers or not, and between requests every route serves the holder of
\* a current token.  The other way round the two lists of open paths do not fit:
\* WebMvcConfig counts /admin/auth and /api/common among the paths without a login, but
\* the gateway asks there for a token, so that nobody without one reaches the login of
\* administrators or their reset of a forgotten password.  These are all the routes where
\* the lists differ.
RouteAnswers ==
    /\ \A k \in Kinds :
        /\ k.open => \A j \in issued \cup {None}, up \in BOOLEAN :
                         Answer(k, j, "USER", up) = "served"
        /\ (\A p \in Procs : Idle(p)) /\ version # None =>
               \A j \in issued : verOf[j] = row.ver =>
                   Answer(k, j, IF k.admin THEN "ADMIN" ELSE "USER", TRUE) = "served"
    /\ \A r \in Forwarded :
        /\ r \in Locked <=> \E e \in {<<"admin", "auth">>, <<"api", "common">>} :
                                Paths!IsPrefix(e, r.path)
        /\ r \in Locked => \A up \in BOOLEAN : Answer(Kind(r), None, "USER", up) = "log in"

\* A token of a version that an answered request has revoked stands for nobody, on
\* routes that need a login and on those that do not.
RevokedActsAsNobody ==
    \A j \in issued : verOf[j] < floor =>
        \A k \in Kinds, up \in BOOLEAN : UserOf(k, j, up) = None
=============================================================================
