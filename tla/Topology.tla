------------------------------ MODULE Topology -------------------------------
(***************************************************************************)
(* The routes of the events.  All services publish to one topic exchange   *)
(* of RabbitMQ; platform-java and sync-sidecar declare the queues and bind *)
(* them to it, and consume them.  An event has a class, which consumers    *)
(* dispatch on, and its publisher chooses a routing key.                   *)
(*                                                                         *)
(* A key is a sequence of words; # at the end of a pattern stands for any  *)
(* number of words.  The module keeps no state.                            *)
(***************************************************************************)
LOCAL INSTANCE Naturals
LOCAL INSTANCE Sequences
Words == INSTANCE SequencesExt

Matches(pattern, key) ==
    IF Words!Last(pattern) = "#" THEN Words!IsPrefix(Words!Front(pattern), key)
    ELSE pattern = key

\* RabbitConfig of platform-java.
JavaBindings ==
    {<<"interaction", <<"interaction", "#">>>>, <<"user", <<"user", "#">>>>,
     <<"post", <<"post", "#">>>>,               <<"comment", <<"comment", "#">>>>,
     <<"log", <<"log", "#">>>>,                 <<"audit", <<"post", "audit">>>>,
     <<"es", <<"post", "#">>>>,                 <<"es", <<"user", "update">>>>,
     <<"es", <<"post", "audit", "pass">>>>}

\* sync-sidecar binds the queues it consumes, whether platform-java has or not.
SidecarBindings ==
    {<<"log", <<"log", "#">>>>, <<"user", <<"user", "#">>>>,
     <<"es", <<"post", "#">>>>, <<"es", <<"user", "update">>>>,
     <<"es", <<"post", "audit", "pass">>>>}

Queues(key) == {b[1] : b \in {c \in JavaBindings \cup SidecarBindings : Matches(c[2], key)}}

\* The key with which a class of events is published.
Key ==
    [UserUpdateEvent    |-> <<"user", "update">>,
     UserDeleteEvent    |-> <<"user", "delete">>,
     PostCreateEvent    |-> <<"post", "create">>,
     PostUpdateEvent    |-> <<"post", "update">>,
     PostDeleteEvent    |-> <<"post", "delete">>,
     PostAuditEvent     |-> <<"post", "audit">>,
     PostAuditPassEvent |-> <<"post", "audit", "pass">>,
     CommentEvent       |-> <<"comment", "create">>,
     InteractionEvent   |-> <<"interaction", "create">>,
     ApiLog             |-> <<"log", "info">>]

Events == DOMAIN Key

\* The queues that get an event of a class.
Routes == [e \in Events |-> Queues(Key[e])]

\* The classes the consumers of a queue handle ...
Handles ==
    [user        |-> {"UserUpdateEvent", "UserDeleteEvent"},
     es          |-> {"PostCreateEvent", "PostUpdateEvent", "PostDeleteEvent",
                      "PostAuditPassEvent", "UserUpdateEvent"},
     post        |-> {"PostCreateEvent", "PostUpdateEvent", "PostDeleteEvent",
                      "PostAuditEvent", "PostAuditPassEvent"},
     audit       |-> {"PostAuditEvent"},
     comment     |-> {"CommentEvent"},
     interaction |-> {"InteractionEvent"},
     log         |-> {"ApiLog"}]

\* ... and the queues whose consumers acknowledge what they do not know.  The listeners
\* of platform-java throw instead.
Lenient == {"user", "es"}

\* Every event reaches all consumers that handle its class, and none that would
\* throw it away: a listener bound to post.# has a handler for each of its events.
ASSUME RoutesFit ==
    \A e \in Events :
        /\ \A q \in DOMAIN Handles : e \in Handles[q] => q \in Routes[e]
        /\ \A q \in Routes[e] \ Lenient : e \in Handles[q]
=============================================================================
