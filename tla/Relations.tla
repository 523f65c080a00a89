------------------------------ MODULE Relations ------------------------------
(***************************************************************************)
(* What pages say about users and who follows whom, in a state of Profiles. *)
(*                                                                         *)
(* The module keeps no state.  The same relations are read by six queries:  *)
(* the lists of followed users, of fans and of friends, the search for      *)
(* users, the statistics of a profile and the pages of the administrators.  *)
(* Paging, sorting and the matching of names are left out.                 *)
(*                                                                         *)
(* Pages also ask for columns that no handler of Profiles reads.  They are  *)
(* parameters here, and the properties are about all their values:         *)
(*   - enabled: the users whose status is 1.  A deletion sets it to 0, but  *)
(*     UpdateUserStatus writes any status into any row, a deleted one too;  *)
(*   - removed: the posts whose isDeleted is 1.                            *)
(***************************************************************************)
EXTENDS Profiles

CONSTANT Admins  \* the users whose role is ADMIN

RelationIds == {i \in Ids : docs[i].coll = "user_follows"}
Card(u, name) == [user |-> u, name |-> name]

\* getFollowList, getFanList: the names are the copies in the relation.
FollowList(u) ==
    {Card(docs[i].other, docs[i].otherName) : i \in {j \in RelationIds : docs[j].user = u}}
FanList(u) ==
    {Card(docs[i].user, docs[i].name) : i \in {j \in RelationIds : docs[j].other = u}}

Of(cards) == {c.user : c \in cards}

\* getFriendList: of whom u follows, those who follow u.
FriendList(u) == {c \in FanList(u) : c.user \in Of(FollowList(u))}

\* GetUserStats of interaction-rpc, which the pages of a profile show.
FollowCount(u) == Cardinality({i \in RelationIds : docs[i].user = u})
FanCount(u)    == Cardinality({i \in RelationIds : docs[i].other = u})
IsFollowed(viewer, u) == Relation("user_follows", viewer, u) # {}

\* GetPublicProfile finds deleted users as well, and asks for the status only.
HasProfile(u, enabled) == u \in enabled

\* The rows platform-java finds: its mapper leaves out those of deleted users.
Present == {u \in Users : row[u] # Gone}

\* Mutant: the search does not ask for the status.
SearchPresent(viewer, enabled) ==
    {[card        |-> Card(u, row[u]),
      followed    |-> u # viewer /\ u \in Of(FollowList(viewer)),
      followingMe |-> u # viewer /\ u \in Of(FanList(viewer))] : u \in Present}

\* searchUsers: users with status 1, named as in MySQL, each with what is between
\* him and the one who searches.
SearchUsers(viewer, enabled) ==
    {[card        |-> Card(u, row[u]),
      followed    |-> u # viewer /\ u \in Of(FollowList(viewer)),
      followingMe |-> u # viewer /\ u \in Of(FanList(viewer))] : u \in Present \cap enabled}

\* The follow button next to a post by u.
PostShowsFollowed(viewer, u) == u \in Of(FollowList(viewer))

\* getUserDetail of the administrators counts what a user did, and his fans.
Written(u, coll) == {i \in Ids : docs[i].coll = coll /\ docs[i].user = u}
UserDetail(u, removed) ==
    [posts    |-> Cardinality(Written(u, "posts") \ removed),
     comments |-> Cardinality(Written(u, "comments")),
     given    |-> Cardinality(Written(u, "post_likes")),
     follows  |-> Cardinality(Written(u, "user_follows")),
     fans     |-> FanCount(u)]

\* getUserList shows who has the role USER.  It groups the documents by a field; who
\* has none is shown with 0.
Grouped(ids, coll, field, u) ==
    Cardinality({i \in ids : docs[i].coll = coll /\ docs[i][field] = u})
UserList(removed) ==
    {[user    |-> u,
      posts   |-> Grouped(Ids \ removed, "posts", "user", u),
      follows |-> Grouped(Ids, "user_follows", "user", u),
      fans    |-> Grouped(Ids, "user_follows", "other", u)] : u \in Present \ Admins}
-----------------------------------------------------------------------------
(* Properties. *)

\* At every moment, whatever requests, deletions and corrections of names have come
\* to: a profile counts as many followed users and fans as the lists show, the
\* administrators' two pages count the same, and profile, post, friends and the widest
\* search agree about who follows whom.  And when all is handled, the lists show nobody
\* who is deleted, and whoever they show is found by the search, under the same name,
\* exactly if he has a profile; unless something overlapped.  The lists do not ask for
\* the status: a disabled user stays on them, without profile and not found.
RelationsFit ==
    /\ \A u \in Users :
         /\ FollowCount(u) = Cardinality(FollowList(u))
         /\ FanCount(u) = Cardinality(FanList(u))
         /\ \A s \in SearchUsers(u, Users) :
              /\ s.followed <=> s.card.user # u /\ IsFollowed(u, s.card.user)
              /\ s.followed <=> PostShowsFollowed(u, s.card.user)
              /\ s.followed /\ s.followingMe <=> s.card.user \in Of(FriendList(u))
    /\ \A removed \in SUBSET Posts : \A l \in UserList(removed) :
         LET d == UserDetail(l.user, removed)
         IN  l.posts = d.posts /\ l.follows = d.follows /\ l.fans = d.fans
    /\ Quiet => \A u \in Users : \A c \in FollowList(u) \cup FanList(u) :
         {u, c.user} \cap missed = {} =>
             /\ c.user \in Present
             /\ \A enabled \in SUBSET Users :
                  HasProfile(c.user, enabled) <=> \E s \in SearchUsers(u, enabled) : s.card = c
=============================================================================
