-------------------------------- MODULE Feed ---------------------------------
(***************************************************************************)
(* Where the post of PostIndex can be seen: the lists of platform-java for  *)
(* readers and administrators, the pages of search-rpc and the gateway, and *)
(* the page of the post itself.                                            *)
(*                                                                         *)
(* The module keeps no state.  Every list has its own query, which must let *)
(* through the posts that the page of the post is ready to show.  Sorting,  *)
(* paging and the matching of words are left out: a list is asked for the   *)
(* page the post would be on.                                              *)
(***************************************************************************)
EXTENDS PostIndex

\* The author, another user, and somebody without a login.
Readers == {"author", "other", "visitor"}

Kept(d) == d # None /\ ~d.deleted
TextIf(b) == IF b THEN post.text ELSE None

\* getPostDetail: drafts and rejected posts are for their author.
Opens(r) == Kept(post) /\ (post.status = 1 \/ r = "author")

\* The stream without a tag.
Recommended(r) == TextIf(Published(post))

\* The stream of one tag does not ask for the status.
Tagged(r) == TextIf(Kept(post))

\* The stream of a follower of the author.
Followed(r) == TextIf(r = "other" /\ Published(post))

\* Mutant: everybody gets what the author gets.
OfUserUnfiltered(r) == TextIf(Kept(post))

\* The posts of a user, who sees those that are not published, too.
OfUser(r) == TextIf(IF r = "author" THEN Kept(post) ELSE Published(post))

\* The author's own list.
Mine(r) == TextIf(r = "author" /\ Kept(post))

\* Posts read by identity: deleted posts are dropped afterwards, the status is not
\* asked for.
ById == TextIf(Kept(post))

\* What a user liked, collected, rated or viewed.
Liked(r)     == IF r = "visitor" THEN None ELSE ById
Collected(r) == IF r = "visitor" THEN None ELSE ById
Rated(r)     == IF r = "visitor" THEN None ELSE ById
Viewed(r)    == IF r = "visitor" THEN None ELSE ById

\* The list of the comments a user wrote names their posts, whatever they are.
Commented(r) == IF r = "visitor" \/ comments = 0 \/ post = None THEN None ELSE post.text

\* search-rpc shows what the index has, and so do its suggestions of words.
Search(r)  == es
Suggest(r) == es

\* What the hot tags are counted over, before the answer is kept for ten seconds.
HotTags(r) == TextIf(Published(post))

Indexed == {"search", "suggest"}
Lists == {"recommended", "tagged", "followed", "user", "mine", "liked", "collected",
          "rated", "viewed", "commented", "hot"} \cup Indexed

Shown(l, r) == CASE l = "recommended" -> Recommended(r)
                 [] l = "tagged"      -> Tagged(r)
                 [] l = "followed"    -> Followed(r)
                 [] l = "user"        -> OfUser(r)
                 [] l = "mine"        -> Mine(r)
                 [] l = "liked"       -> Liked(r)
                 [] l = "collected"   -> Collected(r)
                 [] l = "rated"       -> Rated(r)
                 [] l = "viewed"      -> Viewed(r)
                 [] l = "commented"   -> Commented(r)
                 [] l = "hot"         -> HotTags(r)
                 [] l = "suggest"     -> Suggest(r)
                 [] OTHER             -> Search(r)

\* Lists that do not ask for the status, and lists of some readers only.
OwnMarks   == {"liked", "collected", "rated", "viewed", "commented"}
Unfiltered == OwnMarks \cup {"tagged"}
Personal   == OwnMarks \cup {"followed", "mine"}

\* When a list is current: at once, when the index has caught up, or when the
\* comments of a deleted post are gone.
Current(l) == CASE l \in Indexed    -> Settled /\ ~broken
                [] l = "commented" -> Settled /\ slips = 0
                [] OTHER           -> TRUE
-----------------------------------------------------------------------------
(* The pages of the administrators. *)

\* The tabs of the list of posts: one for each status, the bin, and one for all.
Tabs == {"waiting", "passed", "rejected", "bin", "all"}
OnTab(t) == CASE t = "waiting"  -> Kept(post) /\ post.status = 0
              [] t = "passed"   -> Kept(post) /\ post.status = 1
              [] t = "rejected" -> Kept(post) /\ post.status = 2
              [] t = "bin"      -> post # None /\ post.deleted
              [] OTHER          -> post # None

\* Their page of the post asks for nothing; the ranking by views is of what is shown.
AdminOpens == post # None
Ranking    == TextIf(Published(post))
-----------------------------------------------------------------------------
(* The number of comments next to the post. *)

\* MongoDB keeps the post under an ObjectID; a string is none, even the string of
\* its digits.
StoredId    == [type |-> "ObjectID", digits |-> 1]
RequestedId == [type |-> "string", digits |-> 1]

\* batchPostStats: what the query does not find stays 0.
CommentStats == IF Kept(post) /\ StoredId = RequestedId THEN post.commentCount ELSE 0

\* A search page shows the statistics, whatever they are; if there are none, 0.  The
\* page of the post keeps the number platform-java read.
CommentsOnSearchPage == CommentStats
CommentsOnDetailPage == post.commentCount
-----------------------------------------------------------------------------
(* Properties. *)

\* Lists and pages fit.  What a list shows is the post as it is now, and its reader
\* can open it, but for the lists that do not ask for the status, which still
\* never show a deleted post; and a published post is in every list that is for
\* everybody.  For pages from the index and for the list of one's comments this is so
\* when nothing is in flight and no event was lost.  An administrator finds every post he can open on the tab of
\* all posts and on exactly one other, and the ranking shows what was passed.
ListsFitPages ==
    /\ \A l \in Lists, r \in Readers :
         Current(l) =>
             /\ Shown(l, r) # None =>
                    /\ Kept(post) /\ Shown(l, r) = post.text
                    /\ l \notin Unfiltered => Opens(r)
             /\ Published(post) /\ l \notin Personal => Shown(l, r) = post.text
    /\ Cardinality({t \in Tabs \ {"all"} : OnTab(t)}) = IF AdminOpens THEN 1 ELSE 0
    /\ OnTab("all") <=> AdminOpens
    /\ Ranking # None <=> OnTab("passed")

\* A search page and the page of the post count the same comments.
PagesCountAlike ==
    Published(post) /\ es # None => CommentsOnSearchPage = CommentsOnDetailPage
=============================================================================
