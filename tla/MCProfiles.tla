----------------------------- MODULE MCProfiles -----------------------------
(* ann has written a post and a comment; bob follows ann and she was told  *)
(* so; bob was told of ann, who follows him no more.                         *)
EXTENDS Relations, TLC

CONSTANTS ann, bob

D(coll, u, v, vName) ==
    [coll |-> coll, user |-> u, name |-> First, other |-> v, otherName |-> vName]

Old == <<D("posts", ann, None, None), D("comments", ann, None, None),
         D("user_follows", bob, ann, First),
         D("notifications", bob, ann, None), D("notifications", ann, bob, None),
         D("post_likes", ann, None, None)>>

Interchangeable == Permutations(Tasks)
=============================================================================
