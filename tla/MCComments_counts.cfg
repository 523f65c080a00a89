SPECIFICATION Spec
CONSTANTS
    c1 = c1
    c2 = c2
    c3 = c3
    b1 = b1
    p1 = p1
    p2 = p2
    ann = ann
    bob = bob
    Bot = Bot
    Zero = Zero
    None = None
    Ids = {c1, c2, c3, b1}
    Author <- Writers
    PostAuthor = bob
    Mentions = {c1}
    Procs = {p1, p2}
    Overlap = FALSE
    Faults = {"error", "crash", "undo", "undeleted", "redeliver", "answer"}
    MaxHarm = 1
    MaxRefused = 1
SYMMETRY Symmetry
INVARIANT CountFollowsComments
INVARIANT RepliesCounted
INVARIANT EveryCommentListed
