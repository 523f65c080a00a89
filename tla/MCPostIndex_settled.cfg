SPECIFICATION FairSpec
CONSTANTS
    p1 = p1
    w1 = w1
    None = None
    Procs = {p1}
    Workers = {w1}
    AuditModes = {TRUE, FALSE}
    Overlap = FALSE
    PendingOnly = TRUE
    QuietReindex = TRUE
    Faults = {"publish", "mongo", "retry", "elastic", "sidecar", "reindex", "listener"}
    MaxFaults = 2
    MaxText = 3
    MaxBacklog = 3
INVARIANT OnlyPublishedTexts
INVARIANT IndexFollowsPost
INVARIANT CommentsCounted
INVARIANT ListsFitPages
PROPERTY DeletedLeavesIndex
