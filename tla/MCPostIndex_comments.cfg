SPECIFICATION Spec
CONSTANTS
    p1 = p1
    w1 = w1
    None = None
    Procs = {p1}
    Workers = {w1}
    AuditModes = {TRUE, FALSE}
    Overlap = FALSE
    PendingOnly = TRUE
    QuietReindex = TRUE
    Faults = {}
    MaxFaults = 0
    MaxText = 1
    MaxBacklog = 2
INVARIANT PagesCountAlike
