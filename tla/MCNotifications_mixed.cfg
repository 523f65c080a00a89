SPECIFICATION Spec
CONSTANTS
    a = a
    b = b
    h = h
    u1 = u1
    u2 = u2
    StateKeys = {a, b}
    HistoryKeys = {h}
    Receiver <- For
    Callers = {p1, p2}
    Cleaners = {c1}
    None = None
    PageSize = 2
    OldDocs <- Old
    MaxWrites = 3
    MaxCleans = 2
    MaxStops = 2
SYMMETRY Interchangeable
CHECK_DEADLOCK FALSE
PROPERTY ImplementsInbox
INVARIANT HistoryComplete
INVARIANT NeverLost
INVARIANT UnreadKept
