SPECIFICATION Spec
CONSTANTS
    u1 = u1
    u2 = u2
    Users = {u1, u2}
    Scores = {1, 2}
    Dummy = Dummy
    None = None
    Procs = {p1, p2}
    Consumers = {c1, c2}
    Residents <- OneRated
    MaxRatings = 3
    MaxFaults = 1
SYMMETRY Interchangeable
CHECK_DEADLOCK FALSE
INVARIANT CountNeverAhead
INVARIANT AverageMatches
INVARIANT SettledScores
