SPECIFICATION Spec
CONSTANTS
    p1 = p1
    p2 = p2
    j1 = j1
    j2 = j2
    j3 = j3
    None = None
    Procs = {p1, p2}
    Jtis = {j1, j2}
    Ops <- Everything
    Exclusive <- OneWriter
    LogoutNamesUser = FALSE
    MaxVersion = 1
    MaxIgnored = 1
    MaxRestarts = 1
SYMMETRY HandlerSymmetry
INVARIANT RevokedNeverRefreshes
