SPECIFICATION Spec
CONSTANTS
    p1 = p1
    p2 = p2
    j1 = j1
    j2 = j2
    j3 = j3
    None = None
    Procs = {p1}
    Jtis = {j1, j2, j3}
    Ops <- Everything
    Exclusive <- Everything
    LogoutNamesUser = TRUE
    MaxVersion = 2
    MaxIgnored = 1
    MaxRestarts = 1
SYMMETRY PairSymmetry
INVARIANT RevokedNeverAccepted
INVARIANT CurrentTokensWork
INVARIANT RefreshBounded
INVARIANT RouteAnswers
INVARIANT RevokedActsAsNobody
