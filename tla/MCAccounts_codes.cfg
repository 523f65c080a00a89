SPECIFICATION Spec
CONSTANTS
    u1 = u1
    u2 = u2
    e1 = e1
    e2 = e2
    Users = {u1, u2}
    Emails = {e1, e2}
    Codes = {c1, c2}
    Procs = {p1, p2}
    None = None
    Registered <- MCRegistered
    Requests <- MCRequests
    MaxFaults = 1
SYMMETRY Interchangeable
INVARIANT OnlyMailedCodes
INVARIANT SpentCodesRefused
INVARIANT StoredIsLatest
INVARIANT OneAccountPerEmail
