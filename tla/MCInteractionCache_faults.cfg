SPECIFICATION Spec
CONSTANTS
    Kind = "collect"
    u1 = u1
    u2 = u2
    u3 = u3
    p1 = p1
    p2 = p2
    None = None
    Users = {u1}
    Residents = {}
    Dummy = Dummy
    Procs = {p1, p2}
    Ops = {"like", "unlike", "read"}
    MaxBacklog = 2
    MaxDrift = 0
    Budget <- Faults
    MaxKinds = 2
    SerialUsers = FALSE
    PatientWaiters = FALSE
    QuietExpiry = FALSE
SYMMETRY Symmetry
INVARIANT TypeOK
INVARIANT NoHandlerStuck
INVARIANT NoOvercount
INVARIANT BloomCoversStore
