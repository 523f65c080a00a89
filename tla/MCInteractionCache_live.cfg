SPECIFICATION FairSpec
CONSTANTS
    Kind = "comment"
    u1 = u1
    u2 = u2
    u3 = u3
    p1 = p1
    p2 = p2
    None = None
    Users = {u1, u2, u3}
    Residents = {u3}
    Dummy = Dummy
    Procs = {p1, p2}
    Ops = {"like", "unlike"}
    MaxBacklog = 2
    MaxDrift = 1
    Budget <- Outage
    MaxKinds = 9
    SerialUsers = TRUE
    PatientWaiters = TRUE
    QuietExpiry = TRUE
PROPERTY StoreCatchesUp
PROPERTY RequestsReturn
