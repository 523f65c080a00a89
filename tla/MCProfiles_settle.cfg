SPECIFICATION Spec
CONSTANTS
    ann = ann
    bob = bob
    Users = {ann, bob}
    Names = {"old", "new"}
    First = "old"
    Gone = "gone"
    None = None
    Changing = {ann}
    Admins = {bob}
    Tasks = {t1, t2}
    Workers = {w1}
    OldDocs <- Old
    MaxChanges = 1
    MaxWrites = 2
    MaxFaults = 1
SYMMETRY Interchangeable
CHECK_DEADLOCK FALSE
INVARIANT NamesSettle
INVARIANT IndexNamesSettle
INVARIANT DeletedLeaveNothing
INVARIANT FollowedOnce
INVARIANT RelationsFit
