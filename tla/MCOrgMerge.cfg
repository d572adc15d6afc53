\* Three organizations, of which any may be twins; two users.
CONSTANTS
    Databases <- Forked
    Users = {u1, u2}
    Paths = {p1, p2}
    None = None
    MaxWrites = 1
    g1 = g1
    g2 = g2
    p1 = p1
    p2 = p2
    n1 = n1
    n2 = n2
    u1 = u1
    u2 = u2

SPECIFICATION Spec

\* The migration ends.
CHECK_DEADLOCK FALSE

INVARIANTS
    MembersKept
    HistoryStays
    ConstraintHolds
    ForkMerged
