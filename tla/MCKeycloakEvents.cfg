\* Faulty environments, an orderly one and one that renames users.
CONSTANTS
    Users = {u1, u2}
    Groups = {g1, g2}
    Usernames = {a, b}
    Parent <- ParentOf
    Workers = {w1, w2}
    Sessions = {s1}
    MaxEvents = 3
    MaxRetries = 2
    Environments <- Every
    None = none
    u1 = u1
    u2 = u2
    g1 = g1
    g2 = g2
    a = a
    b = b
    w1 = w1
    w2 = w2
    s1 = s1

SPECIFICATION Spec

SYMMETRY Symmetry

\* Keycloak, the network and the users may do nothing any more.
CHECK_DEADLOCK FALSE

INVARIANTS
    IInv
    EnqueuedOnce
    EntriesFit
    MarkedWasApplied
    NeverStranded
    AppliedAtMostOnce
    ProjectionFollows

PROPERTIES
    LoginNeverActivates
