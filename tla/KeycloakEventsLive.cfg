\* A user who keeps logging in, in an environment that loses and reorders events.
CONSTANTS
    Users = {u1}
    Groups = {g1}
    Usernames = {a, b}
    Parent <- ParentOf
    Workers = {w1}
    Sessions = {s1}
    MaxEvents = 2
    MaxRetries = 1
    Environments <- Live
    None = none
    u1 = u1
    u2 = u2
    g1 = g1
    g2 = g2
    a = a
    b = b
    w1 = w1
    w2 = w2
    s1 = s1

SPECIFICATION FairSpec

\* Keycloak, the network and the users may do nothing any more.
CHECK_DEADLOCK FALSE

PROPERTIES
    MembershipsConverge
