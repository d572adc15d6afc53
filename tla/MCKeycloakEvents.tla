-------------------------- MODULE MCKeycloakEvents --------------------------
(* Small instances of KeycloakEvents: the environments.                     *)
EXTENDS KeycloakEvents, TLC

CONSTANTS u1, u2, g1, g2, a, b, w1, w2, s1

\* g2 is a child of g1.
ParentOf == [g \in Groups |-> IF g = g2 THEN g1 ELSE None]

\* Every fault and two workers, for one user that is new; with a login and fewer
\* faults.  No more faults than retries, so no event is given up for them.
Faulty(sessions0, n) ==
    [users |-> {u1}, known |-> << >>, usernames |-> {a}, groups |-> {g2}, maxEvents |-> 2,
     ops |-> AllOps \ {"rename", "ignored", "link", "provision"}, slow |-> FALSE, workers |-> {w1, w2}, sessions |-> sessions0,
     faults |-> AllFaults, maxFaults |-> n]

\* Nothing is lost or reordered, though posts are repeated and acknowledgements
\* lost; a second user may have the username of the first, and a group is deleted.
Ordered ==
    [users |-> {u1, u2}, known |-> (u1 :> a), usernames |-> {a, b}, groups |-> {g1}, maxEvents |-> 3,
     ops |-> AllOps \ {"provision", "group"}, slow |-> TRUE, workers |-> {w1}, sessions |-> {},
     faults |-> {"duplicate", "ack lost"}, maxFaults |-> 1]

\* Two users rename each other while they log in and are provisioned.
Renaming ==
    [users |-> {u1, u2}, known |-> (u1 :> a), usernames |-> {a, b}, groups |-> {}, maxEvents |-> 2,
     ops |-> {"create", "update", "rename", "delete", "provision"}, slow |-> FALSE, workers |-> {w1},
     sessions |-> {s1}, faults |-> {}, maxFaults |-> 0]

Every == {Faulty({}, 2), Faulty({s1}, 1), Ordered, Renaming}

\* A user in or out of a group at first, or one who is renamed, or is new and
\* joins a group; a post is lost, a worker crashes or the task is retried, events
\* overtake each other.
Straying(known0, groups0, ops) ==
    [users |-> {u1}, known |-> known0, usernames |-> IF groups0 = {} THEN {a, b} ELSE {a}, groups |-> groups0,
     maxEvents |-> 2, ops |-> ops, slow |-> FALSE, workers |-> {w1}, sessions |-> {s1},
     faults |-> {"post lost", "worker crash", "task error"}, maxFaults |-> 1]

Live == {Straying(u1 :> a, {g1}, {"update", "join", "leave", "ungroup"}),
         Straying(u1 :> a, {}, {"rename"}),
         Straying(<< >>, {g1}, {"create", "join"})}

Symmetry == Permutations(Workers)
=============================================================================
