-------------------------- MODULE MCOrgReplication --------------------------
(* Small instances of OrgReplication: what events and tokens carry.         *)
EXTENDS OrgReplication, TLC

CONSTANTS g1, g2, p1, p2

Event(g, p) == [gid |-> g, path |-> p]

\* A group that stays, and one that moves to the path of the first, which is
\* deleted before (or is not, as events of several workers overtake each other).
Moving == {Event(g1, p1), Event(g2, p2), Event(g2, p1)}

\* Two tokens with the same groups in opposite orders.
Opposite == {<<p1, p2>>, <<p2, p1>>}

\* A group whose first event has no path, and one that moves away from the path
\* it gets.
Pathless == {Event(g1, None), Event(g1, p1), Event(g2, p1), Event(g2, p2)}

\* Resolutions race; with fewer events, logins of members, with the same groups
\* in opposite orders, wait for each other; and paths are filled in late.
Races == {[events |-> Moving, claims |-> Opposite, members |-> FALSE],
          [events |-> {Event(g1, p1)}, claims |-> Opposite, members |-> TRUE],
          [events |-> Pathless, claims |-> {}, members |-> FALSE]}

SlugOf == [x \in Gids \cup Paths |-> IF x = p2 THEN "t" ELSE "s"]

\* An organization that has the first slug of the first path.
Taken == 1 :> <<"s", 1>>
=============================================================================
