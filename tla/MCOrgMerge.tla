----------------------------- MODULE MCOrgMerge -----------------------------
(* Small instances of OrgMerge: the tables before the migration.            *)
EXTENDS OrgMerge

CONSTANTS g1, g2, p1, p2, n1, n2, u1, u2

Org(gid, path, name) == [gid |-> gid, path |-> path, name |-> name]

\* What another organization may be; a group id occurs once.
Others == {Org(gid, path, name) : gid \in {None, g2}, path \in {None, p1, p2}, name \in {n1, n2}}

\* The first organization is one to merge into; one user may be in each, and
\* another in the second.
Forked ==
    {[orgs |-> <<Org(g1, None, n1), a, b>>, members |-> m, trail |-> t] :
        <<a, b>> \in {x \in Others \X Others : x[1].gid = None \/ x[2].gid = None},
        m \in SUBSET {<<1, u1>>, <<2, u1>>, <<3, u1>>, <<2, u2>>},
        t \in SUBSET {2, 3}}
=============================================================================
