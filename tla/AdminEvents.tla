----------------------------- MODULE AdminEvents -----------------------------
(***************************************************************************)
(* What the webhook reads from a Keycloak admin event: the parsers of      *)
(* apps/identity/webhooks.py.  A raw event is [type, op, path, rep]: the   *)
(* resource type, the operation, the segments of resourcePath and the      *)
(* representation, in which None is what it does not say.  Organization    *)
(* replication is enabled; an event without an id does not occur.          *)
(***************************************************************************)
EXTENDS Naturals, Sequences, FiniteSetsExt

CONSTANT None

NoRep == [id |-> None, username |-> None, enabled |-> None, name |-> None, path |-> None]

\* The payload of the dedupe-ledger row; no row is made for an ignored event.
Ignored == [kind |-> "none", op |-> "none", sub |-> None, group |-> None, path |-> None,
            username |-> None, enabled |-> None]

Either(x, y) == IF x # None THEN x ELSE y

\* The segment that follows the first `word` in a resourcePath.
After(path, word) ==
    LET at == {n \in 1 .. Len(path) - 1 : path[n] = word}
    IN  IF at = {} THEN None ELSE path[Min(at) + 1]

\* Is it groups/{id}, and not groups/{parent}/children?
TopLevel(path) == Len(path) = 2 /\ path[1] = "groups"

\* _extract_sub: the id of the representation, or of users/{id}/...
SubOf(raw) == Either(raw.rep.id, After(raw.path, "users"))

\* Mutant: the id is that of any path with a group.
GroupIdOf_AnyPath(raw) == Either(raw.rep.id, After(raw.path, "groups"))

\* _extract_group_event_id.
GroupIdOf(raw) == Either(raw.rep.id, IF TopLevel(raw.path) THEN raw.path[2] ELSE None)

\* _derive_group_path: a new top-level group is at /{name}.
PathOf(raw) ==
    Either(raw.rep.path,
           IF raw.op = "CREATE" /\ raw.rep.name # None /\ TopLevel(raw.path)
           THEN <<raw.rep.name>> ELSE None)

\* parse_admin_event.
UserEntry(raw) ==
    LET sub == SubOf(raw)
    IN  IF raw.op \in {"CREATE", "UPDATE", "DELETE"} /\ sub # None
        THEN [Ignored EXCEPT !.kind = "user", !.op = raw.op, !.sub = sub,
                             !.username = raw.rep.username, !.enabled = raw.rep.enabled]
        ELSE Ignored

\* parse_group_membership_event; the representation is the group's.
MembershipEntry(raw) ==
    LET sub == After(raw.path, "users")  group == After(raw.path, "groups")
    IN  IF raw.op \in {"CREATE", "DELETE"} /\ sub # None /\ group # None
        THEN [Ignored EXCEPT !.kind = "group_membership", !.op = raw.op, !.sub = sub,
                             !.group = group, !.path = raw.rep.path]
        ELSE Ignored

\* parse_group_event.
GroupEntry(raw) ==
    IF raw.op \in {"CREATE", "UPDATE"} /\ GroupIdOf(raw) # None
    THEN [Ignored EXCEPT !.kind = "group", !.op = raw.op, !.group = GroupIdOf(raw),
                         !.path = PathOf(raw)]
    ELSE Ignored

\* _event_ledger_entry.
LedgerEntry(raw) ==
    CASE raw.type = "USER"             -> UserEntry(raw)
      [] raw.type = "GROUP_MEMBERSHIP" -> MembershipEntry(raw)
      [] raw.type = "GROUP"            -> GroupEntry(raw)
      [] OTHER                         -> Ignored
=============================================================================
