------------------------------ MODULE OrgMerge ------------------------------
(***************************************************************************)
(* Migration identity.0006: an organization that has only a group id takes *)
(* in the organizations of its name that have only a path, their           *)
(* memberships and the oldest path; then the paths become unique.  It is   *)
(* one transaction, run again by hand if it fails.  Meanwhile requests     *)
(* join users and append audit entries, and events give a path to an       *)
(* organization that has a group id (organizations that appear, change     *)
(* their name or get an id meanwhile are not modelled).                    *)
(***************************************************************************)
EXTENDS Naturals, FiniteSets, FiniteSetsExt

CONSTANTS Databases, \* the tables before: [orgs, members, trail]
          Users,
          Paths,     \* what events set as the path of an organization
          None,      \* NULL, or the empty path
          MaxWrites  \* bound: memberships, entries and paths that others write meanwhile

Tables(db) ==
    /\ DOMAIN db.orgs \subseteq Nat /\ IsFiniteSet(DOMAIN db.orgs)
    /\ \A i \in DOMAIN db.orgs : DOMAIN db.orgs[i] = {"gid", "path", "name"}
    /\ db.members \subseteq (DOMAIN db.orgs) \X Users
    /\ db.trail \subseteq DOMAIN db.orgs

ASSUME DatabasesAssumption == \A db \in Databases : Tables(db)
ASSUME PathsAssumption == None \notin Paths

VARIABLES
    orgs,    \* committed organizations [gid, path, name], by age
    members, \* committed memberships <<organization, user>>: the organization
             \* the row was made for, which stands for its status, origin and roles
    trail,   \* organizations with audit entries
    mig,     \* where the migration is
    view,    \* what it sees: the committed rows and its own changes
    before,  \* the tables at first
    joined,  \* every membership there was, by <<organization, user>>
    filled   \* the paths that others wrote, by <<organization, path>>

vars == <<orgs, members, trail, mig, view, before, joined, filled>>

Idle == [pc |-> "idle", canons |-> {}, canon |-> 0, twins |-> {}, todo |-> {}, adopted |-> None]

Twin == Min(mig.twins)

Without(f, keys) == [k \in DOMAIN f \ keys |-> f[k]]

With(f, key, value) == [k \in DOMAIN f \cup {key} |-> IF k = key THEN value ELSE f[k]]

Init ==
    /\ before \in Databases
    /\ orgs = before.orgs
    /\ members = [m \in before.members |-> m[1]]
    /\ trail = before.trail
    /\ mig = Idle
    /\ view = [orgs |-> orgs, members |-> members]
    /\ joined = before.members
    /\ filled = {}

\* The steps of the migration: what it does next, and what it sees then.
Go(new, rows) ==
    /\ mig' = new
    /\ view' = rows
    /\ UNCHANGED <<orgs, members, trail, before, joined, filled>>

\* The canonical rows are read at once.
Begin ==
    /\ mig.pc = "idle"
    /\ Go([Idle EXCEPT !.pc = "canon",
                       !.canons = {i \in DOMAIN orgs : orgs[i].gid # None /\ orgs[i].path = None}],
          view)

TwinsOf(rows, c) ==
    {i \in DOMAIN rows \ {c} :
        rows[i].gid = None /\ rows[i].path # None /\ rows[i].name = rows[c].name}

NextCanon ==
    /\ mig.pc = "canon"
    /\ \/ \E c \in mig.canons :
            Go([Idle EXCEPT !.pc = "twin", !.canons = mig.canons \ {c}, !.canon = c,
                            !.twins = TwinsOf(view.orgs, c)], view)
       \/ mig.canons = {} /\ Go([mig EXCEPT !.pc = "constrain"], view)

\* Mutant: the loop ends with the first twin.
NextTwin_First ==
    /\ mig.pc = "twin"
    /\ IF mig.twins = {} \/ mig.adopted # None
       THEN Go([mig EXCEPT !.pc = "adopt"], view)
       ELSE Go(IF Twin \in trail THEN [mig EXCEPT !.twins = @ \ {Twin}]
               ELSE [mig EXCEPT !.pc = "member",
                                !.todo = {m \in DOMAIN view.members : m[1] = Twin}], view)

\* A twin with audit history is left; the memberships of another are read.
NextTwin ==
    /\ mig.pc = "twin"
    /\ \/ mig.twins = {} /\ Go([mig EXCEPT !.pc = "adopt"], view)
       \/ /\ mig.twins # {} /\ Twin \in trail
          /\ Go([mig EXCEPT !.twins = @ \ {Twin}], view)
       \/ /\ mig.twins # {} /\ Twin \notin trail
          /\ Go([mig EXCEPT !.pc = "member",
                            !.todo = {m \in DOMAIN view.members : m[1] = Twin}], view)

\* Mutant: any other membership of the user counts as a clash.
MoveMember_AnyOther ==
    /\ mig.pc = "member"
    /\ \/ \E m \in mig.todo :
            LET moved == <<mig.canon, m[2]>>  rest == Without(view.members, {m})
            IN  Go([mig EXCEPT !.todo = @ \ {m}],
                   [view EXCEPT !.members =
                       IF \E x \in DOMAIN rest : x[2] = m[2] THEN rest
                       ELSE With(rest, moved, view.members[m])])
       \/ mig.todo = {} /\ Go([mig EXCEPT !.pc = "delete"], view)

\* A membership is repointed, or deleted if the user has one there.
MoveMember ==
    /\ mig.pc = "member"
    /\ \/ \E m \in mig.todo :
            LET moved == <<mig.canon, m[2]>>  rest == Without(view.members, {m})
            IN  Go([mig EXCEPT !.todo = @ \ {m}],
                   [view EXCEPT !.members =
                       IF moved \in DOMAIN rest THEN rest
                       ELSE With(rest, moved, view.members[m])])
       \/ mig.todo = {} /\ Go([mig EXCEPT !.pc = "delete"], view)

\* What refers to an organization (on_delete=PROTECT).
Protected(i) == i \in trail \/ \E m \in DOMAIN view.members : m[1] = i

Deleted(i) ==
    Go([mig EXCEPT !.pc = "twin", !.twins = @ \ {i},
                   !.adopted = IF @ = None THEN view.orgs[i].path ELSE @],
       [view EXCEPT !.orgs = Without(@, {i})])

\* Mutant: ProtectedError is caught, and the twin left.
DeleteTwin_Caught ==
    /\ mig.pc = "delete"
    /\ IF Protected(Twin) THEN Go([mig EXCEPT !.pc = "twin", !.twins = @ \ {Twin}], view)
       ELSE Deleted(Twin)

\* twin.delete(), unless something came to refer to it (see Abort).
DeleteTwin == mig.pc = "delete" /\ ~ Protected(Twin) /\ Deleted(Twin)

\* Mutant: rows that keep the path are not looked for.
AdoptPath_Unchecked ==
    /\ mig.pc = "adopt"
    /\ Go([mig EXCEPT !.pc = "canon"],
          IF mig.adopted = None THEN view
          ELSE [view EXCEPT !.orgs[mig.canon].path = mig.adopted])

\* The path is adopted if no surviving row has it; canon was read by Begin, so
\* save() writes over a path that it got since.
AdoptPath ==
    /\ mig.pc = "adopt"
    /\ Go([mig EXCEPT !.pc = "canon"],
          IF mig.adopted = None \/ \E i \in DOMAIN view.orgs \ {mig.canon} : view.orgs[i].path = mig.adopted
          THEN view
          ELSE [view EXCEPT !.orgs[mig.canon].path = mig.adopted])

\* Pairs of rows with one path.
Doubled(rows) ==
    {pair \in (DOMAIN rows) \X (DOMAIN rows) :
        /\ pair[1] # pair[2]
        /\ rows[pair[1]].path # None /\ rows[pair[1]].path = rows[pair[2]].path}

\* The foreign keys to a deleted row are deferred: they are checked at COMMIT.
ChecksPending == DOMAIN view.orgs # DOMAIN orgs

\* PostgreSQL makes no unique index over equal keys, nor over a table that has
\* checks pending ("cannot CREATE INDEX ... because it has pending trigger events").
Constrainable == Doubled(view.orgs) = {} /\ ~ ChecksPending

AddConstraint ==
    /\ mig.pc = "constrain"
    /\ Constrainable
    /\ Go([mig EXCEPT !.pc = "commit"], view)

Commit ==
    /\ mig.pc = "commit"
    /\ orgs' = view.orgs
    /\ members' = view.members
    /\ mig' = [Idle EXCEPT !.pc = "done"]
    /\ UNCHANGED <<trail, view, before, joined, filled>>

\* ProtectedError, IntegrityError, a refusal or a crash: all is rolled back.
Abort ==
    /\ mig.pc \notin {"idle", "done"}
    /\ Go(Idle, [orgs |-> orgs, members |-> members])

\* Writers refer to an organization that the migration deleted only after it
\* ended, and wait for its uncommitted membership with their key.
MayWrite(i) ==
    /\ i \in DOMAIN orgs \cap DOMAIN view.orgs
    /\ Cardinality(joined \ before.members) + Cardinality(trail \ before.trail) + Cardinality(filled)
           < MaxWrites

Join(i, u) ==
    LET m == <<i, u>> IN
    /\ MayWrite(i)
    /\ m \notin DOMAIN members \cup DOMAIN view.members
    /\ members' = With(members, m, i)
    /\ view' = [view EXCEPT !.members = With(@, m, i)]
    /\ joined' = joined \cup {m}
    /\ UNCHANGED <<orgs, trail, mig, before, filled>>

Append(i) ==
    /\ MayWrite(i)
    /\ trail' = trail \cup {i}
    /\ UNCHANGED <<orgs, members, mig, view, before, joined, filled>>

\* An event of its group fills in or moves a path, unless the migration has
\* changed the row or is making its index; and then no path twice.
SetPath(i, path) ==
    /\ MayWrite(i)
    /\ orgs[i].gid # None /\ view.orgs[i] = orgs[i]
    /\ mig.pc # "commit"
    /\ mig.pc = "done" => \A j \in DOMAIN orgs \ {i} : orgs[j].path # path
    /\ orgs' = [orgs EXCEPT ![i].path = path]
    /\ view' = [view EXCEPT !.orgs[i].path = path]
    /\ filled' = filled \cup {<<i, path>>}
    /\ UNCHANGED <<members, trail, mig, before, joined>>

Next ==
    \/ Begin
    \/ NextCanon
    \/ NextTwin
    \/ MoveMember
    \/ DeleteTwin
    \/ AdoptPath
    \/ AddConstraint
    \/ Commit
    \/ Abort
    \/ \E i \in DOMAIN orgs :
        \/ Append(i)
        \/ \E u \in Users : Join(i, u)
        \/ \E path \in Paths : SetPath(i, path)

Spec == Init /\ [][Next]_vars

-----------------------------------------------------------------------------
(* Properties.                                                              *)

SameName(i, j) == before.orgs[i].name = before.orgs[j].name

\* The memberships held, of the organizations rows, keep what was joined.
Kept(rows, held) ==
    /\ \A k \in DOMAIN held : k[1] \in DOMAIN rows
    /\ \A m \in joined : \E k \in DOMAIN held :
        /\ k[2] = m[2] /\ SameName(k[1], m[1])
        /\ \/ held[k] = m[1]
           \/ \E x \in joined \ {m} : x[2] = m[2] /\ SameName(x[1], m[1])
    /\ \A k \in DOMAIN held : <<held[k], k[2]>> \in joined /\ SameName(held[k], k[1])

\* "repoint that twin's memberships onto the canonical row": whoever had a
\* membership has one in an organization of that name, the same row if it was
\* the only one there, and nobody has one under a name where he had none; and no
\* membership is left without its organization.  So it is in the tables at any
\* time, and in what the merge leaves in its transaction.
MembersKept == Kept(orgs, members) /\ (mig.pc = "constrain" => Kept(view.orgs, view.members))

\* Row i is as it was, and has the memberships made for it and no other.
Stays(i, rows, held) ==
    /\ i \in DOMAIN rows /\ rows[i] = before.orgs[i]
    /\ \A u \in Users : IF <<i, u>> \in joined
                        THEN <<i, u>> \in DOMAIN held /\ held[<<i, u>>] = i
                        ELSE <<i, u>> \notin DOMAIN held

\* "A twin that already carries audit history is left in place": no membership
\* leaves or enters an organization that has only a path and audit entries, also
\* if the first one is appended while the migration runs.
HistoryStays ==
    \A i \in trail : before.orgs[i].gid = None =>
        /\ Stays(i, orgs, members)
        /\ mig.pc = "constrain" => Stays(i, view.orgs, view.members)

\* "Only adopt the path if no surviving row still holds it": no two rows have one
\* path that had it not before, unless somebody else gave it to one of them.
ConstraintHolds == mig.pc = "constrain" =>
    \A pair \in Doubled(view.orgs) \ Doubled(before.orgs) :
        \E i \in {pair[1], pair[2]} : <<i, view.orgs[i].path>> \in filled

\* A group that forked in two, which nothing else gets in the way of.
CleanFork(c) ==
    LET twins == TwinsOf(before.orgs, c)
        paths == {before.orgs[i].path : i \in twins}
    IN  /\ twins # {} /\ twins \cap trail = {}
        /\ before.orgs[c].gid # None /\ before.orgs[c].path = None
        /\ \A i \in DOMAIN before.orgs \ (twins \cup {c}) :
                ~ SameName(i, c) /\ before.orgs[i].path \notin paths
        /\ \A f \in filled : f[1] # c /\ f[2] \notin paths

Healed(rows, c) ==
    LET twins == TwinsOf(before.orgs, c)
    IN  /\ c \in DOMAIN rows /\ twins \cap DOMAIN rows = {}
        /\ \E i \in twins : rows[c].path = before.orgs[i].path

\* "adopt the path from a same-named path-anchored twin, ... and delete the
\* twin": before the constraint is added, a group that had forked is one
\* organization with its id and its path, if it alone had that name, no twin had
\* audit entries and nobody else had or got the path.  It is not committed (see
\* ConstraintCannotFail).
ForkMerged == \A c \in DOMAIN before.orgs :
    mig.pc = "constrain" /\ CleanFork(c) => Healed(view.orgs, c)

\* "so the unique constraint added next cannot fail", where no rows had one path
\* and nobody writes meanwhile.  It fails after every deletion of a twin.
ConstraintCannotFail ==
    mig.pc = "constrain" /\ Doubled(before.orgs) = {} /\ filled = {} => Constrainable

\* What makes these inductive.
InLoop == mig.pc \in {"twin", "member", "delete", "adopt"}

OnTwin == mig.pc \in {"member", "delete"}

Migrations ==
    [pc      : {"idle", "canon", "twin", "member", "delete", "adopt", "constrain", "commit", "done"},
     canons  : SUBSET DOMAIN before.orgs,
     canon   : Nat,
     twins   : SUBSET DOMAIN before.orgs,
     todo    : SUBSET ((DOMAIN before.orgs) \X Users),
     adopted : {before.orgs[i].path : i \in DOMAIN before.orgs} \cup {None}]

TypeOK ==
    /\ Tables(before)
    /\ trail \subseteq DOMAIN before.orgs
    /\ joined \subseteq (DOMAIN before.orgs) \X Users
    /\ filled \subseteq (DOMAIN before.orgs) \X Paths
    /\ DOMAIN view = {"orgs", "members"}
    /\ DOMAIN view.members \subseteq (DOMAIN before.orgs) \X Users
    /\ mig \in Migrations

\* What a row may become: it keeps its id and its name, and without an id its path.
Follows(i, row) ==
    /\ DOMAIN row = {"gid", "path", "name"}
    /\ row.gid = before.orgs[i].gid /\ row.name = before.orgs[i].name
    /\ before.orgs[i].gid = None => row = before.orgs[i]

\* Nothing is committed before the end but what others write, and all of it then.
OneTransaction ==
    /\ IF mig.pc = "done" THEN orgs = view.orgs /\ members = view.members
       ELSE /\ DOMAIN orgs = DOMAIN before.orgs
            /\ \A i \in DOMAIN orgs :
                /\ Follows(i, orgs[i])
                /\ orgs[i].path = before.orgs[i].path \/ <<i, orgs[i].path>> \in filled
            /\ members = [m \in joined |-> m[1]]
    /\ mig.pc = "idle" => view.orgs = orgs /\ view.members = members

\* It deletes organizations without a group id or audit entries, and gives a path
\* to those that had none.
RowsFit ==
    /\ DOMAIN view.orgs \subseteq DOMAIN before.orgs
    /\ \A i \in DOMAIN before.orgs \ DOMAIN view.orgs : before.orgs[i].gid = None /\ i \notin trail
    /\ \A i \in DOMAIN view.orgs : Follows(i, view.orgs[i])
    /\ \A pair \in Doubled(view.orgs) :
        \/ pair \in Doubled(before.orgs)
        \/ \E i \in {pair[1], pair[2]} : <<i, view.orgs[i].path>> \in filled

\* The rows it has still to merge into, and the twins of the one at hand.
Pending(c) == c \in mig.canons \/ (InLoop /\ c = mig.canon)

LoopFits ==
    /\ \A c \in DOMAIN before.orgs : Pending(c) => before.orgs[c].gid # None
    /\ InLoop =>
        /\ mig.canon \in DOMAIN before.orgs \ mig.canons
        /\ mig.twins \subseteq TwinsOf(before.orgs, mig.canon) \cap DOMAIN view.orgs
    /\ OnTwin => mig.twins # {} /\ \A m \in mig.todo : m \in DOMAIN view.members /\ m[1] = Twin
    /\ mig.pc = "adopt" => mig.twins = {}
    /\ mig.pc \in {"constrain", "commit", "done"} => mig.canons = {}

\* Whatever has no group id is as it was, but that memberships leave the twin at
\* hand.
TwinsStay ==
    \A i \in DOMAIN view.orgs : before.orgs[i].gid = None =>
        \A u \in Users :
            /\ <<i, u>> \in joined /\ ~ (OnTwin /\ i = Twin) =>
                   <<i, u>> \in DOMAIN view.members /\ view.members[<<i, u>>] = i
            /\ <<i, u>> \notin joined => <<i, u>> \notin DOMAIN view.members

\* A clean fork is untouched, at hand, or merged; nobody else takes its paths.
Heals(c) ==
    LET twins == TwinsOf(before.orgs, c)
        paths == {before.orgs[i].path : i \in twins}
    IN  /\ \A i \in DOMAIN view.orgs \ (twins \cup {c}) : view.orgs[i].path \notin paths
        /\ InLoop /\ c # mig.canon => mig.adopted \notin paths
        /\ mig.pc = "idle" \/ c \in mig.canons => twins \subseteq DOMAIN view.orgs
        /\ InLoop /\ c = mig.canon =>
            /\ mig.twins = twins \cap DOMAIN view.orgs
            /\ mig.adopted \in paths \/ (mig.adopted = None /\ mig.twins = twins)
        /\ mig.pc = "idle" \/ Pending(c) \/ Healed(view.orgs, c)

\* The migration's view is a consistent merge at every step.
IInv ==
    /\ TypeOK /\ OneTransaction /\ RowsFit /\ LoopFits /\ TwinsStay
    /\ Kept(view.orgs, view.members)
    /\ \A c \in DOMAIN before.orgs : CleanFork(c) => Heals(c)
=============================================================================
