--------------------------- MODULE OrgReplication ---------------------------
(***************************************************************************)
(* One Organization row per Keycloak group (apps/identity/org_replication):*)
(* find_organization by group id, then by path; the two backfills, under a *)
(* row lock; resolve_or_create_organization with its slugs; and            *)
(* sync_organization_from_group.  Four operations call them: the tasks of  *)
(* a GROUP event ("group"), of a user joining or leaving a group ("join",  *)
(* "leave"), and a login, which resolves the paths of a token one by one.  *)
(*                                                                         *)
(* "group" runs outside any transaction, so each write commits at once;    *)
(* the others are one transaction, whose rows are their own until it ends  *)
(* (READ COMMITTED).  A write waits for a transaction that holds the row,  *)
(* or that wrote an equal unique key.  Names are not modelled.             *)
(*                                                                         *)
(* The users of different processes differ.  A login first locks the       *)
(* memberships of its user FOR UPDATE with their organizations (the joined *)
(* rows of select_related), in the order of Membership.Meta; others wait   *)
(* for these to write them, and to commit a new membership there, whose    *)
(* (deferred) foreign key asks for KEY SHARE.                              *)
(***************************************************************************)
EXTENDS Naturals, Sequences, FiniteSets, Functions, SequencesExt

CONSTANTS Procs,    \* Celery workers and web workers
          Ids,      \* primary keys of Organization, numbered in their order
          Gids,     \* Keycloak group ids
          Paths,    \* normalized group paths
          None,     \* NULL, the empty path, or no organization
          Settings, \* what happens: [events |-> the [gid, path] that admin events
                    \* carry, of which a path may be None; claims |-> the path sequences
                    \* that tokens carry; members |-> may users be members before?]
          SlugBase, \* the slug of each path, and of the name of each group
          MaxSlugs, \* _MAX_SLUG_ATTEMPTS
          Local     \* the organizations without a group: the slug of each id

ASSUME IdsAssumption == Ids \subseteq Nat /\ IsFiniteSet(Ids)
ASSUME NoneAssumption == None \notin Ids \cup Gids \cup Paths
ASSUME SettingsAssumption ==
    \A s \in Settings : /\ s.events \subseteq [gid : Gids, path : Paths \cup {None}]
                        /\ s.claims \subseteq Seq(Paths) \ {<< >>} /\ s.members \in BOOLEAN
ASSUME SlugAssumption == DOMAIN SlugBase = Gids \cup Paths /\ MaxSlugs \in Nat \ {0}
ASSUME LocalAssumption == DOMAIN Local \subseteq Ids /\ IsInjective(Local)

VARIABLES
    orgs,  \* committed Organization rows, by primary key
    proc,  \* what each process does
    now    \* the setting

vars == <<orgs, proc, now>>

\* own: the rows p wrote; todo, held: the organizations of its user that a login
\* has yet to lock, and has locked; joined: those it makes him a member of.
Idle == [pc |-> "idle", op |-> "none", refs |-> << >>, own |-> << >>, org |-> None, tries |-> 0,
         todo |-> << >>, held |-> {}, joined |-> {}]

\* The claims of a token, as GroupRefs: a path and no id.
ClaimRefs(claim) == [n \in DOMAIN claim |-> [gid |-> None, path |-> claim[n]]]

With(rows, i, row) == [j \in DOMAIN rows \cup {i} |-> IF j = i THEN row ELSE rows[j]]

\* What a SELECT of p sees: the committed rows and its own.
Seen(p) == [j \in DOMAIN orgs \cup DOMAIN proc[p].own |->
               IF j \in DOMAIN proc[p].own THEN proc[p].own[j] ELSE orgs[j]]

Ref(p) == Head(proc[p].refs)

Current(p) == Seen(p)[proc[p].org]

\* Mutant: only the group id is unique.
Clash_IdOnly(rows, i, row) == \E j \in DOMAIN rows \ {i} : row.gid # None /\ rows[j].gid = row.gid

\* UNIQUE keycloak_group_id, keycloak_group_path (where set) and slug.
Alike(a, b) ==
    \/ a.gid # None /\ b.gid = a.gid
    \/ a.path # None /\ b.path = a.path
    \/ b.slug = a.slug

Clash(rows, i, row) == \E j \in DOMAIN rows \ {i} : Alike(row, rows[j])

\* Mutant: the locked row is not looked at again.
FilledId_NoRecheck(row, gid) == [row EXCEPT !.gid = gid]

\* The row after a backfill: one that was filled meanwhile stays as it is.
FilledId(row, gid) == IF row.gid = None THEN [row EXCEPT !.gid = gid] ELSE row

FilledPath(row, path) == IF row.path = None THEN [row EXCEPT !.path = path] ELSE row

\* The row of a new organization; its n-th slug has the suffix n.
NewOrg(ref, n) ==
    [gid |-> ref.gid, path |-> ref.path,
     slug |-> <<SlugBase[IF ref.path = None THEN ref.gid ELSE ref.path], n>>]

\* The row p is about to write, and for whom it has to wait.
Wanted(p) ==
    CASE proc[p].pc = "fill id"   -> FilledId(Current(p), Ref(p).gid)
      [] proc[p].pc = "fill path" -> FilledPath(Current(p), Ref(p).path)
      [] proc[p].pc = "create"    -> NewOrg(Ref(p), proc[p].tries + 1)
      [] proc[p].pc = "sync"      -> IF Ref(p).path = None THEN Current(p)
                                     ELSE [Current(p) EXCEPT !.path = Ref(p).path]

Writing(p) == proc[p].pc \in {"fill id", "fill path", "create", "sync"}

\* The organizations the user of p becomes a member of, with the one found last.
Joined(p) ==
    LET q == proc[p]
    IN  q.joined \cup IF q.op \in {"login", "join"} THEN {q.org} \ (q.held \cup {None}) ELSE {}

\* Is p about to commit?
Done(p) == proc[p].pc = "end" /\ Len(proc[p].refs) = 1

\* The organizations p is about to lock: the next one of a login, or when it
\* commits, those of the memberships it made.
Asked(p) ==
    CASE proc[p].pc = "lock" -> {proc[p].todo[1]}
      [] Done(p) -> Joined(p)
      [] Writing(p) -> {proc[p].org}
      [] OTHER -> {}

Holds(q) == proc[q].held \cup DOMAIN proc[q].own

Blockers(p) ==
    {q \in Procs \ {p} : \/ Asked(p) \cap Holds(q) # {}
                         \/ Writing(p) /\ Clash(proc[q].own, proc[p].org, Wanted(p))}

-----------------------------------------------------------------------------
Init ==
    /\ orgs = [i \in DOMAIN Local |-> [gid |-> None, path |-> None, slug |-> Local[i]]]
    /\ proc = [p \in Procs |-> Idle]
    /\ now \in Settings

Go(p, new) == proc' = [proc EXCEPT ![p] = new] /\ UNCHANGED now

\* Where the search for a group starts: by id, if the ref has one.
Search(ref) == IF ref.gid = None THEN "by path" ELSE "by id"

\* What a process goes on to with the organization (or None) it resolved.
Resolved(p, i) ==
    [proc[p] EXCEPT !.org = i,
                    !.pc = IF @ = "sync" \/ proc[p].op # "group" \/ i = None THEN "end" ELSE "sync"]

\* A task begins.
Start(p, op, refs) ==
    /\ proc[p].pc = "idle"
    /\ Go(p, [Idle EXCEPT !.pc = Search(refs[1]), !.op = op, !.refs = refs])
    /\ UNCHANGED orgs

\* A login that has yet to lock these rows, in this order, or that goes on.
Locking(q, todo) ==
    [q EXCEPT !.todo = todo, !.pc = IF todo = << >> THEN Search(q.refs[1]) ELSE "lock"]

Ascending(s) == \A m, n \in DOMAIN s : m < n => s[m] < s[n]

\* Mutant: the rows come in any order.
StartLogin_Unordered(p, claim, mine) ==
    /\ proc[p].pc = "idle"
    /\ \E s \in SetToSeqs(mine) :
        Go(p, Locking([Idle EXCEPT !.op = "login", !.refs = ClaimRefs(claim)], s))
    /\ UNCHANGED orgs

\* A login begins, of a user who is a member of some organizations.
StartLogin(p, claim, mine) ==
    /\ proc[p].pc = "idle"
    /\ \E s \in SetToSeqs(mine) :
        /\ Ascending(s)
        /\ Go(p, Locking([Idle EXCEPT !.op = "login", !.refs = ClaimRefs(claim)], s))
    /\ UNCHANGED orgs

\* It locks them one after the other.
LockOrg(p) ==
    LET todo == proc[p].todo IN
    /\ proc[p].pc = "lock"
    /\ Blockers(p) = {}
    /\ Go(p, Locking([proc[p] EXCEPT !.held = @ \cup {todo[1]}], Tail(todo)))
    /\ UNCHANGED orgs

\* find_organization: SELECT by group id, and the path is to be filled in.
FindById(p) ==
    LET found == {i \in DOMAIN Seen(p) : Seen(p)[i].gid = Ref(p).gid}
    IN  /\ proc[p].pc = "by id"
        /\ \/ found = {} /\ Go(p, [proc[p] EXCEPT !.pc = "by path"])
           \/ \E i \in found :
                Go(p, IF Ref(p).path # None /\ Seen(p)[i].path = None
                      THEN [proc[p] EXCEPT !.pc = "fill path", !.org = i]
                      ELSE Resolved(p, i))
        /\ UNCHANGED orgs

\* SELECT by path, and the id is to be filled in.
FindByPath(p) ==
    LET found == {i \in DOMAIN Seen(p) : Ref(p).path # None /\ Seen(p)[i].path = Ref(p).path}
    IN  /\ proc[p].pc = "by path"
        /\ \/ found = {} /\ Go(p, [proc[p] EXCEPT !.pc = "absent"])
           \/ \E i \in found :
                Go(p, IF Ref(p).gid # None /\ Seen(p)[i].gid = None
                      THEN [proc[p] EXCEPT !.pc = "fill id", !.org = i]
                      ELSE Resolved(p, i))
        /\ UNCHANGED orgs

\* No organization: a leave ends there, and the loop over slugs at its bound.
Absent(p) ==
    /\ proc[p].pc = "absent"
    /\ Go(p, IF proc[p].op = "leave" \/ proc[p].tries = MaxSlugs
             THEN Resolved(p, None)
             ELSE [proc[p] EXCEPT !.pc = "create"])
    /\ UNCHANGED orgs

\* A write of row i goes on in p's transaction, or commits if p has none.
Save(p, i, row, new) ==
    IF proc[p].op = "group"
    THEN Go(p, new) /\ orgs' = With(orgs, i, row)
    ELSE Go(p, [new EXCEPT !.own = With(@, i, row)]) /\ UNCHANGED orgs

\* Primary keys that nobody used (they are random UUIDs).
FreeIds == Ids \ UNION ({DOMAIN orgs} \cup {DOMAIN proc[q].own : q \in Procs})

\* Organization.objects.create; which free key it gets makes no difference.
CreateOrg(p) ==
    /\ proc[p].pc = "create"
    /\ Blockers(p) = {}
    /\ ~ Clash(Seen(p), None, Wanted(p))
    /\ FreeIds # {}
    /\ LET i == CHOOSE i \in FreeIds : TRUE IN Save(p, i, Wanted(p), Resolved(p, i))

\* Mutant: the same slug is tried again.
CreateConflict_SameSlug(p) ==
    /\ proc[p].pc = "create"
    /\ Clash(Seen(p), None, Wanted(p))
    /\ Go(p, [proc[p] EXCEPT !.pc = Search(Ref(p))])
    /\ UNCHANGED orgs

\* Mutant: the row that has the slug is taken for the group's.
CreateConflict_TakesSlug(p) ==
    /\ proc[p].pc = "create"
    /\ Clash(Seen(p), None, Wanted(p))
    /\ \E i \in DOMAIN Seen(p) :
        /\ Clash([j \in {i} |-> Seen(p)[i]], None, Wanted(p))
        /\ Go(p, Resolved(p, i))
    /\ UNCHANGED orgs

\* IntegrityError: the group is looked up again, then the next slug is tried.
CreateConflict(p) ==
    /\ proc[p].pc = "create"
    /\ Clash(Seen(p), None, Wanted(p))
    /\ Go(p, [proc[p] EXCEPT !.pc = Search(Ref(p)), !.tries = @ + 1])
    /\ UNCHANGED orgs

\* _backfill_group_id and _backfill_group_path.
Backfill(p) ==
    /\ proc[p].pc \in {"fill id", "fill path"}
    /\ Blockers(p) = {}
    /\ ~ Clash(Seen(p), proc[p].org, Wanted(p))
    /\ Save(p, proc[p].org, Wanted(p), Resolved(p, proc[p].org))

\* IntegrityError: another row has the id, or the path.
BackfillConflict(p) ==
    /\ proc[p].pc \in {"fill id", "fill path"}
    /\ Blockers(p) = {}
    /\ Clash(Seen(p), proc[p].org, Wanted(p))
    /\ Go(p, [proc[p] EXCEPT !.pc = IF @ = "fill id" THEN "lost id" ELSE "lost path"])
    /\ UNCHANGED orgs

\* A SELECT for that row, which is used instead; if it is gone (it moved to
\* another path meanwhile), the row found first.
TakeOwner(p) ==
    LET key   == IF proc[p].pc = "lost id" THEN "gid" ELSE "path"
        owner == {i \in DOMAIN Seen(p) : Seen(p)[i][key] = Ref(p)[key]}
    IN  /\ proc[p].pc \in {"lost id", "lost path"}
        /\ \/ \E i \in owner : Go(p, Resolved(p, i))
           \/ owner = {} /\ Go(p, Resolved(p, proc[p].org))
        /\ UNCHANGED orgs

\* sync_organization_from_group moves the row to the path of the event.
Sync(p) ==
    /\ proc[p].pc = "sync"
    /\ Blockers(p) = {}
    /\ ~ Clash(Seen(p), proc[p].org, Wanted(p))
    /\ Save(p, proc[p].org, Wanted(p), Resolved(p, proc[p].org))

\* IntegrityError, which nothing catches: the task fails.
SyncFails(p) ==
    /\ proc[p].pc = "sync"
    /\ Clash(Seen(p), proc[p].org, Wanted(p))
    /\ Go(p, [proc[p] EXCEPT !.pc = "failed"])
    /\ UNCHANGED orgs

\* A login goes on to the next group of its token.
NextRef(p) ==
    /\ proc[p].pc = "end" /\ ~ Done(p)
    /\ Go(p, [proc[p] EXCEPT !.pc = Search(proc[p].refs[2]), !.refs = Tail(@), !.org = None,
                             !.tries = 0, !.joined = Joined(p)])
    /\ UNCHANGED orgs

\* The transaction commits.
Commit(p) ==
    /\ Done(p)
    /\ Blockers(p) = {}
    /\ orgs' = Seen(p)
    /\ Go(p, Idle)

\* A crash, an error, the retry of a failed task, or the choice of PostgreSQL
\* in a deadlock.
Rollback(p) ==
    /\ proc[p].pc # "idle"
    /\ Go(p, Idle)
    /\ UNCHANGED orgs

-----------------------------------------------------------------------------
Advance(p) ==
    \/ LockOrg(p)
    \/ FindById(p)
    \/ FindByPath(p)
    \/ Absent(p)
    \/ CreateOrg(p)
    \/ CreateConflict(p)
    \/ Backfill(p)
    \/ BackfillConflict(p)
    \/ TakeOwner(p)
    \/ Sync(p)
    \/ SyncFails(p)
    \/ NextRef(p)
    \/ Commit(p)

Next == \E p \in Procs :
    \/ \E op \in {"group", "join", "leave"}, ref \in now.events : Start(p, op, <<ref>>)
    \/ \E claim \in now.claims, mine \in IF now.members THEN SUBSET DOMAIN orgs ELSE {{}} :
            StartLogin(p, claim, mine)
    \/ Advance(p)
    \/ Rollback(p)

Spec == Init /\ [][Next]_vars

\* Processes that wait for each other; PostgreSQL rolls one of them back.
Deadlocked(p) == \E D \in SUBSET Procs : p \in D /\ \A d \in D : Blockers(d) \cap D # {}

\* A process that can go on does, and one that queues for a row or a key gets
\* its turn (PostgreSQL wakes waiters in order).
FairSpec ==
    /\ Spec
    /\ \A p \in Procs :
        /\ SF_vars(Advance(p))
        /\ WF_vars((Deadlocked(p) \/ proc[p].pc = "failed") /\ Rollback(p))

-----------------------------------------------------------------------------
(* Properties.                                                              *)

Refs == [gid : Gids \cup {None}, path : Paths \cup {None}]

Slugs == {Local[i] : i \in DOMAIN Local} \cup ({SlugBase[x] : x \in Gids \cup Paths} \X (1 .. MaxSlugs))

Rows == [gid : Gids \cup {None}, path : Paths \cup {None}, slug : Slugs]

Tables == UNION {[S -> Rows] : S \in SUBSET Ids}

Pcs == {"idle", "by id", "by path", "absent", "create", "fill id", "fill path", "lost id",
        "lost path", "sync", "end", "lock", "failed"}

\* The types, which the other properties presuppose.
TypeOK ==
    /\ orgs \in Tables
    /\ proc \in [Procs -> [pc : Pcs, op : {"none", "group", "join", "leave", "login"},
                          refs : Seq(Refs), own : Tables, org : Ids \cup {None},
                          tries : 0 .. MaxSlugs, todo : Seq(Ids), held : SUBSET Ids,
                          joined : SUBSET Ids]]
    /\ now \in Settings

PathsOf(g) == {e.path : e \in {f \in now.events : f.gid = g}} \ {None}

\* Groups that never move, and whose events carry their path.
Settled == {g \in Gids : \E path \in Paths : {e.path : e \in {f \in now.events : f.gid = g}} = {path}}

\* A group that stays where it is has one organization at most, and an
\* organization has a path of its own group only, however events and logins
\* interleave, whatever other groups do at that path (Organization.Meta: "A
\* Keycloak group maps to exactly one Organization").
OneOrgPerGroup ==
    /\ \A g \in Settled :
        Cardinality({i \in DOMAIN orgs : orgs[i].gid = g \/ orgs[i].path \in PathsOf(g)}) <= 1
    /\ \A i \in DOMAIN orgs :
        orgs[i].gid # None /\ orgs[i].path # None => orgs[i].path \in PathsOf(orgs[i].gid)

\* The organization a task or login goes on with has the id it asked for; or it
\* is nobody's yet and has the path it asked for (and never, if the event is of
\* a settled group); or it is that of another group, of which some event had that
\* path.  So two groups that share a path share the row there too (find_organization
\* falls back to the path), but no other group's row is ever taken, nor one that
\* merely had the slug.
Anchored ==
    \A p \in Procs : proc[p].pc \in {"sync", "end"} /\ proc[p].org # None =>
        /\ Current(p).gid = None =>
              Ref(p).path # None /\ Current(p).path = Ref(p).path /\ Ref(p).gid \notin Settled
        /\ Current(p).gid \notin {None, Ref(p).gid} => Ref(p).path \in PathsOf(Current(p).gid)

\* A group id, once it is written, stays with its row: of two groups that had
\* one path, the second takes over nothing (the recheck under the row lock).
IdSticks ==
    [][\A i \in DOMAIN orgs : orgs[i].gid # None => orgs'[i].gid = orgs[i].gid]_vars

\* Logins that only lock what their users have never wait for each other in a
\* circle, so a deadlock needs one that creates an organization, fills in a key or
\* makes a membership (the ordering of Membership.Meta orders the locks).
LocksInOrder ==
    \A D \in (SUBSET {p \in Procs : proc[p].pc = "lock"}) \ {{}} : \E p \in D : Blockers(p) \cap D = {}

\* What makes them inductive.  Whoever writes a row waits for the transactions
\* that hold the row or its keys, so no keys are equal in what a process sees,
\* nor in what two of them wrote.
UniqueKeys ==
    /\ \A i, j \in DOMAIN orgs : i # j => ~ Alike(orgs[i], orgs[j])
    /\ \A p \in Procs : \A i, j \in DOMAIN Seen(p) : i # j => ~ Alike(Seen(p)[i], Seen(p)[j])
    /\ \A p, q \in Procs : p # q =>
          \A i \in DOMAIN proc[p].own, j \in DOMAIN proc[q].own :
              i # j /\ ~ Alike(proc[p].own[i], proc[q].own[j])

\* A row with a group id has no path of another group, and has one if the
\* events of its group always carry it.
RowOK(row) ==
    row.gid # None => /\ row.path # None => row.path \in PathsOf(row.gid)
                      /\ row.gid \in Settled => row.path # None

\* What a row may become: its id stays, and without one its path, unless the
\* row becomes that of a group with such a path.
Follows(old, new) ==
    /\ old.gid # None => new.gid = old.gid
    /\ old.gid = None /\ old.path # None =>
          IF new.gid = None THEN new.path = old.path ELSE old.path \in PathsOf(new.gid)

RowsFollow ==
    /\ \A i \in DOMAIN orgs : RowOK(orgs[i])
    /\ \A p \in Procs : \A i \in DOMAIN proc[p].own :
          /\ RowOK(proc[p].own[i])
          /\ i \in DOMAIN orgs => Follows(orgs[i], proc[p].own[i])

\* The organization p has found has the path it asked for, or is that of a
\* group with that path.
Near(p) ==
    /\ Ref(p).path # None
    /\ IF Current(p).gid = None THEN Current(p).path = Ref(p).path
                                ELSE Ref(p).path \in PathsOf(Current(p).gid)

\* What a process asks for.
AsksFor(p) == proc[p].pc # "idle" =>
    /\ proc[p].refs # << >>
    /\ IF proc[p].op = "login"
       THEN \A n \in DOMAIN proc[p].refs : proc[p].refs[n].gid = None /\ proc[p].refs[n].path # None
       ELSE Len(proc[p].refs) = 1 /\ Ref(p) \in now.events

\* Where it stands, and with which organization.
StandsAt(p) ==
    /\ proc[p].pc = "idle" => proc[p] = Idle
    /\ proc[p].pc \in {"lock", "by id", "by path", "absent", "create"} => proc[p].org = None
    /\ proc[p].pc \in {"fill id", "fill path", "lost id", "lost path", "sync"} => proc[p].org # None
    /\ proc[p].org # None => proc[p].org \in DOMAIN Seen(p)
    /\ proc[p].pc = "by id" => Ref(p).gid # None
    /\ proc[p].pc = "create" => proc[p].tries < MaxSlugs
    /\ proc[p].pc = "fill id" => Ref(p).gid # None /\ Near(p)
    /\ proc[p].pc = "lost id" =>
          Ref(p).gid # None /\ \E i \in DOMAIN Seen(p) : Seen(p)[i].gid = Ref(p).gid
    /\ proc[p].pc \in {"fill path", "lost path"} =>
          /\ Ref(p).gid # None /\ Current(p).gid = Ref(p).gid
          /\ Ref(p).path # None /\ Ref(p).gid \notin Settled
    /\ proc[p].pc = "sync" => proc[p].op = "group"
    /\ proc[p].pc \in {"sync", "end"} /\ proc[p].org # None =>
          \/ Near(p) /\ (Current(p).gid = None => Ref(p).gid \notin Settled)
          \/ Ref(p).gid # None /\ Current(p).gid = Ref(p).gid
    /\ proc[p].op = "group" => DOMAIN proc[p].own = {}

\* What a login has yet to lock comes after what it holds.
LocksUpwards(p) == proc[p].pc = "lock" =>
    /\ proc[p].op = "login" /\ DOMAIN proc[p].own = {}
    /\ proc[p].todo # << >> /\ Ascending(proc[p].todo)
    /\ \A i \in proc[p].held : i < proc[p].todo[1]

IInv ==
    /\ TypeOK /\ UniqueKeys /\ RowsFollow
    /\ \A p \in Procs : AsksFor(p) /\ StandsAt(p) /\ LocksUpwards(p)

\* Every resolution ends, whatever slugs are taken and whoever waits for whom.
ResolvesEnd == \A p \in Procs : []<>(proc[p].pc = "idle")

=============================================================================
